---------------------------- MODULE MCRundownIngest ----------------------------
(***************************************************************************)
(* Four rundowns on air whose Segments the newsroom sends and takes away:  *)
(* in the first it hides the second (and takes the first for good), in the *)
(* second a Part autonexts, in the third the only Segment is rewritten. In *)
(* the fourth a gateway reports, and two earlier instances may be kept.    *)
(***************************************************************************)
EXTENDS RundownIngest

Told(hidden, parts) == [hidden |-> hidden, parts |-> parts]
Sent(p) == Told(FALSE, p :> "playable")

Hiding ==
    [numParts |-> 2, segmentOf |-> <<1, 2>>, playable |-> 1..2, blueprintMoves |-> {},
     autoNextParts |-> {}, holdFrom |-> {}, holdTo |-> {}, modes |-> {"active"},
     allowResetOnAir |-> FALSE, playFromAnywhere |-> FALSE, gatewayAttached |-> FALSE,
     maxPrevious |-> 1, trackPlayed |-> FALSE, maxCrashes |-> 0, maxCleanups |-> 1, maxInstances |-> 3,
     edits |-> <<{}, {Sent(2), Told(TRUE, 2 :> "playable")}>>]

Autonexting ==
    [Hiding EXCEPT !.autoNextParts = {1}, !.maxInstances = 2, !.edits = <<{Sent(1)}, {Sent(2)}>>]

Rewriting ==
    [Hiding EXCEPT !.numParts = 3, !.segmentOf = <<1, 1, 1>>, !.playable = 1..3,
        !.edits = <<{Told(FALSE, 1 :> a @@ 2 :> b @@ 3 :> "playable") :
                        a, b \in {"playable", "absent"}} \
                    {Told(FALSE, 1 :> "playable" @@ 2 :> "absent" @@ 3 :> "playable")}>>]

Reported ==
    [Hiding EXCEPT !.gatewayAttached = TRUE, !.maxPrevious = 2, !.maxInstances = 2,
        !.edits = <<{}, {Sent(2)}>>]

IngestSettings == {Hiding, Autonexting, Rewriting, Reported}
================================================================================
