------------------------------ MODULE MCPlayout ------------------------------
(***************************************************************************)
(* Studios and rundowns for Playout: in Holds there are segments to queue, *)
(* holds and a gateway, in Resets no gateway, and activations and resets   *)
(* on air, in Earlier two instances stay previous, in Anywhere users play  *)
(* from any instance that was played, in Moves blueprints move the next,   *)
(* in Crashes the worker dies, and in Remains it does while instances of   *)
(* earlier activations are stored.                                         *)
(***************************************************************************)
EXTENDS Playout

Holds ==
    [numParts |-> 4, segmentOf |-> <<1, 1, 2, 3>>, playable |-> 1..4, blueprintMoves |-> {},
     autoNextParts |-> {2}, holdFrom |-> {1}, holdTo |-> {2}, modes |-> {"rehearsal"},
     allowResetOnAir |-> FALSE, playFromAnywhere |-> FALSE, gatewayAttached |-> TRUE,
     maxPrevious |-> 1, trackPlayed |-> FALSE, maxCrashes |-> 0]

Resets ==
    [Holds EXCEPT !.numParts = 1, !.segmentOf = <<1>>, !.playable = {1},
                  !.autoNextParts = {1}, !.holdFrom = {}, !.holdTo = {},
                  !.modes = {"active", "rehearsal"}, !.allowResetOnAir = TRUE,
                  !.gatewayAttached = FALSE]

Earlier == [Resets EXCEPT !.modes = {"rehearsal"}, !.maxPrevious = 2]

Moves ==
    [Holds EXCEPT !.numParts = 2, !.segmentOf = <<1, 2>>, !.playable = {1, 2},
                  !.holdFrom = {}, !.holdTo = {}, !.blueprintMoves = {2}]

Anywhere ==
    [Moves EXCEPT !.segmentOf = <<1, 1>>, !.blueprintMoves = {}, !.autoNextParts = {},
                  !.modes = {"active"}, !.playFromAnywhere = TRUE, !.gatewayAttached = FALSE,
                  !.trackPlayed = TRUE]

Crashes ==
    [Moves EXCEPT !.segmentOf = <<1, 1>>, !.blueprintMoves = {}, !.modes = {"active"},
                  !.gatewayAttached = FALSE, !.maxCrashes = 1]

Remains ==
    [Resets EXCEPT !.modes = {"active"}, !.allowResetOnAir = FALSE,
                   !.trackPlayed = TRUE, !.maxCrashes = 1]

AllSettings == {Holds, Resets, Earlier, Moves, Anywhere, Crashes, Remains}
OnlyHolds == {Holds}
==============================================================================
