---------------------------- MODULE MCChangeFeed ----------------------------
(* Two queries on one collection: every document, and those that are on.   *)
EXTENDS ChangeFeed

CONSTANTS d1, d2, all, some, o1, o2

MCInitial == [d \in Docs |-> "on"]
(* The first document is switched off, the second one deleted, inserted.   *)
MCWrites ==
  {[doc |-> d1, kind |-> "update", value |-> "off"],
   [doc |-> d2, kind |-> "delete", value |-> "absent"],
   [doc |-> d2, kind |-> "replace", value |-> "on"]}
MCMatching == [q \in Queries |-> IF q = all THEN {"on", "off"} ELSE {"on"}]
MCQueryOf == [o \in Observers |-> some]
=============================================================================
