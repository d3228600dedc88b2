---------------------------- MODULE MCRecordStore ----------------------------
(* Instances of RecordStore for TLC.                                       *)
EXTENDS RecordStore, TLC

CONSTANTS draft, posted, A, B, c1, c2

NoLegacy == <<>>
OneOld == <<A>>        \* a record older than the constraint
TwoAlike == <<A, A>>   \* two that collide
PostingGraph == {<<draft, posted>>}
NoGraph == {}
ClientAndCodeSymmetry == Permutations(Clients) \union Permutations(Codes)
=============================================================================
