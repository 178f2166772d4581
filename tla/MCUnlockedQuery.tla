---------------------------- MODULE MCUnlockedQuery ----------------------------
(***************************************************************************)
(* One query beside an updater, on a filter of two adjacent buckets.       *)
(***************************************************************************)
EXTENDS UnlockedQuery

NoLists == {}
AdjacentPrefixes == { <<1, 1>>, <<2, 1>> }
OneMemento == { 1 }
================================================================================
