----------------------------- MODULE MCMementoLocks -----------------------------
(***************************************************************************)
(* Instances of MementoLocks: regions of four slots and a cluster bound of *)
(* two.  Buckets 2 and 6 lock their region and the next one, so that       *)
(* region 1 is the second lock of one and the first of the other; bucket 5 *)
(* only locks its own region.                                              *)
(***************************************************************************)
EXTENDS MementoLocksProperties, TLC

ThreadSymmetry == Permutations(Threads)

AllKinds == Operations
UpdateKinds == {"insert_single", "insert_mementos", "delete_single"}
Singles == {"insert_single", "delete_single"}

CrossingBuckets == {2, 6}
MixedBuckets == {2, 5}
=================================================================================
