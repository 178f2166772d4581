------------------------------- MODULE MCResizing -------------------------------
(***************************************************************************)
(* A filter of four buckets that has been doubled once and is doubled      *)
(* again.                                                                  *)
(***************************************************************************)
EXTENDS Resizing, TLC

\* Two prefixes of one bucket, which doubling parts, and one of a bucket further on.
PartingHashes == { 10, 14, 15 }

TwoXNSlots == 0 :> 10 @@ 1 :> 16
EndMementos == { 0, 7 }

\* No mementos, and as many as only an empty filter has the capacity for.
GrowingLists == { << >>, << 0, 7, 7 >> }

LoadedKeys ==
    { << <<10, 0>>, <<10, 7>>, <<14, 0>> >>,
      << <<10, 7>>, <<10, 7>>, <<14, 0>>, <<14, 7>> >>,
      << <<14, 0>>, <<14, 0>>, <<14, 7>> >> }
=================================================================================
