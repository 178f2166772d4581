---------------------------- MODULE MCMementoFilter ----------------------------
(***************************************************************************)
(* Small filters for TLC: the prefixes, mementos and inputs of each run.   *)
(***************************************************************************)
EXTENDS MementoFilterProperties

NoLists == {}

\* Runs that start in several blocks of two slots, two boxes in one bucket, and
\* the void fingerprint.  One memento, so that boxes hold equal mementos.
SpillPrefixes == { <<0, 1>>, <<1, 0>>, <<1, 2>>, <<2, 2>>, <<6, 1>> }
SpillMementos == { 1 }
SpillLists == { << 1, 1, 1 >> }

\* Every sorted bulk input of up to four of their keys.
SpillKeys == << <<0, 1, 1>>, <<1, 0, 1>>, <<1, 2, 1>>, <<2, 2, 1>>, <<6, 1, 1>> >>
SpillInputs ==
    UNION {{[i \in 1 .. n |-> SpillKeys[s[i]]] :
              s \in {t \in [1 .. n -> DOMAIN SpillKeys] : \A i \in 1 .. n - 1 : t[i] <= t[i + 1]}} :
           n \in 1 .. 4}

\* Two boxes of adjacent buckets that grow and shrink through every layout;
\* counters of one symbol.
BoxPrefixes == { <<1, 1>>, <<2, 3>> }
BoxMementoSet == { 0, 3, 7 }
GivenLists == { << >>, << 3, 3 >>, << 0, 7 >>, << 0, 3, 7 >> }

\* One box grown past one-digit counters.
CounterPrefix == { <<1, 2>> }
CounterMementos == { 1, 3 }
AllMementos == { 0, 1, 2, 3 }

\* Equal mementos of the void fingerprint before other boxes of the bucket.
VoidMementos == { 0, 7 }
VoidPrefixes == { <<0, 0>>, <<0, 1>>, <<0, 2>> }
EqualPairs == { << 7, 7 >> }

\* A bucket whose number is not that of its block, and two of its prefixes.
OneBucket == { <<3, 1>>, <<3, 2>> }

\* One fingerprint in adjacent buckets.
SameFingerprint == { <<1, 1>>, <<2, 1>> }
================================================================================
