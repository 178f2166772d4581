----------------------------- MODULE PrefixMultiset -----------------------------
(***************************************************************************)
(* What a Memento filter promises to its callers: it is a bag of hashed    *)
(* keys.  A hashed key is a triple <<bucket, fingerprint, memento>>; two   *)
(* keys that hash alike are one element, which is the only way the filter  *)
(* may confuse them.  A call either takes effect as a whole and says so,   *)
(* or leaves the bag as it was and says why (the callers' view of          *)
(* qf_insert_single, qf_insert_mementos, qf_delete_single, qf_bulk_load    *)
(* and qf_reset).                                                          *)
(***************************************************************************)
EXTENDS Integers, Sequences, FiniteSets, Bags

CONSTANTS
    KeyPrefixes,    \* the <<bucket, fingerprint>> pairs the keys hash to
    KeyMementos,    \* the mementos of the keys
    MementoLists,   \* the sorted lists given to qf_insert_mementos
    BulkInputs      \* the inputs of qf_bulk_load, sorted sequences of hashed keys

VARIABLES
    contents,       \* the bag of hashed keys
    ret             \* what the last call returned

vars == << contents, ret >>

Key(x, m) == << x[1], x[2], m >>

BagOfSeq(keys) ==
    [k \in {keys[i] : i \in DOMAIN keys} |-> Cardinality({i \in DOMAIN keys : keys[i] = k})]

Init == contents = EmptyBag /\ ret = "ok"

\* The hashed keys of a prefix and several mementos.
KeysUnder(x, ms) == [i \in DOMAIN ms |-> Key(x, ms[i])]

\* What the calls do, each with its own arguments: it takes the bag from `old` to
\* `new`.  An insertion of keys adds these, or has no room.
Insert(keys, old, new) ==
    \/ ret' = "ok" /\ new = old (+) BagOfSeq(keys)
    \/ ret' = "no_space" /\ new = old

\* A delete of key k takes one copy of it, if there is one.
Delete(k, old, new) ==
    IF BagIn(k, old) THEN ret' = "ok" /\ new = old (-) SetToBag({k})
    ELSE ret' = "doesnt_exist" /\ new = old

Load(keys, old, new) == ret' = "ok" /\ old = EmptyBag /\ new = BagOfSeq(keys)

Clear(new) == ret' = "ok" /\ new = EmptyBag

\* qf_resize_malloc has copied the keys, or there was no room or no key.
Grow(old, new) ==
    /\ new = old
    /\ \/ ret' = "copied" /\ old # EmptyBag
       \/ ret' = "no_space"

Next ==
    \E old \in {contents}, new \in {contents'} :
        \/ \E x \in KeyPrefixes, m \in KeyMementos :
             Insert(KeysUnder(x, << m >>), old, new) \/ Delete(Key(x, m), old, new)
        \/ \E x \in KeyPrefixes, ms \in MementoLists : Insert(KeysUnder(x, ms), old, new)
        \/ \E keys \in BulkInputs : Load(keys, old, new)
        \/ Clear(new)
        \/ Grow(old, new)

Spec == Init /\ [][Next]_vars
=================================================================================
