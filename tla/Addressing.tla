------------------------------- MODULE Addressing -------------------------------
(***************************************************************************)
(* How a hash is split into a bucket and a fingerprint at every size of a  *)
(* Memento filter, and put together again (memento.c).  Doubling the       *)
(* filter moves one bit from the fingerprint to the bucket.                *)
(***************************************************************************)
EXTENDS Integers

CONSTANTS
    OrigQuotientBits,   \* metadata->original_quotient_bits
    Extension,          \* the doublings the filter already has been through
    FingerprintBits     \* the fingerprint bits it has left

ASSUME AddressingAssumption ==
    OrigQuotientBits \in Nat /\ Extension \in Nat /\ FingerprintBits \in Nat

\* The bucket and the fingerprint of hash h in the filter after d more doublings:
\* below the bits of the original bucket come those of the extension.
Address(h, d) ==
    LET rest == h \div 2^OrigQuotientBits IN
    << (h % 2^OrigQuotientBits) * 2^(Extension + d) + (rest % 2^(Extension + d)),
       (rest \div 2^(Extension + d)) % 2^(FingerprintBits - d) >>

\* The hash qfi_get puts together again.
HashAt(b, f, d) ==
    b \div 2^(Extension + d)
        + ((b % 2^(Extension + d)) + f * 2^(Extension + d)) * 2^OrigQuotientBits

\* The bits of a hash that a filter keeps, and what it has of them at each size.
Hashes == 0 .. 2^OrigQuotientBits * 2^Extension * 2^FingerprintBits - 1
BucketsAt(d) == 0 .. 2^OrigQuotientBits * 2^(Extension + d) - 1
FingerprintsAt(d) == 0 .. 2^(FingerprintBits - d) - 1
=================================================================================
