--------------------------- MODULE MCFingerprint ---------------------------
(* Instances of Fingerprint for TLC.                                       *)
EXTENDS Fingerprint, TLC

CONSTANTS s1, s2, u1, u2, d1, d2, c1, c2, c3

Interchangeable ==
    Permutations(Senders) \cup Permutations(Users) \cup Permutations(Goroutines)
=============================================================================
