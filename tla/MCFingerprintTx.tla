-------------------------- MODULE MCFingerprintTx --------------------------
(* Instances of FingerprintTx: the factors of sessions of the same user,   *)
(* who may answer for each other, or of different users.                   *)
EXTENDS FingerprintTx, TLC

CONSTANTS tx1, tx2, g1, g2, g3, alice, bob

oneSession == tx1 :> alice
oneUser == tx1 :> alice @@ tx2 :> alice
twoUsers == tx1 :> alice @@ tx2 :> bob

clients == {"Start", "End", "EndAll", "TTYChanged"}
timers == clients \cup {"Timeout"}
locks == clients \cup {"Lock", "Unlock"}

Interchangeable == Permutations(Goroutines)
=============================================================================
