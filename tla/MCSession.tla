----------------------------- MODULE MCSession -----------------------------
(***************************************************************************)
(* Small sessions: a password, alone or with a fingerprint.                *)
(***************************************************************************)
EXTENDS Session, TLC

CONSTANTS pw, fp, g1, g2

OneTx == <<pw>>
TwoTxs == <<fp, pw>>

EveryFactor == {Factors}
AnyFactors == SUBSET Factors \ {{}}
=============================================================================
