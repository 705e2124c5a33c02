---------------------------- MODULE MCAuthClient ----------------------------
(* An instance of AuthClient: a password, locked by its first failure, a  *)
(* device, and a factor without limits.                                    *)
EXTENDS AuthClient, TLC

CONSTANTS alice, bob, pw, fp, ukey

tries == pw :> 1 @@ fp :> 2

Interchangeable == Permutations(Users)
=============================================================================
