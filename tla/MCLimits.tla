------------------------------ MODULE MCLimits ------------------------------
(* Instances of Limits for TLC: the configuration of one factor.           *)
EXTENDS Limits, TLC

(* A factor locked for a time that grows with the failures, as the         *)
(* password is when dde-session-shell configures it.                       *)
MCDynamic == [a \in AuthTypes |-> [maxTries |-> 1, unlockSecs |-> 0,
                                   dynamic |-> TRUE, table |-> <<1, 2>>]]

(* The zero time.Time is long before every time of the clock.              *)
MCZeroNano == -6

Interchangeable == Permutations(Threads)
=============================================================================
