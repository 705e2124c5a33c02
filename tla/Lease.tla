------------------------------- MODULE Lease -------------------------------
(***************************************************************************)
(* What the factors that share one device promise: the device is lent to   *)
(* one factor at a time, is used by that factor only, and is given back    *)
(* before another factor gets it (service/authenticate/session).           *)
(***************************************************************************)
CONSTANTS Txs, None

VARIABLES
    holder,  \* the factor that has the device
    users    \* the factors that use it

lease == <<holder, users>>

Init == holder = None /\ users = {}

Acquire(x) == holder = None /\ users = {} /\ holder' = x /\ UNCHANGED users
Use(x) == holder = x /\ users = {} /\ users' = {x} /\ UNCHANGED holder
Stop == users' = {} /\ UNCHANGED holder
Return == users = {} /\ holder' = None /\ UNCHANGED users

Next == Stop \/ Return \/ \E x \in Txs : Acquire(x) \/ Use(x)

Spec == Init /\ [][Next]_lease
=============================================================================
