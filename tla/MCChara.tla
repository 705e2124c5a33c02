------------------------------ MODULE MCChara ------------------------------
(* Instances of Chara: clients of one user.                                *)
EXTENDS Chara, TLC

CONSTANTS s1, s2, alice, a1, a2, a3, c1, c2, n1, n2, MaxEvents

oneUser == [s \in Senders |-> alice]
enrolling == {"EnrollStart", "EnrollStop"}
everyMethod == {"EnrollStart", "EnrollStop", "Rename", "Delete", "List"}

(* Actions, calls and names are interchangeable.                            *)
Interchangeable ==
    Permutations(Ids \ Known) \cup Permutations(Calls) \cup Permutations(Names)

(* Bound: what comes from outside, together.                               *)
FewEvents == count.calls + count.statuses + count.changes + Losses <= MaxEvents
=============================================================================
