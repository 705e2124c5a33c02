---------------------------- MODULE PamAuthProofs ----------------------------
(***************************************************************************)
(* Proofs about PamAuth: the order of the factors, the types, and four     *)
(* properties, each from an inductive invariant: a success is granted      *)
(* (SuccessInv), no token thread is left (ThreadInv), the factors are      *)
(* verified by priority (OrderInv), the user is told the truth about a     *)
(* failure (PromptInv).                                                    *)
(***************************************************************************)
EXTENDS PamAuth, TLAPS, WellFoundedInduction

(* A set of naturals that is not empty has a least element.                *)
LEMMA NatLeast ==
    ASSUME NEW T \in SUBSET Nat, T # {}
    PROVE  \E x \in T : \A y \in T : x <= y
<1>1. \E x \in T : \A y \in T : ~ (<<y, x>> \in OpToRel(<, Nat))
    BY NatLessThanWellFounded, WFMin
<1>2. \A x, y \in Nat : x < y => <<x, y>> \in OpToRel(<, Nat)
    BY DEF OpToRel
<1>3. \A x, y \in Nat : ~(y < x) => x <= y
    OBVIOUS
<1> QED
    BY <1>1, <1>2, <1>3

(* Induction with a set in the place of a predicate.                       *)
LEMMA NatSetInduction ==
    ASSUME NEW S, 0 \in S, \A n \in Nat : n \in S => n + 1 \in S
    PROVE  Nat \subseteq S
<1> SUFFICES ASSUME Nat \ S # {} PROVE FALSE
    OBVIOUS
<1>1. PICK x \in Nat \ S : \A y \in Nat \ S : x <= y
    BY NatLeast
<1>2. x # 0 /\ x - 1 \in Nat
    OBVIOUS
<1>3. x - 1 \in S
    BY <1>1, <1>2
<1>4. x = (x - 1) + 1
    OBVIOUS
<1> QED
    BY <1>2, <1>3, <1>4

(* The passes of resolve_authctrl_factors (utils.c:156-192) are what their *)
(* recursive definition says.                                              *)
LEMMA PassesDefined ==
    ASSUME NEW s \in Seq(Factors)
    PROVE  passes(s) = [i \in 0..Len(s) |-> IF i = 0 THEN s ELSE Swap(passes(s)[i - 1], i, Largest(passes(s)[i - 1], i))]
<1> DEFINE F(f, n) == f = [i \in 0..n |-> IF i = 0 THEN s ELSE Swap(f[i - 1], i, Largest(f[i - 1], i))]
           S == {n \in Nat : \E f : F(f, n)}
<1>1. 0 \in S
  <2>1. F([i \in 0..0 |-> s], 0)
      OBVIOUS
  <2> QED BY <2>1
<1>2. ASSUME NEW n \in Nat, n \in S PROVE n + 1 \in S
  <2>1. PICK f : F(f, n)
      BY <1>2
  <2> DEFINE g == [i \in 0..(n + 1) |-> IF i = n + 1 THEN Swap(f[n], n + 1, Largest(f[n], n + 1)) ELSE f[i]]
  <2>2. \A i \in 0..n : g[i] = f[i]
      OBVIOUS
  <2>3. \A i \in 0..(n + 1) : g[i] = IF i = 0 THEN s ELSE Swap(g[i - 1], i, Largest(g[i - 1], i))
    <3> SUFFICES ASSUME NEW i \in 0..(n + 1) PROVE g[i] = IF i = 0 THEN s ELSE Swap(g[i - 1], i, Largest(g[i - 1], i))
        OBVIOUS
    <3>1. CASE i = 0
        BY <2>1, <2>2, <3>1
    <3>2. CASE i = n + 1
        BY <2>2, <3>2
    <3>3. CASE i # 0 /\ i # n + 1
      <4>1. i \in 0..n /\ i - 1 \in 0..n
          BY <3>3
      <4> HIDE DEF g
      <4> QED BY <2>1, <2>2, <3>3, <4>1
    <3> QED BY <3>1, <3>2, <3>3
  <2>4. F(g, n + 1)
      BY <2>3
  <2>5. \E h : F(h, n + 1)
      BY <2>4
  <2> HIDE DEF F
  <2> QED BY <2>5
<1> HIDE DEF F
<1>3. Nat \subseteq S
    BY <1>1, <1>2, NatSetInduction
<1>4. Len(s) \in Nat
    OBVIOUS
<1>5. PICK f : F(f, Len(s))
    BY <1>3, <1>4
<1>6. passes(s) = CHOOSE h : F(h, Len(s))
    BY Zenon DEF passes, F
<1>7. F(passes(s), Len(s))
    BY <1>5, <1>6
<1> QED
    BY <1>7 DEF F

(* The inner loop finds a factor of the largest priority left              *)
(* (utils.c:165-180).                                                      *)
LEMMA LargestIsFirst ==
    ASSUME NEW s \in Seq(Factors), NEW i \in 1..Len(s)
    PROVE  /\ Largest(s, i) \in i..Len(s)
           /\ \A k \in i..Len(s) : priority[s[k]] <= priority[s[Largest(s, i)]]
<1> DEFINE p(k) == priority[s[k]]
           Max(m, n) == \A k \in i..(i + n) : p(k) <= p(m)
           S == {n \in Nat : i + n <= Len(s) => \E m \in i..(i + n) : Max(m, n)}
<1>1. \A k \in 1..Len(s) : p(k) \in Nat
    BY PamAssumption
<1> HIDE DEF p
<1>2. 0 \in S
  <2>1. Max(i, 0)
      BY <1>1
  <2> QED
      BY <2>1
<1>3. ASSUME NEW n \in Nat, n \in S PROVE n + 1 \in S
  <2> SUFFICES ASSUME i + (n + 1) <= Len(s) PROVE \E m \in i..(i + (n + 1)) : Max(m, n + 1)
      OBVIOUS
  <2>1. PICK m \in i..(i + n) : Max(m, n)
      BY <1>3
  <2>2. CASE p(i + (n + 1)) <= p(m)
    <3>1. Max(m, n + 1)
        BY <2>1, <2>2
    <3>2. m \in i..(i + (n + 1))
        OBVIOUS
    <3> HIDE DEF Max
    <3> QED
        BY <3>1, <3>2
  <2>3. CASE p(m) <= p(i + (n + 1))
    <3>1. \A k \in i..(i + n) : p(k) <= p(i + (n + 1))
        BY <1>1, <2>1, <2>3
    <3>2. Max(i + (n + 1), n + 1)
        BY <1>1, <3>1
    <3>3. i + (n + 1) \in i..(i + (n + 1))
        OBVIOUS
    <3> HIDE DEF Max
    <3> QED
        BY <3>2, <3>3
  <2>4. p(m) \in Nat /\ p(i + (n + 1)) \in Nat
      BY <1>1
  <2> QED
      BY <2>2, <2>3, <2>4
<1>4. \E m \in i..Len(s) : \A k \in i..Len(s) : p(k) <= p(m)
  <2>1. Len(s) - i \in Nat /\ i + (Len(s) - i) = Len(s)
      OBVIOUS
  <2>2. Nat \subseteq S
      BY <1>2, <1>3, NatSetInduction
  <2>3. Len(s) - i \in S
      BY <2>1, <2>2
  <2> QED
      BY <2>1, <2>3
<1> DEFINE J == {j \in i..Len(s) : \A k \in i..Len(s) : p(k) <= p(j)}
<1>5. PICK j \in J : \A k \in J : j <= k
  <2>1. J # {} /\ J \in SUBSET Nat
      BY <1>4
  <2> HIDE DEF J
  <2> QED
      BY <2>1, NatLeast
<1>6. \A k \in i..(j - 1) : p(k) < p(j)
    BY <1>1, <1>5
<1>7. /\ j \in i..Len(s)
      /\ \A k \in i..Len(s) : priority[s[k]] <= priority[s[j]]
      /\ \A k \in i..(j - 1) : priority[s[k]] < priority[s[j]]
    BY <1>5, <1>6 DEF p
<1> QED
    BY <1>7 DEF Largest

(* What selection sort keeps: the factors are the same, each once, and the *)
(* first n are in place.                                                   *)
Sorted(s, n, p) ==
    /\ p \in Seq(Factors) /\ Len(p) = Len(s)
    /\ \A f \in Factors : \E a \in DOMAIN p : p[a] = f
    /\ \A a, b \in DOMAIN p : p[a] = p[b] => a = b
    /\ \A a, b \in DOMAIN p : a <= n /\ a < b => priority[p[b]] <= priority[p[a]]

(* One more pass puts one more factor in its place.                        *)
LEMMA SwapSorted ==
    ASSUME NEW s \in Seq(Factors), NEW n \in Nat, n + 1 <= Len(s),
           NEW p, Sorted(s, n, p)
    PROVE  Sorted(s, n + 1, Swap(p, n + 1, Largest(p, n + 1)))
<1> DEFINE j == Largest(p, n + 1)
           q == Swap(p, n + 1, j)
<1>1. /\ p \in Seq(Factors) /\ Len(p) = Len(s) /\ n + 1 \in 1..Len(p)
      /\ \A a \in DOMAIN p : p[a] \in Factors /\ priority[p[a]] \in Nat
    BY PamAssumption DEF Sorted
<1>2. /\ j \in (n + 1)..Len(p)
      /\ \A k \in (n + 1)..Len(p) : priority[p[k]] <= priority[p[j]]
    BY <1>1, LargestIsFirst
<1> HIDE DEF j
<1>3. /\ q \in Seq(Factors) /\ Len(q) = Len(s) /\ DOMAIN q = DOMAIN p
      /\ q[n + 1] = p[j] /\ q[j] = p[n + 1]
      /\ \A a \in DOMAIN p : a # n + 1 /\ a # j => q[a] = p[a]
    BY <1>1, <1>2 DEF Swap
<1> HIDE DEF q
<1>4. ASSUME NEW f \in Factors PROVE \E a \in DOMAIN q : q[a] = f
  <2>1. PICK a \in DOMAIN p : p[a] = f
      BY DEF Sorted
  <2> QED
      BY <1>1, <1>2, <1>3, <2>1
<1>5. ASSUME NEW a \in DOMAIN q, NEW b \in DOMAIN q, q[a] = q[b] PROVE a = b
  <2> DEFINE at(c) == IF c = n + 1 THEN j ELSE IF c = j THEN n + 1 ELSE c
  <2>1. \A c \in DOMAIN q : at(c) \in DOMAIN p /\ q[c] = p[at(c)]
      BY <1>1, <1>2, <1>3
  <2>2. at(a) = at(b) => a = b
      OBVIOUS
  <2> HIDE DEF at
  <2> QED
      BY <1>5, <2>1, <2>2 DEF Sorted
<1>6. ASSUME NEW a \in DOMAIN q, NEW b \in DOMAIN q, a <= n + 1, a < b
      PROVE  priority[q[b]] <= priority[q[a]]
  <2>2. CASE a = n + 1
    <3>1. \E c \in (n + 1)..Len(p) : q[b] = p[c]
        BY <1>1, <1>2, <1>3, <1>6, <2>2
    <3> QED
        BY <1>2, <1>3, <2>2, <3>1
  <2>3. CASE a <= n
    <3>1. q[a] = p[a]
        BY <1>1, <1>2, <1>3, <2>3
    <3>2. \E c \in DOMAIN p : a < c /\ q[b] = p[c]
        BY <1>1, <1>2, <1>3, <1>6, <2>3
    <3> QED
        BY <1>1, <1>3, <2>3, <3>1, <3>2 DEF Sorted
  <2> QED
      BY <1>1, <1>3, <1>6, <2>2, <2>3
<1> QED
    BY <1>3, <1>4, <1>5, <1>6 DEF Sorted, q, j

(* resolve_authctrl_factors returns every factor once, by descending       *)
(* priority, in whatever order FactorsInfo lists them (utils.c:156-192).   *)
THEOREM OrderSorted ==
    ASSUME NEW s \in Listings
    PROVE  Sorted(s, Len(s), resolve_authctrl_factors(s))
<1>1. /\ s \in Seq(Factors) /\ Len(s) \in Nat
      /\ \A f \in Factors : \E a \in DOMAIN s : s[a] = f
      /\ \A a, b \in DOMAIN s : s[a] = s[b] => a = b
    BY PamAssumption
<1>2. s # <<>> /\ Len(s) - 1 \in Nat
    BY <1>1, PamAssumption
<1> DEFINE S == {n \in Nat : n <= Len(s) - 1 => Sorted(s, n, passes(s)[n])}
<1>3. /\ passes(s)[0] = s
      /\ \A n \in Nat : n + 1 <= Len(s) =>
            passes(s)[n + 1] = Swap(passes(s)[n], n + 1, Largest(passes(s)[n], n + 1))
  <2>1. \A i \in 0..Len(s) : passes(s)[i] = IF i = 0 THEN s
            ELSE Swap(passes(s)[i - 1], i, Largest(passes(s)[i - 1], i))
      BY <1>1, PassesDefined
  <2>2. \A n \in Nat : (n + 1) - 1 = n
      OBVIOUS
  <2> QED
      BY <1>1, <2>1, <2>2
<1>4. 0 \in S
    BY <1>1, <1>3 DEF Sorted
<1>5. ASSUME NEW n \in Nat, n \in S PROVE n + 1 \in S
    BY <1>1, <1>3, <1>5, SwapSorted
<1>6. Sorted(s, Len(s) - 1, resolve_authctrl_factors(s))
  <2>1. Nat \subseteq S
      BY <1>4, <1>5, NatSetInduction
  <2>2. Sorted(s, Len(s) - 1, passes(s)[Len(s) - 1])
      BY <1>2, <2>1
  <2> QED
      BY <1>2, <2>2 DEF resolve_authctrl_factors
<1> QED
    BY <1>1, <1>6 DEF Sorted

(* The order is a sequence of factors.                                     *)
LEMMA OrderTyped ==
    ASSUME NEW s \in Listings
    PROVE  resolve_authctrl_factors(s) \in Seq(Factors)
    BY OrderSorted DEF Sorted
-----------------------------------------------------------------------------
(* The token threads.                                                      *)
Tokens == [at : Stages, answer : Answers \cup {"none"}]

(* A call counts at most one fault, within the bound.                      *)
LEMMA FaultsTyped == TypeOK /\ (Works \/ Fails \/ UNCHANGED faults) => faults' \in 0..MaxFaults
    BY PamAssumption DEF TypeOK, Works, Fails

(* The empty sequence has every type.                                      *)
LEMMA EmptyTyped == \A S : <<>> \in Seq(S)
    OBVIOUS

(* The user is told nothing at the top of the loop (pam.c:485-487).        *)
LEMMA NothingTyped == TypeOK => [ud EXCEPT !.shown = Nothing] \in UserData
<1>1. Nothing \in Shown
    BY DEF Nothing, Shown
<1> QED
    BY <1>1 DEF TypeOK, UserData

(* Replacing an element of a sequence.                                     *)
LEMMA ExceptTyped ==
    ASSUME NEW S, NEW s \in Seq(S), NEW i \in DOMAIN s, NEW v \in S
    PROVE  [s EXCEPT ![i] = v] \in Seq(S)
    OBVIOUS

(* A token thread goes to another stage of run_request_pw.                 *)
LEMMA MoveTyped ==
    ASSUME TypeOK, NEW i \in DOMAIN threads, NEW x \in Stages
    PROVE  [threads EXCEPT ![i].at = x] \in Seq(Tokens)
<1>0. threads \in Seq(Tokens)
    BY DEF TypeOK, Tokens
<1>1. threads \in Seq(Tokens) /\ threads[i] \in Tokens
    BY <1>0
<1>2. [threads[i] EXCEPT !.at = x] \in Tokens
    BY <1>1 DEF Tokens
<1> QED
    BY <1>1, <1>2, ExceptTyped

(* dbus_method_start.                                                      *)
LEMMA StartTyped ==
    ASSUME TypeOK, NEW t \in Factors \cup {All}, NEW d \in Session,
           NEW box \in Seq(Status \cup Reply), dbus_method_start(t, d, box)
    PROVE  /\ res' \in Results /\ faults' \in 0..MaxFaults
           /\ daemon' \in Session /\ inbox' \in Seq(Status \cup Reply)
<1>1. Started(d, t) \in Session
    BY DEF Started, Session
<1>2. Prompted(d, t, box) \in Seq(Status \cup Reply)
    BY DEF Prompted, Status
<1> QED
    BY <1>1, <1>2, FaultsTyped DEF dbus_method_start, Results, Running

(* mfa_start_verify, which takes its factor from the order.                *)
LEMMA mfa_start_verifyTyped ==
    ASSUME TypeOK, NEW i \in Nat, NEW d \in Session,
           NEW box \in Seq(Status \cup Reply), mfa_start_verify(i, d, box)
    PROVE  /\ ud' \in UserData /\ res' \in Results /\ faults' \in 0..MaxFaults
           /\ daemon' \in Session /\ inbox' \in Seq(Status \cup Reply)
<1>1. CASE i \in DOMAIN ud.order
  <2>1. ud.order[i] \in Factors
      BY <1>1 DEF TypeOK, UserData
  <2>2. ud' \in UserData
      BY <1>1, <2>1 DEF TypeOK, UserData, mfa_start_verify
  <2> QED
      BY <1>1, <2>1, <2>2, StartTyped DEF mfa_start_verify
<1>2. CASE i \notin DOMAIN ud.order
    BY <1>2 DEF TypeOK, Results, mfa_start_verify
<1> QED
    BY <1>1, <1>2

(* A Prompt starts a token thread, or the result is ABORT.                 *)
LEMMA StartThreadTyped ==
    ASSUME TypeOK, StartThread
    PROVE  /\ ud' \in UserData /\ res' \in Results /\ faults' \in 0..MaxFaults
           /\ threads' \in Seq(Tokens)
<1> DEFINE new == [at |-> "conv", answer |-> "none"]
<1>1. new \in Tokens
    BY DEF Tokens, Stages
<1>2. threads \in Seq(Tokens)
    BY DEF TypeOK, Tokens
<1> HIDE DEF new
<1>3. Append(threads, new) \in Seq(Tokens)
    BY <1>1, <1>2
<1>4. threads' \in Seq(Tokens)
    BY <1>2, <1>3 DEF StartThread, new
<1>5. res' \in Results /\ UNCHANGED ud
    BY DEF StartThread, Results
<1> QED
    BY <1>4, <1>5, FaultsTyped DEF TypeOK, StartThread

(* The branches of the handlers that only set res.                         *)
LEMMA OnlyTyped ==
    ASSUME TypeOK, NEW r \in Results, Only(r)
    PROVE  /\ ud' \in UserData /\ res' \in Results /\ faults' \in 0..MaxFaults
           /\ threads' \in Seq(Tokens)
    BY DEF TypeOK, Only, Tokens

(* What the user may be told.                                              *)
Texts == {"none", "locked", "left", "one left", "failed", "try again", "use the password"}

(* A text about a factor.                                                  *)
LEMMA ToldTyped ==
    ASSUME TypeOK, NEW t \in Factors \cup {All}, NEW x \in Texts
    PROVE  Told(x, t) \in UserData
<1> DEFINE types == Factors \cup {All}
<1>1. [text |-> x, type |-> t, left |-> 0] \in Shown
  <2>1. Shown = [text : Texts, type : types, left : Int]
      BY DEF Shown, Texts
  <2>2. t \in types
      OBVIOUS
  <2> HIDE DEF types
  <2> QED
      BY <2>1, <2>2
<1> QED
    BY <1>1 DEF Told, TypeOK, UserData

(* The text of a status Verify.                                            *)
LEMMA VerifyTyped ==
    ASSUME TypeOK, NEW m \in Status, ud' = Told(resolve_verify_msg(m.code), m.type)
    PROVE  ud' \in UserData
<1>1. m.type \in Factors \cup {All}
    BY DEF Status
<1>2. ud.shown \in Shown
    BY DEF TypeOK, UserData
<1>3. resolve_verify_msg(m.code) \in Texts
    BY <1>2 DEF resolve_verify_msg, Shown, Texts
<1> QED
    BY <1>1, <1>3, ToldTyped

(* get_limits_info takes the limits of the daemon, or keeps what it had.   *)
LEMMA LimitsTyped ==
    ASSUME TypeOK, NEW ok \in BOOLEAN
    PROVE  get_limits_info(ud, ok) \in UserData
<1>1. daemon.limits \in [Factors -> Limit]
    BY DEF TypeOK, Session
<1> QED
    BY <1>1 DEF TypeOK, UserData, get_limits_info

(* The daemon ends the session.                                            *)
LEMMA EndedTyped == TypeOK => Ended(daemon) \in Session
    BY DEF TypeOK, Session, Ended

(* The daemon gives a token to the factors that verify.                    *)
LEMMA SetTokenTyped ==
    ASSUME TypeOK, NEW a \in Answers \cup {"none"}
    PROVE  SetToken(daemon, a) \in Session
<1> DEFINE given == [f \in Factors |->
        IF f \in Keyboard \cap daemon.verifying /\ ud.cur \in {All, f}
        THEN aes_cbc_encrypt(daemon, a) ELSE daemon.given[f]]
<1>1. given \in [Factors -> Answers \cup {"none"}]
    BY DEF TypeOK, Session, aes_cbc_encrypt, Answers
<1>2. SetToken(daemon, a) = [daemon EXCEPT !.given = given]
    BY DEF SetToken
<1> HIDE DEF given
<1>3. daemon \in Session
    BY DEF TypeOK
<1>4. [daemon EXCEPT !.given = given] \in Session
    BY <1>1, <1>3 DEF Session
<1> QED
    BY <1>2, <1>4

(* The answer to EncryptKey or GetResult.                                  *)
LEMMA ReplyTyped ==
    ASSUME TypeOK, NEW call \in {"EncryptKey", "GetResult"}, NEW codes, ReplyTo(call, codes),
           \A c \in codes : [type |-> call, code |-> c] \in Reply
    PROVE  TypeOK'
<1>1. PICK c \in codes :
          /\ Send([type |-> call, code |-> c])
          /\ IF c \in {"badkey", "error"} THEN Fails ELSE Works
          /\ daemon' = [daemon EXCEPT !.asked = @ \ {call},
                        !.granted = IF c = "pass" THEN @ \cup {"other"} ELSE @]
    BY DEF ReplyTo
<1>2. inbox' \in Seq(Status \cup Reply)
    BY <1>1 DEF TypeOK, Send
<1>3. daemon' \in Session
    BY <1>1 DEF TypeOK, Session
<1>4. faults' \in 0..MaxFaults
    BY <1>1, FaultsTyped
<1> QED
    BY <1>2, <1>3, <1>4 DEF TypeOK, ReplyTo

(* The text of a failure comes from the limits of a factor.                *)
LEMMA FailureTextTyped ==
    ASSUME NEW u \in UserData
    PROVE  FailureText(u) \in Shown
<1>1. FailType(u) \in Factors
    BY PamAssumption DEF FailType, UserData
<1>2. u.limits[FailType(u)] \in Limit
    BY <1>1 DEF UserData
<1> HIDE DEF FailType
<1>3. u.limits[FailType(u)].max - u.limits[FailType(u)].fails \in Int
    BY <1>2 DEF Limit
<1> QED
    BY <1>1, <1>3 DEF FailureText, Shown

(* The status handler of a session with one factor.                        *)
LEMMA sfa_signal_dealTyped ==
    ASSUME TypeOK, NEW m \in Status, sfa_signal_deal(m)
    PROVE  /\ ud' \in UserData /\ res' \in Results /\ faults' \in 0..MaxFaults
           /\ threads' \in Seq(Tokens)
<1>1. CASE \E r \in {"SUCCESS", Running} : Only(r)
    BY <1>1, OnlyTyped DEF Results
<1>2. CASE /\ m.type # All /\ ud' = [ud EXCEPT !.failed = Append(@, m.type)]
           /\ res' = Running /\ UNCHANGED <<threads, faults>>
  <2>1. m.type \in Factors
      BY <1>2 DEF Status
  <2>2. Append(ud.failed, m.type) \in Seq(Factors)
      BY <2>1 DEF TypeOK, UserData
  <2>3. ud' \in UserData
      BY <1>2, <2>2 DEF TypeOK, UserData
  <2> QED
      BY <1>2, <2>3 DEF TypeOK, Results, Tokens
<1>3. ASSUME NEW ok \in BOOLEAN, dbus_method_get_limits(ok), res' = "AUTH_ERR", UNCHANGED threads,
             ud' = [get_limits_info(ud, ok) EXCEPT !.shown = FailureText(get_limits_info(ud, ok))]
      PROVE  /\ ud' \in UserData /\ res' \in Results /\ faults' \in 0..MaxFaults
             /\ threads' \in Seq(Tokens)
  <2>1. get_limits_info(ud, ok) \in UserData
      BY LimitsTyped
  <2>2. ud' \in UserData
      BY <1>3, <2>1, FailureTextTyped DEF UserData
  <2> QED
      BY <1>3, <2>2, FaultsTyped DEF TypeOK, Results, Tokens, dbus_method_get_limits
<1>4. CASE ud' = Told(resolve_verify_msg(m.code), m.type) /\ res' = Running /\ UNCHANGED <<threads, faults>>
    BY <1>4, VerifyTyped DEF TypeOK, Results, Tokens
<1>5. CASE StartThread
    BY <1>5, StartThreadTyped
<1> QED
    BY <1>1, <1>2, <1>3, <1>4, <1>5 DEF sfa_signal_deal

(* The status handler of a session with several.                           *)
LEMMA mfa_signal_dealTyped ==
    ASSUME TypeOK, NEW m \in Status, mfa_signal_deal(m)
    PROVE  /\ ud' \in UserData /\ res' \in Results /\ faults' \in 0..MaxFaults
           /\ threads' \in Seq(Tokens)
<1>1. CASE \E r \in {"SUCCESS", Running} : Only(r)
    BY <1>1, OnlyTyped DEF Results
<1>2. CASE ud' = Told("failed", m.type) /\ res' = "AUTH_ERR" /\ UNCHANGED <<threads, faults>>
    BY <1>2, ToldTyped DEF TypeOK, Results, Tokens, Status, Texts
<1>3. CASE ud' = Told(resolve_verify_msg(m.code), m.type) /\ res' = Running /\ UNCHANGED <<threads, faults>>
    BY <1>3, VerifyTyped DEF TypeOK, Results, Tokens
<1>4. CASE StartThread
    BY <1>4, StartThreadTyped
<1> QED
    BY <1>1, <1>2, <1>3, <1>4 DEF mfa_signal_deal

(* The next factor of the order is started.                                *)
LEMMA NextFactorTyped ==
    ASSUME TypeOK, NEW m \in Status, NextFactor(m), Tail(inbox) \in Seq(Status \cup Reply)
    PROVE  /\ ud' \in UserData /\ res' \in Results /\ faults' \in 0..MaxFaults
           /\ daemon' \in Session /\ inbox' \in Seq(Status \cup Reply)
<1>1. PICK i \in DOMAIN ud.order :
          mfa_start_verify(i + 1, [daemon EXCEPT !.verifying = @ \ {ud.cur}], Tail(inbox))
    BY DEF NextFactor
<1>2. [daemon EXCEPT !.verifying = @ \ {ud.cur}] \in Session
    BY DEF TypeOK, Session
<1>3. i + 1 \in Nat
    BY DEF TypeOK, UserData
<1> QED
    BY <1>1, <1>2, <1>3, mfa_start_verifyTyped

(* Every step keeps the types.                                             *)
LEMMA TypeStep ==
    ASSUME TypeOK, [Next]_vars
    PROVE  TypeOK'
<1>s. CASE UNCHANGED vars
    BY <1>s DEF TypeOK, vars
<1>1. CASE Enter
  <2>1. main' \in Places
      BY <1>1 DEF TypeOK, Enter, Places
  <2>2. out' \in [value : Results, data : BOOLEAN]
      BY <1>1 DEF TypeOK, Enter, Results
  <2> QED
      BY <1>1, <2>1, <2>2 DEF TypeOK, Enter, Tokens
<1>2. CASE Connect
  <2>1. main' \in Places
      BY <1>2 DEF TypeOK, Connect, Places
  <2>2. ud' \in UserData
      BY <1>2 DEF TypeOK, Connect, UserData
  <2>3. faults' \in 0..MaxFaults
      BY <1>2, FaultsTyped DEF Connect
  <2> QED
      BY <1>2, <2>1, <2>2, <2>3 DEF TypeOK, Connect, Tokens
<1>3. CASE PreOneKeyLogin
  <2>1. main' \in Places
      BY <1>3 DEF TypeOK, PreOneKeyLogin, Places
  <2>2. ud' \in UserData
      BY <1>3 DEF TypeOK, PreOneKeyLogin, UserData
  <2>3. faults' \in 0..MaxFaults
      BY <1>3, FaultsTyped DEF PreOneKeyLogin
  <2> QED
      BY <1>3, <2>1, <2>2, <2>3 DEF TypeOK, PreOneKeyLogin, Tokens
<1>4. CASE WarnExpiry
  <2>1. main' \in Places
      BY <1>4 DEF TypeOK, WarnExpiry, Places
  <2>2. faults' \in 0..MaxFaults
      BY <1>4, FaultsTyped DEF WarnExpiry
  <2> QED
      BY <1>4, <2>1, <2>2 DEF TypeOK, WarnExpiry, Tokens
<1>5. CASE Authenticate
  <2>1. main' \in Places
      BY <1>5 DEF TypeOK, Authenticate, Break, Places
  <2>2. ud' \in UserData
      BY <1>5 DEF TypeOK, Authenticate, Break, UserData
  <2>3. faults' \in 0..MaxFaults
      BY <1>5, FaultsTyped DEF Authenticate, Break
  <2>4. res' \in Results
      BY <1>5 DEF TypeOK, Authenticate, Break, Results
  <2>5. daemon' \in Session
    <3>1. ASSUME NEW k \in Kinds PROVE [daemon EXCEPT !.state = "live", !.isMFA = k] \in Session
      <4>1. k \in BOOLEAN /\ daemon \in Session
          BY PamAssumption DEF TypeOK
      <4> QED
          BY <4>1 DEF Session
    <3>2. daemon' = daemon \/ \E k \in Kinds : daemon' = [daemon EXCEPT !.state = "live", !.isMFA = k]
        BY <1>5 DEF Authenticate
    <3> QED
        BY <3>1, <3>2 DEF TypeOK
  <2> QED
      BY <1>5, <2>1, <2>2, <2>3, <2>4, <2>5 DEF TypeOK, Authenticate, Break, Tokens
<1>6. CASE get_authctl_property
  <2>1. main' \in Places
      BY <1>6 DEF TypeOK, get_authctl_property, Places
  <2>2. ud' \in UserData
    <3>1. ASSUME NEW s \in Listings
          PROVE  [ud EXCEPT !.isMFA = daemon.isMFA, !.order = resolve_authctrl_factors(s)] \in UserData
      <4>1. resolve_authctrl_factors(s) \in Seq(Factors) /\ daemon.isMFA \in BOOLEAN /\ ud \in UserData
          BY OrderTyped DEF TypeOK, Session
      <4> QED
          BY <4>1 DEF UserData
    <3>2. \/ ud' = ud
          \/ \E s \in Listings :
                ud' = [ud EXCEPT !.isMFA = daemon.isMFA, !.order = resolve_authctrl_factors(s)]
        BY <1>6 DEF get_authctl_property
    <3> QED
        BY <3>1, <3>2 DEF TypeOK
  <2>3. faults' \in 0..MaxFaults
      BY <1>6, FaultsTyped DEF get_authctl_property
  <2>4. out' \in [value : Results, data : BOOLEAN]
      BY <1>6 DEF TypeOK, get_authctl_property, Results
  <2> QED
      BY <1>6, <2>1, <2>2, <2>3, <2>4 DEF TypeOK, get_authctl_property, Tokens
<1>7. CASE CheckLimits
  <2>1. main' \in Places
      BY <1>7 DEF TypeOK, CheckLimits, Break, dbus_method_get_limits, get_limit_prompt, get_limits_info, Places
  <2>2. ud' \in UserData
      BY <1>7, LimitsTyped DEF TypeOK, CheckLimits, Break, dbus_method_get_limits, get_limit_prompt, get_limits_info
  <2>3. faults' \in 0..MaxFaults
      BY <1>7, FaultsTyped DEF CheckLimits, Break, dbus_method_get_limits, get_limit_prompt, get_limits_info
  <2>4. res' \in Results
      BY <1>7 DEF TypeOK, CheckLimits, Break, dbus_method_get_limits, get_limit_prompt, get_limits_info, Results
  <2> QED
      BY <1>7, <2>1, <2>2, <2>3, <2>4 DEF TypeOK, CheckLimits, Break, dbus_method_get_limits, get_limit_prompt, get_limits_info, Tokens
<1>8. CASE EncryptKey
  <2>1. main' \in Places
      BY <1>8 DEF TypeOK, EncryptKey, Places
  <2>2. daemon' \in Session
      BY <1>8 DEF TypeOK, EncryptKey, Session
  <2>3. faults' \in 0..MaxFaults
      BY <1>8, FaultsTyped DEF EncryptKey
  <2> QED
      BY <1>8, <2>1, <2>2, <2>3 DEF TypeOK, EncryptKey, Tokens
<1>9. CASE listen_dbus_signal
  <2>1. main' \in Places
      BY <1>9 DEF TypeOK, listen_dbus_signal, Break, Places
  <2>2. res' \in Results
      BY <1>9 DEF TypeOK, listen_dbus_signal, Break, Results
  <2>3. faults' \in 0..MaxFaults
      BY <1>9, FaultsTyped DEF listen_dbus_signal, Break
  <2> QED
      BY <1>9, <2>1, <2>2, <2>3 DEF TypeOK, listen_dbus_signal, Break, Tokens
<1>10. CASE Start
  <2>1. CASE ud.isMFA
    <3>1. mfa_start_verify(1, daemon, inbox)
        BY <1>10, <2>1 DEF Start
    <3> QED
        BY <1>10, <3>1, mfa_start_verifyTyped DEF TypeOK, Start, Places
  <2>2. CASE ~ud.isMFA
    <3>1. ud' \in UserData
        BY <1>10, <2>2 DEF TypeOK, UserData, Start, sfa_start_verify
    <3> QED
        BY <1>10, <2>2, <3>1, StartTyped DEF TypeOK, Start, sfa_start_verify, Places
  <2> QED
      BY <2>1, <2>2
<1>11. CASE LoopTop
  <2>1. main' \in Places
      BY <1>11 DEF TypeOK, LoopTop, Places
  <2>2. ud' \in UserData
      BY <1>11, EmptyTyped, NothingTyped DEF TypeOK, LoopTop, UserData
  <2> QED
      BY <1>11, <2>1, <2>2 DEF TypeOK, LoopTop, Tokens
<1>12. CASE Wait
  <2>1. main' \in Places
      BY <1>12 DEF TypeOK, Wait, Places
  <2> QED
      BY <1>12, <2>1 DEF TypeOK, Wait, Tokens
<1>13. CASE BusFails
  <2>1. main' \in Places
      BY <1>13 DEF TypeOK, BusFails, Break, Places
  <2>2. res' \in Results
      BY <1>13 DEF TypeOK, BusFails, Break, Results
  <2>3. faults' \in 0..MaxFaults
      BY <1>13, FaultsTyped DEF BusFails, Break
  <2> QED
      BY <1>13, <2>1, <2>2, <2>3 DEF TypeOK, BusFails, Break, Tokens
<1>14. CASE call_encryptKey_cb
  <2>1. main' \in Places
      BY <1>14 DEF TypeOK, call_encryptKey_cb, encrypt_symmtric_key, Places
  <2>2. ud' \in UserData
      BY <1>14 DEF TypeOK, call_encryptKey_cb, encrypt_symmtric_key, UserData, Reply
  <2>3. inbox' \in Seq(Status \cup Reply)
      BY <1>14, EmptyTyped DEF TypeOK, call_encryptKey_cb, encrypt_symmtric_key, Handling
  <2> QED
      BY <1>14, <2>1, <2>2, <2>3 DEF TypeOK, call_encryptKey_cb, encrypt_symmtric_key, Tokens
<1>15. CASE SetSymmetricKey
  <2>1. main' \in Places
      BY <1>15 DEF TypeOK, SetSymmetricKey, Places
  <2>2. daemon' \in Session
      BY <1>15 DEF TypeOK, SetSymmetricKey, Session
  <2>3. faults' \in 0..MaxFaults
      BY <1>15, FaultsTyped DEF SetSymmetricKey
  <2> QED
      BY <1>15, <2>1, <2>2, <2>3 DEF TypeOK, SetSymmetricKey, Tokens
<1>16. CASE call_getResult_cb
  <2>1. main' \in Places
      BY <1>16 DEF TypeOK, call_getResult_cb, Places
  <2>2. ud' \in UserData
    <3>1. Head(inbox) \in Status \cup Reply /\ Head(inbox).type = "GetResult"
        BY <1>16 DEF TypeOK, call_getResult_cb, Handling
    <3>2. Head(inbox).code \in {"pass", "fail", "unavailable", "error"}
        BY <3>1, PamAssumption DEF Status, Reply
    <3> QED
        BY <1>16, <3>2 DEF TypeOK, call_getResult_cb, UserData
  <2>3. inbox' \in Seq(Status \cup Reply)
      BY <1>16, EmptyTyped DEF TypeOK, call_getResult_cb, Handling
  <2> QED
      BY <1>16, <2>1, <2>2, <2>3 DEF TypeOK, call_getResult_cb, Tokens
<1>17. CASE bus_signal_cb
  <2> DEFINE m == Head(inbox)
  <2>1. /\ m \in Status /\ Tail(inbox) \in Seq(Status \cup Reply)
    <3>1. m \in Status \cup Reply /\ Tail(inbox) \in Seq(Status \cup Reply)
        BY <1>17 DEF TypeOK, bus_signal_cb, Handling
    <3>2. m.type \in Factors \cup {All}
        BY <1>17 DEF bus_signal_cb, Handling
    <3> QED
        BY <3>1, <3>2, PamAssumption DEF Reply
  <2> HIDE DEF m
  <2>2. CASE /\ sfa_signal_deal(m) \/ mfa_signal_deal(m)
             /\ inbox' = Tail(inbox) /\ UNCHANGED daemon
      BY <1>17, <2>1, <2>2, sfa_signal_dealTyped, mfa_signal_dealTyped
         DEF TypeOK, bus_signal_cb, Tokens, Places
  <2>3. CASE NextFactor(m)
    <3>1. UNCHANGED threads
        BY <2>3 DEF NextFactor
    <3> QED
        BY <1>17, <2>1, <2>3, <3>1, NextFactorTyped DEF TypeOK, bus_signal_cb, Places
  <2> QED
      BY <1>17, <2>2, <2>3 DEF bus_signal_cb, m
<1>18. CASE Finish
  <2>1. main' \in Places
      BY <1>18 DEF TypeOK, Finish, Places
  <2>2. out' \in [value : Results, data : BOOLEAN]
      BY <1>18 DEF TypeOK, Finish, Results
  <2> QED
      BY <1>18, <2>1, <2>2 DEF TypeOK, Finish, Tokens
<1>19. CASE CloseBus
  <2>1. main' \in Places
      BY <1>19 DEF TypeOK, CloseBus, EndSession, Places
  <2>2. ud' \in UserData
      BY <1>19 DEF TypeOK, CloseBus, EndSession, UserData
  <2>3. daemon' \in Session
      BY <1>19, EndedTyped DEF TypeOK, CloseBus, EndSession
  <2>4. inbox' \in Seq(Status \cup Reply)
      BY <1>19, EmptyTyped DEF TypeOK, CloseBus, EndSession
  <2>5. faults' \in 0..MaxFaults
      BY <1>19, FaultsTyped DEF CloseBus, EndSession
  <2> QED
      BY <1>19, <2>1, <2>2, <2>3, <2>4, <2>5 DEF TypeOK, CloseBus, EndSession, Tokens
<1>20. CASE Join
  <2>1. main' \in Places
      BY <1>20 DEF TypeOK, Join, Places
  <2>2. ud' \in UserData
      BY <1>20, EmptyTyped DEF TypeOK, Join, UserData
  <2> QED
      BY <1>20, <2>1, <2>2 DEF TypeOK, Join, Tokens
<1>21. CASE Return
  <2>1. main' \in Places
      BY <1>21 DEF TypeOK, Return, Places
  <2>2. out' \in [value : Results, data : BOOLEAN]
      BY <1>21 DEF TypeOK, Return, Results
  <2> QED
      BY <1>21, <2>1, <2>2 DEF TypeOK, Return, Tokens
<1>22. CASE Cancelled
  <2>1. threads' \in Seq(Tokens)
    <3>1. Len(threads) \in DOMAIN threads
        BY <1>22 DEF TypeOK, Cancelled
    <3>2. "exited" \in Stages
        BY DEF Stages
    <3> QED
        BY <1>22, <3>1, <3>2, MoveTyped DEF Cancelled
  <2> QED
      BY <1>22, <2>1 DEF TypeOK, Cancelled, Tokens
<1>23. CASE pam_clean_func
  <2>1. main' \in Places
      BY <1>23 DEF TypeOK, pam_clean_func, EndSession, Places
  <2>2. ud' \in UserData
      BY <1>23 DEF TypeOK, pam_clean_func, EndSession, UserData
  <2>3. daemon' \in Session
      BY <1>23, EndedTyped DEF TypeOK, pam_clean_func, EndSession
  <2>4. inbox' \in Seq(Status \cup Reply)
      BY <1>23, EmptyTyped DEF TypeOK, pam_clean_func, EndSession
  <2>5. faults' \in 0..MaxFaults
      BY <1>23, FaultsTyped DEF pam_clean_func, EndSession
  <2> QED
      BY <1>23, <2>1, <2>2, <2>3, <2>4, <2>5 DEF TypeOK, pam_clean_func, EndSession, Tokens
<1>24. ASSUME NEW i \in DOMAIN threads, Thread(i) PROVE TypeOK'
  <2>0. threads \in Seq(Tokens)
      BY DEF TypeOK, Tokens
  <2>9. threads[i] \in Tokens
      BY <2>0
  <2>1. CASE Answer(i)
    <3>1. threads' \in Seq(Tokens)
      <4>1. ASSUME NEW a \in Answers, NEW named \in BOOLEAN
            PROVE  [threads EXCEPT ![i] = [at |-> split_data(named), answer |-> a]] \in Seq(Tokens)
        <5>1. [at |-> split_data(named), answer |-> a] \in Tokens
            BY DEF Tokens, Stages, split_data
        <5> QED
            BY <2>0, <5>1, ExceptTyped
      <4>2. [threads EXCEPT ![i].at = "exited"] \in Seq(Tokens)
          BY MoveTyped DEF Stages
      <4> QED
          BY <2>1, <4>1, <4>2 DEF Answer, To
    <3>2. res' \in Results
        BY <2>1 DEF TypeOK, Answer, NoAnswer, split_data, Results
    <3>3. faults' \in 0..MaxFaults
        BY <2>1, FaultsTyped DEF Answer, NoAnswer, split_data
    <3> QED
        BY <2>1, <3>1, <3>2, <3>3 DEF TypeOK, Answer, NoAnswer, split_data, Tokens
  <2>2. CASE getResult(i)
    <3>1. threads' \in Seq(Tokens)
        BY <2>2, MoveTyped DEF TypeOK, getResult, Stages, To, Tokens
    <3>2. ud' \in UserData
        BY <2>2 DEF TypeOK, getResult, UserData
    <3>3. daemon' \in Session
      <4>1. daemon' = daemon \/ daemon' = [daemon EXCEPT !.asked = @ \cup {"GetResult"}]
          BY <2>2 DEF getResult
      <4>2. daemon \in Session
          BY DEF TypeOK
      <4>3. [daemon EXCEPT !.asked = @ \cup {"GetResult"}] \in Session
          BY <4>2 DEF Session
      <4> QED
          BY <4>1, <4>2, <4>3
    <3>4. faults' \in 0..MaxFaults
        BY <2>2, FaultsTyped DEF getResult
    <3> QED
        BY <2>2, <3>1, <3>2, <3>3, <3>4 DEF TypeOK, getResult, To, Tokens
  <2>3. CASE MarkWaiting(i)
    <3>1. threads' \in Seq(Tokens)
        BY <2>3, MoveTyped DEF TypeOK, MarkWaiting, Stages, To, Tokens
    <3>2. ud' \in UserData
        BY <2>3 DEF TypeOK, MarkWaiting, UserData
    <3> QED
        BY <2>3, <3>1, <3>2 DEF TypeOK, MarkWaiting, To, Tokens
  <2>4. CASE Spin(i)
    <3>1. threads' \in Seq(Tokens)
        BY <2>4, MoveTyped DEF TypeOK, Spin, Stages, To, Tokens
    <3> QED
        BY <2>4, <3>1 DEF TypeOK, Spin, To, Tokens
  <2>5. CASE CheckResult(i)
    <3>1. threads' \in Seq(Tokens)
        BY <2>5, MoveTyped DEF TypeOK, CheckResult, Stages, To, Tokens
    <3>2. res' \in Results
        BY <2>5 DEF TypeOK, CheckResult, Results
    <3> QED
        BY <2>5, <3>1, <3>2 DEF TypeOK, CheckResult, To, Tokens
  <2>6. CASE setToken(i)
    <3>1. main' \in Places
        BY <2>6 DEF TypeOK, setToken, Places
    <3>2. threads' \in Seq(Tokens)
        BY <2>6, MoveTyped DEF TypeOK, setToken, Stages, To, Tokens
    <3>3. res' \in Results
        BY <2>6 DEF TypeOK, setToken, Results
    <3>4. daemon' \in Session
      <4>1. threads[i].answer \in Answers \cup {"none"}
          BY <2>9 DEF Tokens
      <4>2. daemon' = daemon \/ daemon' = SetToken(daemon, threads[i].answer)
          BY <2>6 DEF setToken
      <4> QED
          BY <4>1, <4>2, SetTokenTyped DEF TypeOK
    <3>5. faults' \in 0..MaxFaults
        BY <2>6, FaultsTyped DEF setToken
    <3> QED
        BY <2>6, <3>1, <3>2, <3>3, <3>4, <3>5 DEF TypeOK, setToken, To, Tokens
  <2> QED
      BY <1>24, <2>1, <2>2, <2>3, <2>4, <2>5, <2>6 DEF Thread
<1>25. CASE Daemon
  <2>1. CASE ReplyKey
    <3>1. \A c \in {"key", "badkey", "error"} : [type |-> "EncryptKey", code |-> c] \in Reply
        BY DEF Reply
    <3> QED
        BY <2>1, <3>1, ReplyTyped DEF ReplyKey
  <2>2. CASE ReplyResult
    <3>1. \A c \in {"pass", "fail", "unavailable", "error"} : [type |-> "GetResult", code |-> c] \in Reply
        BY DEF Reply
    <3> QED
        BY <2>2, <3>1, ReplyTyped DEF ReplyResult
  <2>3. CASE EmitVerdict
    <3>1. inbox' \in Seq(Status \cup Reply)
        BY <2>3, EmptyTyped DEF TypeOK, EmitVerdict, Status, Send, Session
    <3>2. daemon' \in Session
        BY <2>3 DEF TypeOK, EmitVerdict, Session
    <3> QED
        BY <2>3, <3>1, <3>2 DEF TypeOK, EmitVerdict, Tokens
  <2>4. CASE Cancel
    <3>1. inbox' \in Seq(Status \cup Reply)
      <4>1. [type |-> All, code |-> "Cancel"] \in Status
          BY DEF Status
      <4>2. inbox' = inbox \/ inbox' = Append(inbox, [type |-> All, code |-> "Cancel"])
          BY <2>4 DEF Cancel, Send
      <4> QED
          BY <4>1, <4>2 DEF TypeOK
    <3>2. daemon' \in Session
        BY <2>4 DEF TypeOK, Cancel, Session
    <3> QED
        BY <2>4, <3>1, <3>2 DEF TypeOK, Cancel, Tokens
  <2>5. ASSUME NEW f \in Factors, Report(f) PROVE TypeOK'
    <3>1. PICK ok \in BOOLEAN :
            /\ Send([type |-> f, code |-> IF ok THEN "Success" ELSE "Failure"])
            /\ LET d == [daemon EXCEPT !.verifying = @ \ {f},
                                     !.passed = IF ok THEN @ \cup {f} ELSE @,
                                     !.failed = IF ok THEN @ ELSE @ \cup {f},
                                     !.limits[f] = Charged(@, ok)]
               IN  \E v \in Verdicts(d) : daemon' = [d EXCEPT !.verdict = v]
        BY <2>5 DEF Report
    <3> DEFINE d == [daemon EXCEPT !.verifying = @ \ {f},
                                   !.passed = IF ok THEN @ \cup {f} ELSE @,
                                   !.failed = IF ok THEN @ ELSE @ \cup {f},
                                   !.limits[f] = Charged(@, ok)]
    <3>2. inbox' \in Seq(Status \cup Reply)
        BY <3>1 DEF TypeOK, Send, Status
    <3>3. Charged(daemon.limits[f], ok) \in Limit
      <4>1. daemon.limits[f] \in Limit
          BY DEF TypeOK, Session
      <4> DEFINE k == IF ok THEN daemon.limits[f].fails ELSE daemon.limits[f].fails + 1
                 b == daemon.limits[f].locked \/ k >= MaxTries
      <4>2. k \in Nat
          BY <4>1 DEF Limit
      <4>3. b \in BOOLEAN
          OBVIOUS
      <4>4. Charged(daemon.limits[f], ok) = [daemon.limits[f] EXCEPT !.fails = k, !.locked = b]
          BY Zenon DEF Charged
      <4> HIDE DEF k, b
      <4> QED
          BY <4>1, <4>2, <4>3, <4>4 DEF Limit
    <3>4. d \in Session
        BY <3>3 DEF TypeOK, Session
    <3>5. Verdicts(d) \subseteq {"none", "Success", "Failure"}
        BY DEF Verdicts
    <3>6. \E v \in Verdicts(d) : daemon' = [d EXCEPT !.verdict = v]
        BY <3>1
    <3> HIDE DEF d
    <3>7. daemon' \in Session
        BY <3>4, <3>5, <3>6 DEF Session
    <3> QED
        BY <2>5, <3>2, <3>7 DEF TypeOK, Report
  <2>6. ASSUME NEW f \in Factors, EmitVerify(f) PROVE TypeOK'
    <3>1. inbox' \in Seq(Status \cup Reply)
        BY <2>6 DEF TypeOK, EmitVerify, Send, Status
    <3>2. statuses' \in 0..MaxStatuses
        BY <2>6, PamAssumption DEF TypeOK, EmitVerify
    <3> QED
        BY <2>6, <3>1, <3>2 DEF TypeOK, EmitVerify
  <2> QED
      BY <1>25, <2>1, <2>2, <2>3, <2>4, <2>5, <2>6 DEF Daemon
<1> QED
    BY <1>s, <1>1, <1>2, <1>3, <1>4, <1>5, <1>6, <1>7, <1>8, <1>9, <1>10, <1>11, <1>12, <1>13, <1>14, <1>15, <1>16, <1>17, <1>18, <1>19, <1>20, <1>21, <1>22, <1>23, <1>24, <1>25 DEF Next, pam_sm_authenticate

(* The state has its types when pam_sm_authenticate is called.             *)
LEMMA TypeInit == Init => TypeOK
<1> SUFFICES ASSUME Init PROVE TypeOK
    OBVIOUS
<1>1. [f \in Factors |-> NoLimit] \in [Factors -> Limit]
    BY DEF NoLimit, Limit
<1>2. Nothing \in Shown
    BY DEF Nothing, Shown
<1>3. \A f \in Factors : [max |-> MaxTries, fails |-> IF f = Password THEN Failed ELSE 0,
                         locked |-> f = Password /\ Failed = MaxTries] \in Limit
    BY PamAssumption DEF Limit
<1>4. ud \in UserData
    BY <1>1, <1>2, EmptyTyped DEF Init, UserData
<1>5. daemon.limits \in [Factors -> Limit] /\ daemon.given \in [Factors -> Answers \cup {"none"}]
    BY <1>3 DEF Init, Answers
<1>6. daemon \in Session
    BY <1>3, PamAssumption DEF Init, Session, Answers
<1>7. inbox \in Seq(Status \cup Reply) /\ threads \in Seq(Tokens)
    BY EmptyTyped DEF Init
<1>8. faults \in 0..MaxFaults /\ statuses \in 0..MaxStatuses
    BY PamAssumption DEF Init
<1> QED
    BY <1>4, <1>6, <1>7, <1>8 DEF Init, TypeOK, Tokens, Places, Results, Running

(* The state keeps its types through pam_sm_authenticate, its token        *)
(* threads and what the daemon sends (pam.c:248-516).                      *)
THEOREM TypeCorrect == Spec => []TypeOK
<1>1. Init => TypeOK
    BY TypeInit
<1>2. TypeOK /\ [Next]_vars => TypeOK'
    BY TypeStep
<1> QED
    BY <1>1, <1>2, PTL DEF Spec
-----------------------------------------------------------------------------
(* While neither this session nor another one has granted anything, no     *)
(* message says so, nothing has the result SUCCESS, and where              *)
(* get_result_val is GET_RESULT_SUCCESS because no answer has come no      *)
(* thread reads it: every thread that waits still has waiting_result set.  *)
Undecided(m) == /\ m # [type |-> All, code |-> "Success"]
                /\ m # [type |-> "GetResult", code |-> "pass"]

Silent(box) == \A k \in DOMAIN box : Undecided(box[k])

Unread(at) == at # "check" /\ (at = "spin" => ud.waiting)

Ungranted ==
    /\ res # "SUCCESS" /\ out.value # "SUCCESS"
    /\ Silent(inbox)
    /\ ud.result = "pass" => \A i \in DOMAIN threads : Unread(threads[i].at)

SuccessInv == daemon.granted = {} => Ungranted

(* A message is taken from the inbox.                                      *)
LEMMA SilentTail ==
    ASSUME NEW S, NEW box \in Seq(S), box # <<>>, Silent(box)
    PROVE  Undecided(Head(box)) /\ Silent(Tail(box))
<1>1. Head(box) = box[1] /\ 1 \in DOMAIN box
    OBVIOUS
<1>2. \A k \in DOMAIN Tail(box) : k + 1 \in DOMAIN box /\ Tail(box)[k] = box[k + 1]
    OBVIOUS
<1> QED
    BY <1>1, <1>2 DEF Silent

(* A message is added to it.                                               *)
LEMMA SilentAppend ==
    ASSUME NEW S, NEW box \in Seq(S), NEW m \in S, Silent(box), Undecided(m)
    PROVE  Silent(Append(box, m))
<1>1. \A k \in DOMAIN Append(box, m) : Append(box, m)[k] = m \/ (k \in DOMAIN box /\ Append(box, m)[k] = box[k])
    OBVIOUS
<1> QED
    BY <1>1 DEF Silent

(* A step that leaves the threads and their flags alone.                   *)
LEMMA UnreadKept ==
    ASSUME TypeOK, Ungranted, UNCHANGED threads,
           ud'.result = ud.result, ud'.waiting = ud.waiting
    PROVE  ud'.result = "pass" => \A i \in DOMAIN threads' : Unread(threads[i].at)'
    BY DEF Ungranted, Unread

(* Start answers with a Prompt.                                            *)
LEMMA StartSilent ==
    ASSUME TypeOK, NEW t \in Factors \cup {All}, NEW d, NEW box \in Seq(Status \cup Reply),
           Silent(box), dbus_method_start(t, d, box)
    PROVE  res' # "SUCCESS" /\ Silent(inbox') /\ daemon'.granted = d.granted
<1>1. [type |-> t, code |-> "Prompt"] \in Status \cup Reply
    BY DEF Status
<1>2. Undecided([type |-> t, code |-> "Prompt"])
    BY DEF Undecided
<1>3. Silent(Prompted(d, t, box))
    BY <1>1, <1>2, SilentAppend DEF Prompted
<1>4. Started(d, t).granted = d.granted
    BY DEF Started
<1> QED
    BY <1>3, <1>4 DEF dbus_method_start, Running

(* So does the start of one factor.                                        *)
LEMMA mfa_start_verifySilent ==
    ASSUME TypeOK, NEW i \in Nat, NEW d, NEW box \in Seq(Status \cup Reply),
           Silent(box), mfa_start_verify(i, d, box)
    PROVE  /\ res' # "SUCCESS" /\ Silent(inbox') /\ daemon'.granted = d.granted
           /\ ud'.result = ud.result /\ ud'.waiting = ud.waiting
<1>0. ud \in UserData
    BY DEF TypeOK
<1>1. CASE i \in DOMAIN ud.order
  <2>1. ud.order[i] \in Factors
      BY <1>0, <1>1 DEF UserData
  <2>2. res' # "SUCCESS" /\ Silent(inbox') /\ daemon'.granted = d.granted
      BY <1>1, <2>1, StartSilent DEF mfa_start_verify
  <2>3. ud'.result = ud.result /\ ud'.waiting = ud.waiting
      BY <1>0, <1>1 DEF mfa_start_verify, UserData
  <2> QED
      BY <2>2, <2>3
<1>2. CASE i \notin DOMAIN ud.order
    BY <1>2 DEF mfa_start_verify
<1> QED
    BY <1>1, <1>2

(* A status that is not the final Success does not make res SUCCESS        *)
(* (sfa.c:16-183, mfa.c:21-177).                                           *)
LEMMA DealSilent ==
    ASSUME TypeOK, Ungranted, NEW m \in Status, Undecided(m),
           sfa_signal_deal(m) \/ mfa_signal_deal(m)
    PROVE  /\ res' # "SUCCESS" /\ ud'.result = ud.result /\ ud'.waiting = ud.waiting
           /\ \/ UNCHANGED threads
              \/ threads' = Append(threads, [at |-> "conv", answer |-> "none"])
<1>0. ud \in UserData /\ res # "SUCCESS"
    BY DEF TypeOK, Ungranted
<1>1. m.code = "Success" => m.type # All
    BY DEF Undecided, Status
<1>2. CASE \E r \in {Running} : Only(r)
    BY <1>2 DEF Only, Running
<1>3. CASE /\ ud' = [ud EXCEPT !.failed = Append(@, m.type)]
           /\ res' = Running /\ UNCHANGED threads
    BY <1>0, <1>3 DEF UserData, Running
<1>4. CASE /\ \E x : ud' = Told(x, m.type)
           /\ res' \in {Running, "AUTH_ERR"} /\ UNCHANGED threads
    BY <1>0, <1>4 DEF UserData, Running, Told
<1>5. CASE /\ \E ok \in BOOLEAN : ud' = [get_limits_info(ud, ok) EXCEPT !.shown = FailureText(get_limits_info(ud, ok))]
           /\ res' = "AUTH_ERR" /\ UNCHANGED threads
    BY <1>0, <1>5 DEF UserData, get_limits_info
<1>6. CASE StartThread
    BY <1>0, <1>6 DEF StartThread, Running
<1> QED
    BY <1>1, <1>2, <1>3, <1>4, <1>5, <1>6 DEF sfa_signal_deal, mfa_signal_deal

(* Every step keeps the invariant.                                         *)
LEMMA SuccessStep ==
    ASSUME TypeOK, SuccessInv, [Next]_vars
    PROVE  SuccessInv'
<1> SUFFICES ASSUME daemon'.granted = {}
             PROVE  Ungranted'
    BY DEF SuccessInv
<1>0. ud \in UserData /\ daemon \in Session /\ inbox \in Seq(Status \cup Reply) /\ threads \in Seq(Tokens)
    BY DEF TypeOK, Tokens
<1>1. CASE /\ daemon'.granted = daemon.granted
           /\ res' # "SUCCESS" \/ res' = res
           /\ out'.value = out.value \/ out'.value # "SUCCESS" \/ out'.value = res
           /\ UNCHANGED <<inbox, threads>>
           /\ ud'.result = ud.result /\ ud'.waiting = ud.waiting
  <2>1. Ungranted
      BY <1>1 DEF SuccessInv
  <2>2. ud'.result = "pass" => \A i \in DOMAIN threads' : Unread(threads[i].at)'
      BY <1>1, <2>1, UnreadKept
  <2>3. res' # "SUCCESS" /\ out'.value # "SUCCESS" /\ Silent(inbox')
      BY <1>1, <2>1 DEF Ungranted
  <2> QED
      BY <2>2, <2>3 DEF Ungranted
<1>2. CASE Enter
    BY <1>2, <1>0, <1>1 DEF TypeOK, Enter, UserData, Session
<1>3. CASE Connect
    BY <1>3, <1>0, <1>1 DEF TypeOK, Connect, UserData, Session
<1>4. CASE PreOneKeyLogin
    BY <1>4, <1>0, <1>1 DEF TypeOK, PreOneKeyLogin, UserData, Session
<1>5. CASE WarnExpiry
    BY <1>5, <1>0, <1>1 DEF TypeOK, WarnExpiry, UserData, Session
<1>6. CASE Authenticate
    BY <1>6, <1>0, <1>1 DEF TypeOK, Authenticate, Break, UserData, Session
<1>7. CASE get_authctl_property
    BY <1>7, <1>0, <1>1 DEF TypeOK, get_authctl_property, UserData, Session
<1>8. CASE CheckLimits
    BY <1>8, <1>0, <1>1 DEF TypeOK, CheckLimits, Break, get_limit_prompt, get_limits_info, UserData, Session
<1>9. CASE EncryptKey
    BY <1>9, <1>0, <1>1 DEF TypeOK, EncryptKey, UserData, Session
<1>10. CASE listen_dbus_signal
    BY <1>10, <1>0, <1>1 DEF TypeOK, listen_dbus_signal, Break, UserData, Session
<1>11. CASE LoopTop
    BY <1>11, <1>0, <1>1 DEF TypeOK, LoopTop, UserData, Session
<1>12. CASE Wait
    BY <1>12, <1>0, <1>1 DEF TypeOK, Wait, UserData, Session
<1>13. CASE BusFails
    BY <1>13, <1>0, <1>1 DEF TypeOK, BusFails, Break, UserData, Session
<1>14. CASE SetSymmetricKey
    BY <1>14, <1>0, <1>1 DEF TypeOK, SetSymmetricKey, UserData, Session
<1>15. CASE Finish
    BY <1>15, <1>0, <1>1 DEF TypeOK, Finish, UserData, Session
<1>16. CASE Join
    BY <1>16, <1>0, <1>1 DEF TypeOK, Join, UserData, Session
<1>17. CASE Return
    BY <1>17, <1>0, <1>1 DEF TypeOK, Return, UserData, Session
<1>18. CASE Start
  <2>1. Ungranted /\ daemon'.granted = daemon.granted
    <3>1. daemon'.granted = daemon.granted
        BY <1>18, <1>0 DEF Start, sfa_start_verify, mfa_start_verify, dbus_method_start, Started, Session
    <3> QED
        BY <3>1 DEF SuccessInv
  <2>2. res' # "SUCCESS" /\ Silent(inbox') /\ ud'.result = ud.result /\ ud'.waiting = ud.waiting
    <3>1. CASE mfa_start_verify(1, daemon, inbox)
        BY <1>0, <2>1, <3>1, mfa_start_verifySilent DEF Ungranted
    <3>2. CASE sfa_start_verify(daemon, inbox)
      <4>1. ud'.result = ud.result /\ ud'.waiting = ud.waiting
          BY <1>0, <3>2 DEF sfa_start_verify, UserData
      <4> QED
          BY <1>0, <2>1, <3>2, <4>1, StartSilent DEF Ungranted, sfa_start_verify
    <3> QED
        BY <1>18, <3>1, <3>2 DEF Start
  <2> QED
      BY <1>18, <2>1, <2>2, UnreadKept DEF Start, Ungranted
<1>19. CASE call_encryptKey_cb
  <2>1. Ungranted
      BY <1>19 DEF call_encryptKey_cb, SuccessInv
  <2>2. Silent(Tail(inbox))
      BY <1>19, <1>0, <2>1, SilentTail DEF call_encryptKey_cb, Handling, Ungranted
  <2>3. ud'.result = ud.result /\ ud'.waiting = ud.waiting
      BY <1>19, <1>0 DEF call_encryptKey_cb, UserData
  <2> QED
      BY <1>19, <2>1, <2>2, <2>3, UnreadKept DEF call_encryptKey_cb, Ungranted
<1>20. CASE call_getResult_cb
  <2>1. Ungranted
      BY <1>20 DEF call_getResult_cb, SuccessInv
  <2>2. Undecided(Head(inbox)) /\ Silent(Tail(inbox))
      BY <1>20, <1>0, <2>1, SilentTail DEF call_getResult_cb, Handling, Ungranted
  <2>3. Head(inbox).code # "pass"
    <3>1. Head(inbox) \in Status \cup Reply /\ Head(inbox).type = "GetResult"
        BY <1>20, <1>0 DEF call_getResult_cb, Handling
    <3>2. Head(inbox) \in [type : {"GetResult"}, code : {"pass", "fail", "unavailable", "error"}]
        BY <3>1, PamAssumption DEF Status, Reply
    <3> QED
        BY <2>2, <3>2 DEF Undecided
  <2>4. ud'.result # "pass"
      BY <1>20, <1>0, <2>3 DEF call_getResult_cb, UserData
  <2> QED
      BY <1>20, <2>1, <2>2, <2>4 DEF call_getResult_cb, Ungranted
<1>21. CASE bus_signal_cb
  <2> DEFINE m == Head(inbox)
  <2>1. m \in Status \cup Reply /\ Tail(inbox) \in Seq(Status \cup Reply)
      BY <1>21, <1>0 DEF bus_signal_cb, Handling
  <2>2. m \in Status
      BY <1>21, <2>1, PamAssumption DEF bus_signal_cb, Handling, Reply
  <2>3. CASE /\ sfa_signal_deal(m) \/ mfa_signal_deal(m)
             /\ inbox' = Tail(inbox) /\ UNCHANGED daemon
    <3>1. Ungranted
        BY <2>3 DEF SuccessInv
    <3>2. Undecided(m) /\ Silent(Tail(inbox))
        BY <1>21, <1>0, <3>1, SilentTail DEF bus_signal_cb, Handling, Ungranted
    <3>3. /\ res' # "SUCCESS" /\ ud'.result = ud.result /\ ud'.waiting = ud.waiting
          /\ \/ UNCHANGED threads
             \/ threads' = Append(threads, [at |-> "conv", answer |-> "none"])
        BY <2>2, <2>3, <3>1, <3>2, DealSilent
    <3>4. ASSUME ud'.result = "pass", NEW i \in DOMAIN threads'
          PROVE  Unread(threads[i].at)'
      <4>1. \/ threads'[i].at = "conv"
            \/ i \in DOMAIN threads /\ threads'[i] = threads[i]
          BY <1>0, <3>3
      <4> QED
          BY <3>1, <3>3, <3>4, <4>1 DEF Ungranted, Unread
    <3> QED
        BY <1>21, <2>3, <3>1, <3>2, <3>3, <3>4 DEF bus_signal_cb, Ungranted
  <2>4. CASE NextFactor(m)
    <3>1. PICK i \in DOMAIN ud.order :
            mfa_start_verify(i + 1, [daemon EXCEPT !.verifying = @ \ {ud.cur}], Tail(inbox))
        BY <2>4 DEF NextFactor
    <3>2. i + 1 \in Nat /\ [daemon EXCEPT !.verifying = @ \ {ud.cur}].granted = daemon.granted
        BY <1>0 DEF UserData, Session
    <3>3. daemon'.granted = daemon.granted
        BY <1>0, <3>1, <3>2 DEF mfa_start_verify, dbus_method_start, Started, Session
    <3>4. Ungranted
        BY <3>3 DEF SuccessInv
    <3>5. Silent(Tail(inbox))
        BY <1>21, <1>0, <3>4, SilentTail DEF bus_signal_cb, Handling, Ungranted
    <3>6. res' # "SUCCESS" /\ Silent(inbox') /\ ud'.result = ud.result /\ ud'.waiting = ud.waiting
        BY <2>1, <3>1, <3>2, <3>5, mfa_start_verifySilent
    <3> QED
        BY <1>21, <2>4, <3>4, <3>6, UnreadKept DEF bus_signal_cb, NextFactor, Ungranted
  <2> QED
      BY <1>21, <2>3, <2>4 DEF bus_signal_cb
<1>22. CASE CloseBus \/ pam_clean_func
  <2>1. daemon'.granted = daemon.granted /\ ud'.result = ud.result /\ ud'.waiting = ud.waiting
      BY <1>22, <1>0 DEF CloseBus, pam_clean_func, EndSession, Ended, UserData, Session
  <2>2. Ungranted
      BY <2>1 DEF SuccessInv
  <2> QED
      BY <1>22, <2>1, <2>2, UnreadKept DEF CloseBus, pam_clean_func, Ungranted, Silent
<1>23. CASE Cancelled
  <2>1. Ungranted
      BY <1>23 DEF Cancelled, SuccessInv
  <2>2. \A i \in DOMAIN threads' : i \in DOMAIN threads /\ threads'[i].at \in {threads[i].at, "exited"}
      BY <1>23, <1>0 DEF Cancelled
  <2> QED
      BY <1>23, <2>1, <2>2 DEF Cancelled, Ungranted, Unread
<1>24. ASSUME NEW i \in DOMAIN threads, Thread(i) PROVE Ungranted'
  <2>0. ASSUME NEW x PROVE \A k \in DOMAIN threads :
            [threads EXCEPT ![i].at = x][k].at = IF k = i THEN x ELSE threads[k].at
      BY <1>0 DEF Tokens
  <2>1. CASE Answer(i)
    <3>1. Ungranted
        BY <2>1 DEF Answer, SuccessInv
    <3>2. res' # "SUCCESS"
        BY <2>1, <3>1 DEF Answer, NoAnswer, Ungranted
    <3>3. \A k \in DOMAIN threads' : k \in DOMAIN threads /\ threads'[k].at \in {threads[k].at, "exited", "getResult", "send"}
      <4>1. CASE \E a \in Answers, named \in BOOLEAN :
                    threads' = [threads EXCEPT ![i] = [at |-> split_data(named), answer |-> a]]
          BY <1>0, <4>1 DEF split_data
      <4>2. CASE threads' = [threads EXCEPT ![i].at = "exited"]
          BY <1>0, <2>0, <4>2
      <4> QED
          BY <2>1, <4>1, <4>2 DEF Answer, To
    <3> QED
        BY <2>1, <3>1, <3>2, <3>3 DEF Answer, Ungranted, Unread
  <2>2. CASE getResult(i)
    <3>1. daemon'.granted = daemon.granted
        BY <2>2, <1>0 DEF getResult, Session
    <3>2. Ungranted
        BY <3>1 DEF SuccessInv
    <3>3. CASE ud' = [ud EXCEPT !.result = "unavailable"]
        BY <1>0, <2>2, <3>2, <3>3 DEF getResult, Ungranted, UserData
    <3>4. CASE UNCHANGED ud /\ To(i, "mark")
      <4>1. \A k \in DOMAIN threads' : k \in DOMAIN threads /\ threads'[k].at \in {threads[k].at, "mark"}
          BY <1>0, <2>0, <3>4 DEF To
      <4> QED
          BY <2>2, <3>2, <3>4, <4>1 DEF getResult, Ungranted, Unread
    <3> QED
        BY <2>2, <3>3, <3>4 DEF getResult
  <2>3. CASE MarkWaiting(i)
    <3>1. Ungranted
        BY <2>3 DEF MarkWaiting, SuccessInv
    <3>2. ud'.result = ud.result /\ ud'.waiting = TRUE
        BY <2>3, <1>0 DEF MarkWaiting, UserData
    <3>3. \A k \in DOMAIN threads' : k \in DOMAIN threads /\ threads'[k].at \in {threads[k].at, "spin"}
        BY <1>0, <2>0, <2>3 DEF MarkWaiting, To
    <3> QED
        BY <2>3, <3>1, <3>2, <3>3 DEF MarkWaiting, Ungranted, Unread
  <2>4. CASE Spin(i)
    <3>1. Ungranted
        BY <2>4 DEF Spin, SuccessInv
    <3>2. ud.result # "pass"
        BY <2>4, <3>1 DEF Spin, At, Ungranted, Unread
    <3> QED
        BY <2>4, <3>1, <3>2 DEF Spin, Ungranted
  <2>5. CASE CheckResult(i)
    <3>1. Ungranted
        BY <2>5 DEF CheckResult, SuccessInv
    <3>2. ud.result # "pass"
        BY <2>5, <3>1 DEF CheckResult, At, Ungranted, Unread
    <3> QED
        BY <2>5, <3>1, <3>2 DEF CheckResult, Ungranted
  <2>6. CASE setToken(i)
    <3>1. daemon'.granted = daemon.granted
        BY <2>6, <1>0 DEF setToken, SetToken, Session
    <3>2. Ungranted
        BY <3>1 DEF SuccessInv
    <3>3. res' # "SUCCESS"
        BY <2>6, <3>2 DEF setToken, Ungranted
    <3>4. \A k \in DOMAIN threads' : k \in DOMAIN threads /\ threads'[k].at \in {threads[k].at, "exited"}
      <4>1. UNCHANGED threads \/ threads' = [threads EXCEPT ![i].at = "exited"]
          BY <2>6 DEF setToken, To
      <4> QED
          BY <1>0, <2>0, <4>1
    <3> QED
        BY <2>6, <3>2, <3>3, <3>4 DEF setToken, Ungranted, Unread
  <2> QED
      BY <1>24, <2>1, <2>2, <2>3, <2>4, <2>5, <2>6 DEF Thread
<1>25. CASE Daemon
  <2>1. UNCHANGED <<res, out, threads, ud>>
      BY <1>25 DEF Daemon, ReplyKey, ReplyResult, ReplyTo, Report, EmitVerdict, EmitVerify, Cancel
  <2>2. ASSUME daemon'.granted = daemon.granted, NEW m \in Status \cup Reply, Undecided(m),
               inbox' = inbox \/ Send(m)
        PROVE  Ungranted'
    <3>1. Ungranted
        BY <2>2 DEF SuccessInv
    <3>2. Silent(inbox')
        BY <1>0, <2>2, <3>1, SilentAppend DEF Send, Ungranted
    <3> QED
        BY <2>1, <3>1, <3>2, UnreadKept DEF Ungranted
  <2>3. CASE ReplyKey
    <3>1. PICK c \in {"key", "badkey", "error"} :
            /\ Send([type |-> "EncryptKey", code |-> c])
            /\ daemon' = [daemon EXCEPT !.asked = @ \ {"EncryptKey"},
                          !.granted = IF c = "pass" THEN @ \cup {"other"} ELSE @]
        BY <2>3 DEF ReplyKey, ReplyTo
    <3>2. daemon'.granted = daemon.granted
        BY <1>0, <3>1 DEF Session
    <3> QED
        BY <2>2, <3>1, <3>2 DEF Reply, Undecided
  <2>4. CASE ReplyResult
    <3>1. PICK c \in {"pass", "fail", "unavailable", "error"} :
            /\ Send([type |-> "GetResult", code |-> c])
            /\ daemon' = [daemon EXCEPT !.asked = @ \ {"GetResult"},
                          !.granted = IF c = "pass" THEN @ \cup {"other"} ELSE @]
        BY <2>4 DEF ReplyResult, ReplyTo
    <3>2. c # "pass" /\ daemon'.granted = daemon.granted
        BY <1>0, <3>1 DEF Session
    <3> QED
        BY <2>2, <3>1, <3>2 DEF Reply, Undecided
  <2>5. CASE EmitVerdict
    <3>1. daemon.verdict \in {"Success", "Failure"}
        BY <1>0, <2>5 DEF EmitVerdict, Session
    <3>2. daemon.verdict # "Success" /\ daemon'.granted = daemon.granted
        BY <1>0, <2>5 DEF EmitVerdict, Session
    <3>3. [type |-> All, code |-> "Failure"] \in Status /\ Undecided([type |-> All, code |-> "Failure"])
        BY DEF Status, Undecided
    <3> QED
        BY <2>2, <2>5, <3>1, <3>2, <3>3 DEF EmitVerdict
  <2>6. CASE Cancel
    <3>1. daemon'.granted = daemon.granted
        BY <1>0, <2>6 DEF Cancel, Session
    <3>2. [type |-> All, code |-> "Cancel"] \in Status /\ Undecided([type |-> All, code |-> "Cancel"])
        BY DEF Status, Undecided
    <3> QED
        BY <2>2, <2>6, <3>1, <3>2 DEF Cancel
  <2>7. ASSUME NEW f \in Factors, Report(f) PROVE Ungranted'
    <3>1. PICK ok \in BOOLEAN : Send([type |-> f, code |-> IF ok THEN "Success" ELSE "Failure"])
        BY <2>7 DEF Report
    <3>2. daemon'.granted = daemon.granted
        BY <1>0, <2>7 DEF Report, Session
    <3>3. [type |-> f, code |-> IF ok THEN "Success" ELSE "Failure"] \in Status
        BY DEF Status
    <3>4. Undecided([type |-> f, code |-> IF ok THEN "Success" ELSE "Failure"])
        BY PamAssumption DEF Undecided
    <3> QED
        BY <2>2, <3>1, <3>2, <3>3, <3>4
  <2>8. ASSUME NEW f \in Factors, EmitVerify(f) PROVE Ungranted'
    <3>1. PICK c \in VerifyCodes : Send([type |-> f, code |-> c])
        BY <2>8 DEF EmitVerify
    <3>2. [type |-> f, code |-> c] \in Status /\ Undecided([type |-> f, code |-> c])
        BY PamAssumption DEF Status, Undecided
    <3> QED
        BY <2>2, <2>8, <3>1, <3>2 DEF EmitVerify
  <2> QED
      BY <1>25, <2>3, <2>4, <2>5, <2>6, <2>7, <2>8 DEF Daemon
<1>26. CASE UNCHANGED vars
    BY <1>26, <1>1 DEF vars
<1> QED
    BY <1>2, <1>3, <1>4, <1>5, <1>6, <1>7, <1>8, <1>9, <1>10, <1>11, <1>12, <1>13, <1>14,
       <1>15, <1>16, <1>17, <1>18, <1>19, <1>20, <1>21, <1>22, <1>23, <1>24, <1>25, <1>26
       DEF Next, pam_sm_authenticate

(* It holds when pam_sm_authenticate is called.                            *)
LEMMA SuccessInit == Init => SuccessInv
    BY DEF Init, SuccessInv, Ungranted, Silent, Running

(* PAM_SUCCESS is only returned when this session gave the final Success   *)
(* or GetResult said that another one passed, with any number of factors,  *)
(* token threads, failed calls and statuses (pam.c:151-203,                *)
(* dbus.c:173-239).                                                        *)
THEOREM SuccessIsGranted == Spec => []SuccessGranted
<1>1. Init => SuccessInv
    BY SuccessInit
<1>2. TypeOK /\ SuccessInv /\ [Next]_vars => SuccessInv'
    BY SuccessStep
<1>3. SuccessInv => SuccessGranted
    BY DEF SuccessInv, Ungranted, SuccessGranted
<1> QED
    BY <1>1, <1>2, <1>3, TypeCorrect, PTL DEF Spec
-----------------------------------------------------------------------------
(* Only the last token thread can be alive, there is none before the loop, *)
(* and after the join there is none left.                                  *)
Early == {"enter", "connect", "onekey", "expiry", "authenticate", "props"}
Late == {"return", "done", "ended"}

ThreadInv ==
    /\ \A i \in 1..(Len(threads) - 1) : threads[i].at = "exited"
    /\ main \in Early => threads = <<>>
    /\ NoThreadLeft

(* It holds when pam_sm_authenticate is called.                            *)
LEMMA ThreadInit == Init => ThreadInv
    BY DEF Init, ThreadInv, NoThreadLeft

(* Every step keeps the invariant.                                         *)
LEMMA ThreadStep ==
    ASSUME TypeOK, ThreadInv, [Next]_vars
    PROVE  ThreadInv'
<1>0. threads \in Seq(Tokens)
    BY DEF TypeOK, Tokens
<1>1. CASE /\ UNCHANGED threads
           /\ main' \in Early => main \in Early
           /\ main' \in Late => main \in Early \cup Late
    BY <1>0, <1>1 DEF ThreadInv, NoThreadLeft, Late
<1>2. ASSUME UNCHANGED main, NEW i \in DOMAIN threads,
             \A k \in DOMAIN threads : k # i => threads'[k].at = threads[k].at,
             DOMAIN threads' = DOMAIN threads, Len(threads') = Len(threads),
             threads[i].at # "exited" \/ threads'[i].at = "exited"
      PROVE  ThreadInv'
  <2>1. i = Len(threads) \/ threads[i].at = "exited"
      BY <1>0 DEF ThreadInv
  <2>2. \A k \in 1..(Len(threads') - 1) : threads'[k].at = "exited"
      BY <1>0, <1>2, <2>1 DEF ThreadInv
  <2>3. main \notin Early
      BY <1>0, <1>2 DEF ThreadInv
  <2>4. NoThreadLeft'
      BY <1>0, <1>2 DEF ThreadInv, NoThreadLeft
  <2> QED
      BY <1>2, <2>2, <2>3, <2>4 DEF ThreadInv
<1>3. CASE Enter \/ Connect \/ PreOneKeyLogin \/ WarnExpiry \/ Authenticate \/ get_authctl_property
    BY <1>1, <1>3 DEF Enter, Connect, PreOneKeyLogin, WarnExpiry, Authenticate, get_authctl_property,
                      Break, Early, Late
<1>4. CASE CheckLimits \/ EncryptKey \/ listen_dbus_signal \/ Start
    BY <1>1, <1>4 DEF CheckLimits, EncryptKey, listen_dbus_signal, Start, Break, Early, Late
<1>5. CASE LoopTop \/ Wait \/ BusFails \/ call_encryptKey_cb \/ SetSymmetricKey \/ call_getResult_cb
    BY <1>1, <1>5 DEF LoopTop, Wait, BusFails, call_encryptKey_cb, SetSymmetricKey, call_getResult_cb,
                      Break, Early, Late
<1>6. CASE Finish \/ CloseBus \/ Return \/ pam_clean_func
    BY <1>1, <1>6 DEF Finish, CloseBus, Return, pam_clean_func, Early, Late
<1>7. CASE Join
  <2>1. \A i \in DOMAIN threads : i = Len(threads) \/ i \in 1..(Len(threads) - 1)
      BY <1>0
  <2>2. \A i \in DOMAIN threads : threads[i].at = "exited"
      BY <1>0, <1>7, <2>1 DEF Join, ThreadInv
  <2> QED
      BY <1>7, <2>2 DEF Join, ThreadInv, NoThreadLeft, Early
<1>8. CASE bus_signal_cb
  <2>1. CASE UNCHANGED threads
      BY <1>1, <1>8, <2>1 DEF bus_signal_cb, Early, Late
  <2>2. CASE StartThread /\ ~UNCHANGED threads
    <3> DEFINE new == [at |-> "conv", answer |-> "none"]
    <3>1. threads' = Append(threads, new) /\ FALSE \in Found
        BY <2>2 DEF StartThread
    <3>2. threads # <<>> => threads[Len(threads)].at = "exited"
        BY <3>1 DEF Found
    <3> HIDE DEF new
    <3>3. \A k \in 1..(Len(threads') - 1) : k \in DOMAIN threads /\ threads'[k] = threads[k]
        BY <1>0, <3>1
    <3>4. \A k \in DOMAIN threads : k = Len(threads) \/ k \in 1..(Len(threads) - 1)
        BY <1>0
    <3>5. \A k \in 1..(Len(threads') - 1) : threads'[k].at = "exited"
        BY <1>0, <3>2, <3>3, <3>4 DEF ThreadInv
    <3> QED
        BY <1>8, <3>5 DEF bus_signal_cb, ThreadInv, NoThreadLeft, Early
  <2> QED
      BY <1>8, <2>1, <2>2 DEF bus_signal_cb, sfa_signal_deal, mfa_signal_deal, NextFactor, Only
<1>9. CASE Cancelled
  <2>1. Len(threads) \in DOMAIN threads
      BY <1>0, <1>9 DEF Cancelled
  <2> QED
      BY <1>0, <1>2, <1>9, <2>1 DEF Cancelled
<1>10. ASSUME NEW i \in DOMAIN threads, Thread(i) PROVE ThreadInv'
  <2>1. threads[i].at # "exited"
      BY <1>10 DEF Thread, Answer, getResult, MarkWaiting, Spin, CheckResult, setToken, At
  <2>2. /\ DOMAIN threads' = DOMAIN threads /\ Len(threads') = Len(threads)
        /\ \A k \in DOMAIN threads : k # i => threads'[k].at = threads[k].at
    <3>1. \/ UNCHANGED threads
          \/ \E x : threads' = [threads EXCEPT ![i].at = x]
          \/ \E x : threads' = [threads EXCEPT ![i] = x]
        BY <1>10 DEF Thread, Answer, getResult, MarkWaiting, Spin, CheckResult, setToken, To
    <3> QED
        BY <1>0, <3>1
  <2>3. CASE UNCHANGED main
      BY <1>2, <2>1, <2>2, <2>3
  <2>4. CASE main' = "crashed" /\ UNCHANGED threads
      BY <1>1, <2>4 DEF Early, Late
  <2> QED
      BY <1>10, <2>3, <2>4 DEF Thread, Answer, getResult, MarkWaiting, Spin, CheckResult, setToken
<1>11. CASE Daemon
    BY <1>1, <1>11 DEF Daemon, ReplyKey, ReplyResult, ReplyTo, Report, EmitVerdict, EmitVerify, Cancel
<1>12. CASE UNCHANGED vars
    BY <1>1, <1>12 DEF vars
<1> QED
    BY <1>3, <1>4, <1>5, <1>6, <1>7, <1>8, <1>9, <1>10, <1>11, <1>12 DEF Next, pam_sm_authenticate

(* No token thread runs when pam_sm_authenticate returns, though only the  *)
(* last one is joined: a new one is created only when the one before it    *)
(* has exited (clean_auth_data, pam.c:16-43; sfa.c:143-155,                *)
(* mfa.c:120-135).                                                         *)
THEOREM ThreadsGone == Spec => []NoThreadLeft
<1>1. Init => ThreadInv
    BY ThreadInit
<1>2. TypeOK /\ ThreadInv /\ [Next]_vars => ThreadInv'
    BY ThreadStep
<1>3. ThreadInv => NoThreadLeft
    BY DEF ThreadInv
<1> QED
    BY <1>1, <1>2, <1>3, TypeCorrect, PTL DEF Spec
-----------------------------------------------------------------------------
(* While the module works, the order is sorted, every factor before the    *)
(* current one has passed (or the daemon has ended the session), and a     *)
(* Success that is not read yet is one the daemon has counted.             *)
Begun == {"enter", "connect", "onekey", "expiry", "authenticate"}
Fresh == Begun \cup {"props", "limits", "encrypt", "listen", "start"}
Going == {"loop", "process", "setkey"}
Ordered == Going \cup {"limits", "encrypt", "listen", "start"}

Tells(m) == m.code = "Success" /\ m.type \in Factors

Passed(f) == f \in daemon.passed \/ daemon.state = "ended"

InPlace(p) ==
    /\ \A f \in Factors : \E a \in DOMAIN p : p[a] = f
    /\ \A a, b \in DOMAIN p : p[a] = p[b] => a = b
    /\ \A a, b \in DOMAIN p : a < b => priority[p[b]] <= priority[p[a]]

Reached == \E k \in DOMAIN ud.order :
    ud.order[k] = ud.cur /\ \A j \in DOMAIN ud.order : j < k => Passed(ud.order[j])

OrderInv ==
    /\ main \in Begun => daemon.state = "none"
    /\ main \in Fresh => daemon.verifying = {} /\ daemon.passed = {} /\ daemon.failed = {}
    /\ \A i \in DOMAIN inbox : Tells(inbox[i]) => Passed(inbox[i].type)
    /\ ud.isMFA /\ main \in Ordered => InPlace(ud.order)
    /\ ud.isMFA /\ main \in Going => Reached
    /\ FactorsInOrder

(* It holds when pam_sm_authenticate is called.                            *)
LEMMA OrderInit == Init => OrderInv
    BY DEF Init, OrderInv, FactorsInOrder

(* Nothing of the order and of the daemon's factors changes.               *)
Judged(d) == <<d.state, d.verifying, d.passed, d.failed>>
Course(u) == <<u.isMFA, u.order, u.cur>>

Relayed(box, new) == \A i \in DOMAIN new :
    Tells(new[i]) => \E j \in DOMAIN box : box[j] = new[i]

Onward(m, n) == /\ n \in Begun => m \in Begun
                /\ n \in Fresh => m \in Fresh
                /\ n \in Going => m \in Going
                /\ n \in Ordered => m \in Ordered

(* A step that leaves the order and the daemon's factors alone, and brings *)
(* no new Success.                                                         *)
LEMMA OrderFrame ==
    ASSUME OrderInv, Judged(daemon') = Judged(daemon), Course(ud') = Course(ud),
           Relayed(inbox, inbox'), Onward(main, main')
    PROVE  OrderInv'
<1>1. /\ daemon'.state = daemon.state /\ daemon'.verifying = daemon.verifying
      /\ daemon'.passed = daemon.passed /\ daemon'.failed = daemon.failed
    BY DEF Judged
<1>2. ud'.isMFA = ud.isMFA /\ ud'.order = ud.order /\ ud'.cur = ud.cur
    BY DEF Course
<1>3. FactorsInOrder'
    BY <1>1, <1>2 DEF OrderInv, FactorsInOrder
<1>4. \A f : Passed(f)' <=> Passed(f)
    BY <1>1 DEF Passed
<1>5. Reached => Reached'
    BY <1>2, <1>4 DEF Reached
<1>6. ASSUME NEW i \in DOMAIN inbox', Tells(inbox'[i]) PROVE Passed(inbox[i].type)'
  <2>1. PICK j \in DOMAIN inbox : inbox[j] = inbox'[i]
      BY <1>6 DEF Relayed
  <2> QED
      BY <1>4, <1>6, <2>1 DEF OrderInv
<1> QED
    BY <1>1, <1>2, <1>3, <1>5, <1>6 DEF OrderInv, Onward

(* An inbox that does not change, and one that is emptied, bring none.     *)
LEMMA RelayedSame == \A box : Relayed(box, box) /\ Relayed(box, <<>>)
    BY DEF Relayed

(* Neither does taking a message.                                          *)
LEMMA RelayedTail ==
    ASSUME NEW S, NEW box \in Seq(S), box # <<>>
    PROVE  Relayed(box, Tail(box))
<1>1. \A k \in DOMAIN Tail(box) : k + 1 \in DOMAIN box /\ Tail(box)[k] = box[k + 1]
    OBVIOUS
<1> QED
    BY <1>1 DEF Relayed

(* Nor a message of another kind.                                          *)
LEMMA RelayedAppend ==
    ASSUME NEW S, NEW box \in Seq(S), NEW m \in S, ~Tells(m)
    PROVE  Relayed(box, Append(box, m))
<1>1. \A k \in DOMAIN Append(box, m) : Append(box, m)[k] = m \/ (k \in DOMAIN box /\ Append(box, m)[k] = box[k])
    OBVIOUS
<1> QED
    BY <1>1 DEF Relayed

(* A factor is started when those before it have passed (mfa.c:43-75).     *)
LEMMA StartInOrder ==
    ASSUME TypeOK, FactorsInOrder, ud.isMFA, InPlace(ud.order),
           NEW i \in DOMAIN ud.order, NEW d \in Session, NEW box \in Seq(Status \cup Reply),
           d.state = daemon.state, d.passed = daemon.passed, d.failed = daemon.failed,
           d.verifying \subseteq daemon.verifying,
           \A j \in DOMAIN ud.order : j < i => Passed(ud.order[j]),
           \A k \in DOMAIN box : Tells(box[k]) => Passed(box[k].type),
           mfa_start_verify(i, d, box)
    PROVE  /\ FactorsInOrder' /\ Reached' /\ InPlace(ud'.order)
           /\ \A k \in DOMAIN inbox' : Tells(inbox'[k]) => Passed(inbox[k].type)'
<1> DEFINE f == ud.order[i]
<1>0. /\ ud \in UserData /\ daemon \in Session /\ f \in Factors
      /\ i \in Nat /\ \A j \in DOMAIN ud.order : j \in Nat /\ ud.order[j] \in Factors
  <2>1. ud \in UserData /\ daemon \in Session
      BY DEF TypeOK
  <2>2. ud.order \in Seq(Factors)
      BY <2>1 DEF UserData
  <2> QED
      BY <2>1, <2>2
<1>1. ud'.isMFA = ud.isMFA /\ ud'.order = ud.order /\ ud'.cur = f
    BY <1>0 DEF mfa_start_verify, UserData
<1>2. \/ daemon' = Started(d, f) /\ inbox' = Prompted(d, f, box)
      \/ daemon' = d /\ inbox' = box
    BY DEF mfa_start_verify, dbus_method_start
<1>3. /\ daemon'.state = daemon.state /\ daemon'.passed = daemon.passed /\ daemon'.failed = daemon.failed
      /\ \A h \in daemon'.verifying : h \in daemon.verifying \/ (h = f /\ daemon.state = "live")
  <2>1. CASE daemon' = d
      BY <2>1
  <2>2. CASE daemon' = Started(d, f)
    <3>1. \A h \in {g \in Factors : f \in {All, g} /\ ~d.limits[g].locked} : h = f
        BY <1>0, PamAssumption
    <3> QED
        BY <2>2, <3>1 DEF Started, Session
  <2> QED
      BY <1>2, <2>1, <2>2
<1>4. \A h : Passed(h)' <=> Passed(h)
    BY <1>3 DEF Passed
<1>5. FactorsInOrder'
  <2> SUFFICES ASSUME NEW h \in daemon'.verifying \cup daemon'.passed \cup daemon'.failed,
                      NEW g \in Factors, priority[g] > priority[h]
               PROVE  g \in daemon'.passed
      BY DEF FactorsInOrder
  <2>1. CASE h \in daemon.verifying \cup daemon.passed \cup daemon.failed
      BY <1>3, <2>1 DEF FactorsInOrder
  <2>2. CASE h = f /\ daemon.state = "live"
    <3>1. PICK b \in DOMAIN ud.order : ud.order[b] = g
        BY DEF InPlace
    <3>2. priority[g] \in Nat /\ priority[f] \in Nat
        BY <1>0, PamAssumption
    <3>3. b # i /\ ~(i < b)
        BY <2>2, <3>1, <3>2 DEF InPlace
    <3>4. b < i
        BY <1>0, <3>3
    <3> QED
        BY <1>3, <2>2, <3>1, <3>4 DEF Passed
  <2> QED
      BY <1>3, <2>1, <2>2
<1>6. Reached'
    BY <1>1, <1>4 DEF Reached
<1>7. ASSUME NEW k \in DOMAIN inbox', Tells(inbox'[k]) PROVE Passed(inbox[k].type)'
  <2>1. [type |-> f, code |-> "Prompt"] \in Status \cup Reply
      BY <1>0 DEF Status
  <2>2. ~Tells([type |-> f, code |-> "Prompt"])
      BY DEF Tells
  <2>3. Relayed(box, inbox')
      BY <1>2, <2>1, <2>2, RelayedAppend, RelayedSame DEF Prompted
  <2>4. PICK j \in DOMAIN box : box[j] = inbox'[k]
      BY <1>7, <2>3 DEF Relayed
  <2> QED
      BY <1>4, <1>7, <2>4
<1> QED
    BY <1>1, <1>5, <1>6, <1>7

(* Every step keeps the invariant.                                         *)
LEMMA OrderStep ==
    ASSUME TypeOK, OrderInv, [Next]_vars
    PROVE  OrderInv'
<1>0. ud \in UserData /\ daemon \in Session /\ inbox \in Seq(Status \cup Reply) /\ threads \in Seq(Tokens)
    BY DEF TypeOK, Tokens
<1>a. UNCHANGED <<ud, daemon>> => Course(ud') = Course(ud) /\ Judged(daemon') = Judged(daemon)
    OBVIOUS
<1>1. CASE Enter
    BY <1>1, <1>a, OrderFrame, RelayedSame DEF Enter, Onward, Begun, Fresh, Going, Ordered
<1>2. CASE Connect \/ PreOneKeyLogin
  <2>1. Course(ud') = Course(ud)
      BY <1>0, <1>2 DEF Connect, PreOneKeyLogin, UserData, Course
  <2> QED
      BY <1>2, <1>a, <2>1, OrderFrame, RelayedSame
         DEF Connect, PreOneKeyLogin, Judged, Onward, Begun, Fresh, Going, Ordered
<1>3. CASE WarnExpiry
    BY <1>3, <1>a, OrderFrame, RelayedSame DEF WarnExpiry, Onward, Begun, Fresh, Going, Ordered
<1>4. CASE Authenticate
  <2>1. ud'.isMFA = ud.isMFA /\ UNCHANGED inbox
      BY <1>0, <1>4 DEF Authenticate, UserData
  <2>2. daemon.state = "none" /\ daemon.verifying = {} /\ daemon.passed = {} /\ daemon.failed = {}
      BY <1>4 DEF Authenticate, OrderInv, Begun, Fresh
  <2>3. daemon'.verifying = {} /\ daemon'.passed = {} /\ daemon'.failed = {}
      BY <1>0, <1>4, <2>2 DEF Authenticate, Session
  <2>4. main' \in {"props", "finish"}
      BY <1>4 DEF Authenticate, Break
  <2>5. \A i \in DOMAIN inbox : ~Tells(inbox[i])
      BY <2>2 DEF OrderInv, Passed
  <2> QED
      BY <2>1, <2>3, <2>4, <2>5 DEF OrderInv, FactorsInOrder, Begun, Fresh, Going, Ordered
<1>5. CASE get_authctl_property
  <2>1. CASE UNCHANGED ud /\ main' = "done"
      BY <1>5, <1>a, <2>1, OrderFrame, RelayedSame DEF get_authctl_property, Onward, Begun, Fresh, Going, Ordered
  <2>2. ASSUME NEW s \in Listings, main' = "limits", UNCHANGED <<inbox, daemon>>,
               ud' = [ud EXCEPT !.isMFA = daemon.isMFA, !.order = resolve_authctrl_factors(s)]
        PROVE  OrderInv'
    <3>1. ud'.order = resolve_authctrl_factors(s)
        BY <1>0, <2>2 DEF UserData
    <3>2. InPlace(ud'.order)
        BY <3>1, OrderSorted DEF Sorted, InPlace
    <3>3. daemon.verifying = {} /\ daemon.passed = {} /\ daemon.failed = {}
        BY <1>5 DEF get_authctl_property, OrderInv, Fresh
    <3> QED
        BY <2>2, <3>2, <3>3 DEF OrderInv, FactorsInOrder, Passed, Begun, Fresh, Going, Ordered
  <2> QED
      BY <1>5, <2>1, <2>2 DEF get_authctl_property
<1>6. CASE CheckLimits \/ EncryptKey \/ listen_dbus_signal
  <2>1. Course(ud') = Course(ud)
      BY <1>0, <1>6 DEF CheckLimits, EncryptKey, listen_dbus_signal, get_limits_info, UserData, Course
  <2>2. Judged(daemon') = Judged(daemon)
      BY <1>0, <1>6 DEF CheckLimits, EncryptKey, listen_dbus_signal, Session, Judged
  <2>3. UNCHANGED inbox /\ Onward(main, main')
      BY <1>6 DEF CheckLimits, EncryptKey, listen_dbus_signal, Break, Onward, Begun, Fresh, Going, Ordered
  <2> QED
      BY <2>1, <2>2, <2>3, OrderFrame, RelayedSame
<1>7. CASE Start
  <2>1. main = "start" /\ main' \in {"loop", "finish"}
      BY <1>7 DEF Start
  <2>2. CASE ud.isMFA
    <3>1. mfa_start_verify(1, daemon, inbox)
        BY <1>7, <2>2 DEF Start
    <3>2. InPlace(ud.order) /\ FactorsInOrder
        BY <2>1, <2>2 DEF OrderInv, Ordered
    <3>3. 1 \in DOMAIN ud.order /\ \A j \in DOMAIN ud.order : ~(j < 1)
      <4>1. ud.order \in Seq(Factors)
          BY <1>0 DEF UserData
      <4> QED
          BY <3>2, <4>1, PamAssumption DEF InPlace
    <3>4. /\ FactorsInOrder' /\ Reached' /\ InPlace(ud'.order)
          /\ \A k \in DOMAIN inbox' : Tells(inbox'[k]) => Passed(inbox[k].type)'
        BY <1>0, <2>2, <3>1, <3>2, <3>3, StartInOrder DEF OrderInv
    <3> QED
        BY <2>1, <3>4 DEF OrderInv, Begun, Fresh
  <2>3. CASE ~ud.isMFA
    <3>1. sfa_start_verify(daemon, inbox)
        BY <1>7, <2>3 DEF Start
    <3>2. ~ud'.isMFA
        BY <1>0, <2>3, <3>1 DEF sfa_start_verify, UserData
    <3>3. daemon'.state = daemon.state /\ daemon'.passed = daemon.passed
        BY <1>0, <3>1 DEF sfa_start_verify, dbus_method_start, Started, Session
    <3>4. [type |-> All, code |-> "Prompt"] \in Status \cup Reply /\ ~Tells([type |-> All, code |-> "Prompt"])
        BY DEF Status, Tells
    <3>5. Relayed(inbox, inbox')
        BY <1>0, <3>1, <3>4, RelayedAppend, RelayedSame DEF sfa_start_verify, dbus_method_start, Prompted
    <3>6. ASSUME NEW i \in DOMAIN inbox', Tells(inbox'[i]) PROVE Passed(inbox[i].type)'
      <4>1. PICK j \in DOMAIN inbox : inbox[j] = inbox'[i]
          BY <3>5, <3>6 DEF Relayed
      <4> QED
          BY <3>3, <3>6, <4>1 DEF OrderInv, Passed
    <3> QED
        BY <2>1, <3>2, <3>6 DEF OrderInv, FactorsInOrder, Begun, Fresh
  <2> QED
      BY <2>2, <2>3
<1>8. CASE LoopTop \/ Wait \/ BusFails \/ SetSymmetricKey \/ Finish \/ Return
  <2>1. Course(ud') = Course(ud)
      BY <1>0, <1>8 DEF LoopTop, Wait, BusFails, SetSymmetricKey, Finish, Return, UserData, Course
  <2>2. Judged(daemon') = Judged(daemon)
      BY <1>0, <1>8 DEF LoopTop, Wait, BusFails, SetSymmetricKey, Finish, Return, Session, Judged
  <2>3. UNCHANGED inbox /\ Onward(main, main')
      BY <1>8 DEF LoopTop, Wait, BusFails, SetSymmetricKey, Finish, Return, Break,
                  Onward, Begun, Fresh, Going, Ordered
  <2> QED
      BY <2>1, <2>2, <2>3, OrderFrame, RelayedSame
<1>9. CASE call_encryptKey_cb \/ call_getResult_cb
  <2>1. Course(ud') = Course(ud)
      BY <1>0, <1>9 DEF call_encryptKey_cb, call_getResult_cb, UserData, Course
  <2>2. Relayed(inbox, inbox')
      BY <1>0, <1>9, RelayedTail DEF call_encryptKey_cb, call_getResult_cb, Handling
  <2>3. UNCHANGED daemon /\ Onward(main, main')
      BY <1>9 DEF call_encryptKey_cb, call_getResult_cb, Handling, Onward, Begun, Fresh, Going, Ordered
  <2> QED
      BY <1>a, <2>1, <2>2, <2>3, OrderFrame DEF Judged
<1>10. CASE bus_signal_cb
  <2> DEFINE m == Head(inbox)
  <2>1. /\ main = "process" /\ main' = "loop" /\ inbox # <<>>
        /\ Tail(inbox) \in Seq(Status \cup Reply) /\ m = inbox[1] /\ 1 \in DOMAIN inbox
      BY <1>0, <1>10 DEF bus_signal_cb, Handling
  <2>2. Relayed(inbox, Tail(inbox))
      BY <1>0, <2>1, RelayedTail
  <2>3. CASE /\ sfa_signal_deal(m) \/ mfa_signal_deal(m)
             /\ inbox' = Tail(inbox) /\ UNCHANGED daemon
    <3>1. Course(ud') = Course(ud)
        BY <1>0, <2>3 DEF sfa_signal_deal, mfa_signal_deal, Only, Told, StartThread, get_limits_info,
                          UserData, Course
    <3> QED
        BY <2>1, <2>2, <2>3, <3>1, OrderFrame DEF Judged, Onward, Begun, Fresh, Going, Ordered
  <2>4. CASE ud.isMFA /\ NextFactor(m)
    <3> DEFINE d == [daemon EXCEPT !.verifying = @ \ {ud.cur}]
    <3>1. PICK i \in DOMAIN ud.order : ud.order[i] = ud.cur /\ mfa_start_verify(i + 1, d, Tail(inbox))
        BY <2>4 DEF NextFactor
    <3>2. /\ d \in Session /\ d.state = daemon.state /\ d.passed = daemon.passed /\ d.failed = daemon.failed
          /\ d.verifying \subseteq daemon.verifying
        BY <1>0 DEF Session
    <3> HIDE DEF d
    <3>3. InPlace(ud.order) /\ FactorsInOrder /\ Reached
        BY <2>1, <2>4 DEF OrderInv, Ordered, Going
    <3>4. ud.order \in Seq(Factors) /\ ud.order[i] \in Factors
        BY <1>0 DEF UserData
    <3>5. Passed(ud.cur)
        BY <2>1, <2>4, <3>1, <3>4 DEF NextFactor, OrderInv, Tells
    <3>6. PICK k \in DOMAIN ud.order :
            ud.order[k] = ud.cur /\ \A j \in DOMAIN ud.order : j < k => Passed(ud.order[j])
        BY <3>3 DEF Reached
    <3>7. k = i
        BY <3>1, <3>3, <3>6 DEF InPlace
    <3>8. \A j \in DOMAIN ud.order : j < i + 1 => Passed(ud.order[j])
        BY <3>1, <3>4, <3>5, <3>6, <3>7
    <3>9. \A j \in DOMAIN Tail(inbox) : Tells(Tail(inbox)[j]) => Passed(Tail(inbox)[j].type)
        BY <2>2 DEF Relayed, OrderInv
    <3>10. CASE i + 1 \in DOMAIN ud.order
      <4>1. /\ FactorsInOrder' /\ Reached' /\ InPlace(ud'.order)
            /\ \A j \in DOMAIN inbox' : Tells(inbox'[j]) => Passed(inbox[j].type)'
          BY <2>1, <2>4, <3>1, <3>2, <3>3, <3>8, <3>9, <3>10, StartInOrder
      <4> QED
          BY <2>1, <4>1 DEF OrderInv, Begun, Fresh
    <3>11. CASE i + 1 \notin DOMAIN ud.order
      <4>1. UNCHANGED ud /\ daemon' = d /\ inbox' = Tail(inbox)
          BY <3>1, <3>11 DEF mfa_start_verify
      <4>2. FactorsInOrder'
          BY <3>2, <3>3, <4>1 DEF FactorsInOrder
      <4>3. \A f : Passed(f)' <=> Passed(f)
          BY <3>2, <4>1 DEF Passed
      <4>4. Reached'
          BY <3>3, <4>1, <4>3 DEF Reached
      <4>5. \A j \in DOMAIN inbox' : Tells(inbox'[j]) => Passed(inbox[j].type)'
          BY <3>9, <4>1, <4>3
      <4> QED
          BY <2>1, <3>3, <4>1, <4>2, <4>4, <4>5 DEF OrderInv, Begun, Fresh
    <3> QED
        BY <3>10, <3>11
  <2> QED
      BY <1>10, <2>3, <2>4 DEF bus_signal_cb
<1>11. CASE CloseBus \/ pam_clean_func
  <2>1. Course(ud') = Course(ud)
      BY <1>0, <1>11 DEF CloseBus, pam_clean_func, UserData, Course
  <2>2. inbox' = <<>> /\ main' \in {"join", "ended"}
      BY <1>11 DEF CloseBus, pam_clean_func
  <2>3. CASE UNCHANGED daemon
      BY <2>1, <2>2, <2>3, OrderFrame, RelayedSame DEF Judged, Onward, Begun, Fresh, Going, Ordered
  <2>4. CASE daemon' = Ended(daemon)
    <3>1. daemon'.verifying = {} /\ daemon'.passed = {} /\ daemon'.failed = {}
        BY <1>0, <2>4 DEF Ended, Session
    <3> QED
        BY <2>2, <3>1 DEF OrderInv, FactorsInOrder, Begun, Fresh, Going, Ordered
  <2> QED
      BY <1>11, <2>3, <2>4 DEF CloseBus, pam_clean_func, EndSession
<1>12. CASE Join
  <2>1. ud'.isMFA = ud.isMFA /\ UNCHANGED <<inbox, daemon>> /\ main' = "return"
      BY <1>0, <1>12 DEF Join, UserData
  <2> QED
      BY <2>1 DEF OrderInv, FactorsInOrder, Passed, Begun, Fresh, Going, Ordered
<1>13. CASE Cancelled
    BY <1>13, <1>a, OrderFrame, RelayedSame DEF Cancelled, Onward
<1>14. ASSUME NEW i \in DOMAIN threads, Thread(i) PROVE OrderInv'
  <2>1. Course(ud') = Course(ud)
      BY <1>0, <1>14 DEF Thread, Answer, getResult, MarkWaiting, Spin, CheckResult, setToken, UserData, Course
  <2>2. Judged(daemon') = Judged(daemon)
      BY <1>0, <1>14 DEF Thread, Answer, getResult, MarkWaiting, Spin, CheckResult, setToken, SetToken,
                         Session, Judged
  <2>3. UNCHANGED inbox /\ (UNCHANGED main \/ main' = "crashed")
      BY <1>14 DEF Thread, Answer, getResult, MarkWaiting, Spin, CheckResult, setToken
  <2>4. Onward(main, main')
      BY <2>3 DEF Onward, Begun, Fresh, Going, Ordered
  <2> QED
      BY <2>1, <2>2, <2>3, <2>4, OrderFrame, RelayedSame
<1>15. CASE Daemon
  <2>0. UNCHANGED <<main, ud>> /\ Onward(main, main')
      BY <1>15 DEF Daemon, ReplyKey, ReplyResult, ReplyTo, Report, EmitVerdict, EmitVerify, Cancel, Onward
  <2>1. ASSUME Judged(daemon') = Judged(daemon), NEW m \in Status \cup Reply, ~Tells(m), inbox' = inbox \/ Send(m)
        PROVE  OrderInv'
      BY <1>0, <1>a, <2>0, <2>1, OrderFrame, RelayedAppend, RelayedSame DEF Send, Course
  <2>2. ASSUME NEW call \in {"EncryptKey", "GetResult"}, NEW codes, ReplyTo(call, codes),
               \A c \in codes : [type |-> call, code |-> c] \in Reply
        PROVE  OrderInv'
    <3>1. PICK c \in codes : Send([type |-> call, code |-> c])
        BY <2>2 DEF ReplyTo
    <3>2. Judged(daemon') = Judged(daemon)
        BY <1>0, <2>2 DEF ReplyTo, Session, Judged
    <3>3. ~Tells([type |-> call, code |-> c])
        BY PamAssumption DEF Tells
    <3> QED
        BY <2>1, <2>2, <3>1, <3>2, <3>3
  <2>3. CASE ReplyKey \/ ReplyResult
      BY <2>2, <2>3 DEF ReplyKey, ReplyResult, Reply
  <2>4. CASE EmitVerdict
    <3>1. daemon.verdict \in {"Success", "Failure"}
        BY <1>0, <2>4 DEF EmitVerdict, Session
    <3>2. [type |-> All, code |-> daemon.verdict] \in Status /\ ~Tells([type |-> All, code |-> daemon.verdict])
        BY <3>1, PamAssumption DEF Status, Tells
    <3>3. Judged(daemon') = Judged(daemon)
        BY <1>0, <2>4 DEF EmitVerdict, Session, Judged
    <3> QED
        BY <2>1, <2>4, <3>2, <3>3 DEF EmitVerdict
  <2>5. ASSUME NEW f \in Factors, EmitVerify(f) PROVE OrderInv'
    <3>1. PICK c \in VerifyCodes : Send([type |-> f, code |-> c])
        BY <2>5 DEF EmitVerify
    <3>2. [type |-> f, code |-> c] \in Status /\ ~Tells([type |-> f, code |-> c])
        BY PamAssumption DEF Status, Tells
    <3> QED
        BY <1>a, <2>1, <2>5, <3>1, <3>2 DEF EmitVerify
  <2>6. CASE Cancel
    <3>1. /\ daemon.state = "live" /\ daemon'.state = "ended" /\ daemon'.verifying = {}
          /\ daemon'.passed = daemon.passed /\ daemon'.failed = daemon.failed
        BY <1>0, <2>6 DEF Cancel, Session
    <3>2. FactorsInOrder'
        BY <2>0, <3>1 DEF OrderInv, FactorsInOrder
    <3>3. \A f : Passed(f)'
        BY <3>1 DEF Passed
    <3>4. Reached => Reached'
        BY <2>0, <3>3 DEF Reached
    <3> QED
        BY <2>0, <3>1, <3>2, <3>3, <3>4 DEF OrderInv
  <2>7. ASSUME NEW f \in Factors, Report(f) PROVE OrderInv'
    <3>1. PICK ok \in BOOLEAN :
            /\ Send([type |-> f, code |-> IF ok THEN "Success" ELSE "Failure"])
            /\ daemon'.state = daemon.state
            /\ daemon'.verifying = daemon.verifying \ {f}
            /\ daemon'.passed = IF ok THEN daemon.passed \cup {f} ELSE daemon.passed
            /\ daemon'.failed = IF ok THEN daemon.failed ELSE daemon.failed \cup {f}
        BY <1>0, <2>7 DEF Report, Session
    <3>2. daemon.state = "live" /\ f \in daemon.verifying
        BY <2>7 DEF Report
    <3>3. FactorsInOrder'
        BY <2>0, <3>1, <3>2 DEF OrderInv, FactorsInOrder
    <3>4. \A h : Passed(h) => Passed(h)'
        BY <3>1 DEF Passed
    <3>5. Reached => Reached'
        BY <2>0, <3>4 DEF Reached
    <3>6. main \notin Fresh /\ main \notin Begun
        BY <3>2 DEF OrderInv
    <3>7. ASSUME NEW i \in DOMAIN inbox', Tells(inbox'[i]) PROVE Passed(inbox[i].type)'
      <4> DEFINE m == [type |-> f, code |-> IF ok THEN "Success" ELSE "Failure"]
      <4>1. m \in Status
          BY DEF Status
      <4>2. inbox'[i] = m \/ (i \in DOMAIN inbox /\ inbox'[i] = inbox[i])
          BY <1>0, <3>1, <4>1 DEF Send
      <4>3. Tells(m) => Passed(f)'
          BY <3>1 DEF Tells, Passed
      <4>4. m.type = f
          OBVIOUS
      <4> HIDE DEF m
      <4> QED
          BY <3>4, <3>7, <4>2, <4>3, <4>4 DEF OrderInv
    <3> QED
        BY <2>0, <3>3, <3>5, <3>6, <3>7 DEF OrderInv
  <2> QED
      BY <1>15, <2>3, <2>4, <2>5, <2>6, <2>7 DEF Daemon
<1>16. CASE UNCHANGED vars
    BY <1>16, <1>a, OrderFrame, RelayedSame DEF vars, Onward
<1> QED
    BY <1>1, <1>2, <1>3, <1>4, <1>5, <1>6, <1>7, <1>8, <1>9, <1>10, <1>11, <1>12, <1>13, <1>14,
       <1>15, <1>16 DEF Next, pam_sm_authenticate

(* With several factors the daemon is asked to verify one only after every *)
(* factor of a higher priority has passed, for any set of factors, any     *)
(* priorities and any order in which FactorsInfo lists them                *)
(* (utils.c:156-192, mfa.c:43-75).                                         *)
THEOREM HigherFirst == Spec => []FactorsInOrder
<1>1. Init => OrderInv
    BY OrderInit
<1>2. TypeOK /\ OrderInv /\ [Next]_vars => OrderInv'
    BY OrderStep
<1>3. OrderInv => FactorsInOrder
    BY DEF OrderInv
<1> QED
    BY <1>1, <1>2, <1>3, TypeCorrect, PTL DEF Spec
-----------------------------------------------------------------------------
(* What the user is told of a failure is true: the factors that are noted  *)
(* as failed, and those whose Failure is not read yet, have failed in the  *)
(* daemon, and the Failure of the session comes after one of them.         *)
Served == Ordered \cup {"onekey", "expiry", "authenticate", "props"}

Blames(m) == m.code = "Failure" /\ m.type \in Factors
Ends(m) == m.code = "Failure" /\ m.type = All

Blamed(box) == \E j \in DOMAIN box : Blames(box[j])
Accounted(box) == \A k \in DOMAIN box : Ends(box[k]) =>
    \E j \in DOMAIN box : j < k /\ Blames(box[j])

Explained == ud.isMFA \/ ud.failed # <<>> \/
    (Accounted(inbox) /\ (daemon.verdict = "Failure" => Blamed(inbox)))

PromptInv ==
    /\ \A f \in Factors : daemon.limits[f].max = MaxTries
    /\ \A f \in daemon.failed : daemon.limits[f].locked \/ daemon.limits[f].fails < MaxTries
    /\ main \in Served => ud.bus
    /\ main \in Ordered => ud.isMFA = daemon.isMFA
    /\ main \in Fresh =>
          /\ daemon.verdict = "none" /\ ud.failed = <<>>
          /\ \A k \in DOMAIN inbox : inbox[k].code # "Failure"
    /\ main \in Going =>
          /\ \A k \in DOMAIN ud.failed : ud.failed[k] \in daemon.failed
          /\ \A k \in DOMAIN inbox : Blames(inbox[k]) => inbox[k].type \in daemon.failed
          /\ Explained
    /\ main = "process" => ud.shown = Nothing

(* It holds when pam_sm_authenticate is called.                            *)
LEMMA PromptInit == Init => PromptInv
    BY DEF Init, PromptInv, Served, Fresh, Begun, Ordered, Going

(* No Failure is lost that explains another, and none comes.               *)
Mild(box, new) ==
    /\ Accounted(box) => Accounted(new)
    /\ Blamed(box) => Blamed(new)
    /\ \A k \in DOMAIN new : new[k].code = "Failure" => \E j \in DOMAIN box : box[j] = new[k]

(* An inbox that stays as it is.                                           *)
LEMMA MildSame == \A box : Mild(box, box)
    BY DEF Mild

(* A message that names no factor is taken.                                *)
LEMMA MildTail ==
    ASSUME NEW S, NEW box \in Seq(S), box # <<>>, ~Blames(Head(box))
    PROVE  Mild(box, Tail(box))
<1>1. \A k \in DOMAIN Tail(box) : k \in Int /\ k + 1 \in DOMAIN box /\ Tail(box)[k] = box[k + 1]
    OBVIOUS
<1>2. \A j \in DOMAIN box : j \in Int /\ (j = 1 \/ (j - 1 \in DOMAIN Tail(box) /\ Tail(box)[j - 1] = box[j]))
    OBVIOUS
<1>3. ~Blames(box[1])
    OBVIOUS
<1>4. Blamed(box) => Blamed(Tail(box))
  <2> SUFFICES ASSUME NEW j \in DOMAIN box, Blames(box[j])
               PROVE  Blamed(Tail(box))
      BY DEF Blamed
  <2> QED
      BY <1>2, <1>3 DEF Blamed
<1>5. ASSUME Accounted(box), NEW k \in DOMAIN Tail(box), Ends(Tail(box)[k])
      PROVE  \E j \in DOMAIN Tail(box) : j < k /\ Blames(Tail(box)[j])
  <2>1. PICK j \in DOMAIN box : j < k + 1 /\ Blames(box[j])
      BY <1>1, <1>5 DEF Accounted
  <2>2. j - 1 \in DOMAIN Tail(box) /\ Tail(box)[j - 1] = box[j]
      BY <1>2, <1>3, <2>1
  <2>3. j - 1 < k
      BY <1>1, <1>2, <2>1
  <2> QED
      BY <2>1, <2>2, <2>3
<1> QED
    BY <1>1, <1>4, <1>5 DEF Mild, Accounted

(* A message comes at the end.                                             *)
LEMMA AppendAccounted ==
    ASSUME NEW S, NEW box \in Seq(S), NEW m \in S
    PROVE  /\ Blamed(box) \/ Blames(m) => Blamed(Append(box, m))
           /\ Accounted(box) /\ (Ends(m) => Blamed(box)) => Accounted(Append(box, m))
           /\ \A k \in DOMAIN Append(box, m) :
                 Append(box, m)[k] = m \/ (k \in DOMAIN box /\ Append(box, m)[k] = box[k])
<1> DEFINE new == Append(box, m)
<1>1. /\ \A k \in DOMAIN new : k \in Int /\ (k = Len(box) + 1 \/ k \in DOMAIN box)
      /\ \A k \in DOMAIN box : k \in DOMAIN new /\ new[k] = box[k] /\ k < Len(box) + 1
      /\ Len(box) + 1 \in DOMAIN new /\ new[Len(box) + 1] = m
    OBVIOUS
<1> HIDE DEF new
<1>2. Blamed(box) \/ Blames(m) => Blamed(new)
    BY <1>1 DEF Blamed
<1>3. ASSUME Accounted(box), Ends(m) => Blamed(box), NEW k \in DOMAIN new, Ends(new[k])
      PROVE  \E j \in DOMAIN new : j < k /\ Blames(new[j])
  <2>1. CASE k \in DOMAIN box
      BY <1>1, <1>3, <2>1 DEF Accounted
  <2>2. CASE k = Len(box) + 1
      BY <1>1, <1>3, <2>2 DEF Blamed
  <2> QED
      BY <1>1, <2>1, <2>2
<1>4. \A k \in DOMAIN new : new[k] = m \/ (k \in DOMAIN box /\ new[k] = box[k])
    BY <1>1
<1> QED
    BY <1>2, <1>3, <1>4 DEF new, Accounted

(* A message that is no Failure comes.                                     *)
LEMMA MildAppend ==
    ASSUME NEW S, NEW box \in Seq(S), NEW m \in S, m.code # "Failure"
    PROVE  Mild(box, Append(box, m))
<1>1. ~Ends(m)
    BY DEF Ends
<1> QED
    BY <1>1, AppendAccounted DEF Mild

(* A step that counts no failure, and brings none.                         *)
Counted(d) == <<d.limits, d.failed, d.isMFA>>
Noted(u) == <<u.isMFA, u.failed>>

(* Such a step keeps the invariant.                                        *)
LEMMA PromptFrame ==
    ASSUME PromptInv, Counted(daemon') = Counted(daemon), daemon'.verdict \in {daemon.verdict, "none"},
           Noted(ud') = Noted(ud), main' \in Served => main \in Served /\ ud'.bus = ud.bus,
           Mild(inbox, inbox') \/ main' \notin Fresh \cup Going, Onward(main, main'),
           main' = "process" => ud'.shown = Nothing
    PROVE  PromptInv'
<1>1. daemon'.limits = daemon.limits /\ daemon'.failed = daemon.failed /\ daemon'.isMFA = daemon.isMFA
    BY DEF Counted
<1>2. ud'.isMFA = ud.isMFA /\ ud'.failed = ud.failed
    BY DEF Noted
<1>3. /\ main' \in Fresh => main \in Fresh
      /\ main' \in Going => main \in Going
      /\ main' \in Ordered => main \in Ordered
    BY DEF Onward
<1>4. ASSUME main' \in Fresh
      PROVE  /\ daemon'.verdict = "none" /\ ud'.failed = <<>>
             /\ \A k \in DOMAIN inbox' : inbox'[k].code # "Failure"
    BY <1>2, <1>3, <1>4 DEF PromptInv, Mild
<1>5. ASSUME main' \in Going
      PROVE  /\ \A k \in DOMAIN ud'.failed : ud'.failed[k] \in daemon'.failed
             /\ \A k \in DOMAIN inbox' : Blames(inbox'[k]) => inbox'[k].type \in daemon'.failed
             /\ Explained'
  <2>1. Mild(inbox, inbox')
      BY <1>5
  <2>2. main \in Going
      BY <1>3, <1>5
  <2>3. \A k \in DOMAIN inbox' : Blames(inbox'[k]) => inbox'[k].type \in daemon'.failed
      BY <1>1, <2>1, <2>2 DEF PromptInv, Mild, Blames
  <2>4. Explained'
      BY <1>2, <2>1, <2>2 DEF PromptInv, Mild, Explained, Accounted, Blamed, Blames, Ends
  <2> QED
      BY <1>1, <1>2, <2>2, <2>3, <2>4 DEF PromptInv
<1> QED
    BY <1>1, <1>2, <1>3, <1>4, <1>5 DEF PromptInv, Blames

(* Two such changes of the inbox, one after the other.                     *)
LEMMA MildTransitive ==
    ASSUME NEW box, NEW mid, NEW new, Mild(box, mid), Mild(mid, new)
    PROVE  Mild(box, new)
<1>1. \A k \in DOMAIN new : new[k].code = "Failure" => \E j \in DOMAIN box : box[j] = new[k]
  <2> SUFFICES ASSUME NEW k \in DOMAIN new, new[k].code = "Failure"
               PROVE  \E j \in DOMAIN box : box[j] = new[k]
      OBVIOUS
  <2>1. PICK i \in DOMAIN mid : mid[i] = new[k]
      BY DEF Mild
  <2> QED
      BY <2>1 DEF Mild
<1> QED
    BY <1>1 DEF Mild

(* Asking the daemon to verify counts nothing.                             *)
LEMMA StartMild ==
    ASSUME TypeOK, NEW d \in Session, NEW box \in Seq(Status \cup Reply),
           \/ sfa_start_verify(d, box)
           \/ \E i : (i \in DOMAIN ud.order => ud.order[i] \in Factors \cup {All}) /\ mfa_start_verify(i, d, box)
    PROVE  /\ Counted(daemon') = Counted(d) /\ daemon'.verdict = d.verdict
           /\ Noted(ud') = Noted(ud) /\ ud'.bus = ud.bus
           /\ Mild(box, inbox')
<1>1. ud \in UserData
    BY DEF TypeOK
<1>2. ASSUME NEW t \in Factors \cup {All}, dbus_method_start(t, d, box)
      PROVE  Counted(daemon') = Counted(d) /\ daemon'.verdict = d.verdict /\ Mild(box, inbox')
  <2>1. Counted(Started(d, t)) = Counted(d) /\ Started(d, t).verdict = d.verdict
      BY DEF Started, Session, Counted
  <2>2. [type |-> t, code |-> "Prompt"] \in Status \cup Reply
      BY DEF Status
  <2>3. Mild(box, Append(box, [type |-> t, code |-> "Prompt"]))
      BY <2>2, MildAppend
  <2> QED
      BY <1>2, <2>1, <2>3, MildSame DEF dbus_method_start, Prompted
<1>3. CASE sfa_start_verify(d, box)
  <2>1. Noted(ud') = Noted(ud) /\ ud'.bus = ud.bus
      BY <1>1, <1>3 DEF sfa_start_verify, UserData, Noted
  <2> QED
      BY <1>2, <1>3, <2>1 DEF sfa_start_verify
<1>4. ASSUME NEW i, i \in DOMAIN ud.order => ud.order[i] \in Factors \cup {All}, mfa_start_verify(i, d, box)
      PROVE  /\ Counted(daemon') = Counted(d) /\ daemon'.verdict = d.verdict
             /\ Noted(ud') = Noted(ud) /\ ud'.bus = ud.bus
             /\ Mild(box, inbox')
  <2>1. Noted(ud') = Noted(ud) /\ ud'.bus = ud.bus
      BY <1>1, <1>4 DEF mfa_start_verify, UserData, Noted
  <2>2. CASE i \in DOMAIN ud.order
      BY <1>2, <1>4, <2>1, <2>2 DEF mfa_start_verify
  <2>3. CASE i \notin DOMAIN ud.order
      BY <1>4, <2>1, <2>3, MildSame DEF mfa_start_verify
  <2> QED
      BY <2>2, <2>3
<1> QED
    BY <1>3, <1>4

(* A status of the daemon is handled (sfa.c, mfa.c).                       *)
LEMMA PromptDeal ==
    ASSUME TypeOK, OrderInv, PromptInv, bus_signal_cb
    PROVE  PromptInv'
<1> DEFINE m == Head(inbox)
<1>0. ud \in UserData /\ daemon \in Session /\ inbox \in Seq(Status \cup Reply)
    BY DEF TypeOK
<1>1. /\ main = "process" /\ main' = "loop" /\ inbox # <<>>
      /\ Tail(inbox) \in Seq(Status \cup Reply) /\ m = inbox[1] /\ 1 \in DOMAIN inbox
      /\ m.type \in Factors \cup {All}
    BY <1>0 DEF bus_signal_cb, Handling
<1>2. /\ Onward(main, main') /\ (main' \in Served => main \in Served) /\ main \in Going
      /\ main \in Ordered /\ main' \notin Fresh
    BY <1>1 DEF Onward, Begun, Fresh, Going, Ordered, Served
<1>3. ~Blames(m) => Mild(inbox, Tail(inbox))
    BY <1>0, <1>1, MildTail
<1> HIDE DEF m
<1>4. ASSUME ~Blames(m), Noted(ud') = Noted(ud), ud'.bus = ud.bus, inbox' = Tail(inbox), UNCHANGED daemon
      PROVE  PromptInv'
    BY <1>1, <1>2, <1>3, <1>4, PromptFrame
<1>5. ASSUME Blames(m), ud.isMFA \/ ud'.failed # <<>>, ud'.isMFA = ud.isMFA, ud'.bus = ud.bus,
             inbox' = Tail(inbox), UNCHANGED daemon,
             \A k \in DOMAIN ud'.failed : ud'.failed[k] = m.type \/
                 (k \in DOMAIN ud.failed /\ ud'.failed[k] = ud.failed[k])
      PROVE  PromptInv'
  <2>1. m.type \in daemon.failed
      BY <1>1, <1>2, <1>5 DEF PromptInv
  <2>2. \A k \in DOMAIN ud'.failed : ud'.failed[k] \in daemon.failed
      BY <1>2, <1>5, <2>1 DEF PromptInv
  <2>3. \A k \in DOMAIN Tail(inbox) : k + 1 \in DOMAIN inbox /\ Tail(inbox)[k] = inbox[k + 1]
      BY <1>0, <1>1
  <2>4. \A k \in DOMAIN inbox' : Blames(inbox'[k]) => inbox'[k].type \in daemon.failed
      BY <1>2, <1>5, <2>3 DEF PromptInv
  <2>5. Explained'
      BY <1>5 DEF Explained
  <2> QED
      BY <1>1, <1>2, <1>5, <2>2, <2>4, <2>5 DEF PromptInv, Blames
<1>6. CASE /\ ~ud.isMFA /\ sfa_signal_deal(m) /\ inbox' = Tail(inbox) /\ UNCHANGED daemon
  <2>1. CASE Blames(m)
    <3>1. ud' = [ud EXCEPT !.failed = Append(ud.failed, m.type)] /\ m.type \in Factors
        BY <1>6, <2>1, PamAssumption DEF sfa_signal_deal, Blames
    <3>2. ud'.failed = Append(ud.failed, m.type) /\ ud'.isMFA = ud.isMFA /\ ud'.bus = ud.bus
        BY <1>0, <3>1 DEF UserData
    <3>3. ud.failed \in Seq(Factors)
        BY <1>0 DEF UserData
    <3>4. /\ ud'.failed # <<>>
          /\ \A k \in DOMAIN ud'.failed : ud'.failed[k] = m.type \/
                 (k \in DOMAIN ud.failed /\ ud'.failed[k] = ud.failed[k])
        BY <3>1, <3>2, <3>3
    <3> QED
        BY <1>5, <1>6, <2>1, <3>2, <3>4
  <2>2. CASE ~Blames(m)
    <3>1. m.code = "Failure" => m.type = All
        BY <1>1, <2>2 DEF Blames
    <3>2. \/ UNCHANGED ud
          \/ \E ok \in BOOLEAN : ud' = [get_limits_info(ud, ok) EXCEPT !.shown = FailureText(get_limits_info(ud, ok))]
          \/ ud' = Told(resolve_verify_msg(m.code), m.type)
        BY <1>6, <3>1 DEF sfa_signal_deal, Only, StartThread
    <3>3. ASSUME NEW x, ud' = [ud EXCEPT !.shown = x] \/ ud' = [ud EXCEPT !.limits = daemon.limits, !.shown = x]
          PROVE  Noted(ud') = Noted(ud) /\ ud'.bus = ud.bus
        BY <1>0, <3>3 DEF UserData, Noted
    <3>4. Noted(ud') = Noted(ud) /\ ud'.bus = ud.bus
      <4>1. ASSUME NEW ok \in BOOLEAN, NEW x, ud' = [get_limits_info(ud, ok) EXCEPT !.shown = x]
            PROVE  Noted(ud') = Noted(ud) /\ ud'.bus = ud.bus
          BY <1>0, <4>1 DEF get_limits_info, UserData, Noted
      <4>2. CASE UNCHANGED ud
          BY <4>2 DEF Noted
      <4>3. CASE ud' = Told(resolve_verify_msg(m.code), m.type)
        <5> DEFINE x == [text |-> resolve_verify_msg(m.code), type |-> m.type, left |-> 0]
        <5>1. ud' = [ud EXCEPT !.shown = x]
            BY <4>3 DEF Told
        <5> HIDE DEF x
        <5> QED
            BY <3>3, <5>1
      <4> QED
          BY <3>2, <4>1, <4>2, <4>3
    <3> QED
        BY <1>4, <1>6, <2>2, <3>4
  <2> QED
      BY <2>1, <2>2
<1>7. CASE ud.isMFA /\ mfa_signal_deal(m) /\ inbox' = Tail(inbox) /\ UNCHANGED daemon
  <2>1. ud'.failed = ud.failed /\ ud'.isMFA = ud.isMFA /\ ud'.bus = ud.bus
      BY <1>0, <1>7 DEF mfa_signal_deal, Only, Told, StartThread, UserData
  <2> QED
      BY <1>4, <1>5, <1>7, <2>1 DEF Noted
<1>8. CASE ud.isMFA /\ NextFactor(m)
  <2> DEFINE d == [daemon EXCEPT !.verifying = @ \ {ud.cur}]
  <2>1. PICK i \in DOMAIN ud.order : mfa_start_verify(i + 1, d, Tail(inbox))
      BY <1>8 DEF NextFactor
  <2>2. d \in Session /\ Counted(d) = Counted(daemon) /\ d.verdict = daemon.verdict
      BY <1>0 DEF Session, Counted
  <2> HIDE DEF d
  <2>3. m.code # "Failure"
      BY <1>8 DEF NextFactor
  <2>4. Mild(inbox, Tail(inbox))
      BY <1>3, <2>3 DEF Blames
  <2>5. i + 1 \in DOMAIN ud.order => ud.order[i + 1] \in Factors \cup {All}
      BY <1>0 DEF UserData
  <2>6. /\ Counted(daemon') = Counted(daemon) /\ daemon'.verdict = daemon.verdict
        /\ Noted(ud') = Noted(ud) /\ ud'.bus = ud.bus
        /\ Mild(Tail(inbox), inbox')
      BY <1>0, <1>1, <2>1, <2>2, <2>5, StartMild
  <2>7. Mild(inbox, inbox')
      BY <2>4, <2>6, MildTransitive
  <2> QED
      BY <1>1, <1>2, <2>6, <2>7, PromptFrame
<1> QED
    BY <1>6, <1>7, <1>8 DEF bus_signal_cb, m

(* A factor has failed, or passed, and the session may be decided.         *)
LEMMA PromptReport ==
    ASSUME TypeOK, OrderInv, PromptInv, NEW f \in Factors, Report(f)
    PROVE  PromptInv'
<1>0. ud \in UserData /\ daemon \in Session /\ inbox \in Seq(Status \cup Reply) /\ UNCHANGED <<main, ud>>
    BY DEF TypeOK, Report
<1>1. PICK ok \in BOOLEAN :
        /\ Send([type |-> f, code |-> IF ok THEN "Success" ELSE "Failure"])
        /\ LET d == [daemon EXCEPT !.verifying = @ \ {f},
                                   !.passed = IF ok THEN @ \cup {f} ELSE @,
                                   !.failed = IF ok THEN @ ELSE @ \cup {f},
                                   !.limits[f] = Charged(@, ok)]
           IN  \E v \in Verdicts(d) : daemon' = [d EXCEPT !.verdict = v]
    BY Zenon DEF Report
<1> DEFINE l == daemon.limits[f]
           d == [daemon EXCEPT !.verifying = @ \ {f},
                               !.passed = IF ok THEN @ \cup {f} ELSE @,
                               !.failed = IF ok THEN @ ELSE @ \cup {f},
                               !.limits[f] = Charged(@, ok)]
           m == [type |-> f, code |-> IF ok THEN "Success" ELSE "Failure"]
<1>2. /\ d.failed = IF ok THEN daemon.failed ELSE daemon.failed \cup {f}
      /\ d.limits = [daemon.limits EXCEPT ![f] = Charged(l, ok)]
      /\ d.isMFA = daemon.isMFA
      /\ ok => d.passed # {}
      /\ DOMAIN d = DOMAIN daemon /\ "verdict" \in DOMAIN d
    BY <1>0 DEF Session
<1>3. PICK v \in Verdicts(d) : daemon' = [d EXCEPT !.verdict = v]
    BY Zenon, <1>1
<1>4. ok => d.isMFA \/ v = "Success"
    BY <1>2, <1>3 DEF Verdicts
<1> HIDE DEF d
<1>5. /\ daemon'.failed = d.failed /\ daemon'.limits = d.limits /\ daemon'.isMFA = daemon.isMFA
      /\ daemon'.verdict = v
    BY <1>2, <1>3 DEF Session
<1>6. l \in Limit /\ MaxTries \in Nat /\ daemon.limits \in [Factors -> Limit]
    BY <1>0, PamAssumption DEF Session
<1>7. /\ Charged(l, ok).max = l.max
      /\ Charged(l, ok).locked \/ Charged(l, ok).fails < MaxTries
  <2> DEFINE n == IF ok THEN l.fails ELSE l.fails + 1
  <2>1. n \in Nat /\ (n >= MaxTries \/ n < MaxTries)
      BY <1>6 DEF Limit
  <2>2. Charged(l, ok) = [l EXCEPT !.fails = n, !.locked = l.locked \/ n >= MaxTries]
      BY DEF Charged
  <2> HIDE DEF n
  <2>3. DOMAIN l = {"max", "fails", "locked"}
      BY <1>6 DEF Limit
  <2>4. /\ Charged(l, ok).max = l.max /\ Charged(l, ok).fails = n
        /\ Charged(l, ok).locked = (l.locked \/ n >= MaxTries)
      BY <1>6, <2>2, <2>3 DEF Limit
  <2> QED
      BY <2>1, <2>4
<1>8. \A g \in Factors : daemon'.limits[g] = IF g = f THEN Charged(l, ok) ELSE daemon.limits[g]
    BY <1>2, <1>5, <1>6
<1> HIDE DEF l
<1>9. \A g \in Factors : daemon'.limits[g].max = MaxTries
    BY <1>7, <1>8 DEF PromptInv, l
<1>10. \A g \in daemon'.failed : daemon'.limits[g].locked \/ daemon'.limits[g].fails < MaxTries
  <2>1. daemon'.failed \subseteq daemon.failed \cup {f} /\ daemon.failed \subseteq Factors
      BY <1>0, <1>2, <1>5 DEF Session
  <2> QED
      BY <1>7, <1>8, <2>1 DEF PromptInv
<1>11. main \notin Fresh
    BY DEF OrderInv, Report
<1>12. ASSUME main \in Going
       PROVE  /\ \A k \in DOMAIN ud.failed : ud.failed[k] \in daemon'.failed
              /\ \A k \in DOMAIN inbox' : Blames(inbox'[k]) => inbox'[k].type \in daemon'.failed
              /\ Explained'
  <2>1. ud.bus /\ ud.isMFA = daemon.isMFA
      BY <1>12 DEF PromptInv, Served, Ordered
  <2>2. daemon.failed \subseteq daemon'.failed /\ (~ok => f \in daemon'.failed)
      BY <1>2, <1>5
  <2>3. m \in Status \cup Reply /\ m.type = f /\ ~Ends(m) /\ (Blames(m) <=> ~ok)
      BY PamAssumption DEF Status, Ends, Blames
  <2>4. inbox' = Append(inbox, m)
      BY <1>1, <2>1 DEF Send
  <2> HIDE DEF m
  <2>5. /\ Blamed(inbox) \/ Blames(m) => Blamed(inbox')
        /\ Accounted(inbox) => Accounted(inbox')
        /\ \A k \in DOMAIN inbox' : inbox'[k] = m \/ (k \in DOMAIN inbox /\ inbox'[k] = inbox[k])
      BY <1>0, <2>3, <2>4, AppendAccounted
  <2>6. \A k \in DOMAIN inbox' : Blames(inbox'[k]) => inbox'[k].type \in daemon'.failed
      BY <1>12, <2>2, <2>3, <2>5 DEF PromptInv
  <2>7. ud.isMFA \/ ud.failed # <<>> \/ Accounted(inbox)
      BY <1>12 DEF PromptInv, Explained
  <2>8. ud.isMFA \/ (v = "Failure" => Blamed(inbox'))
      BY <1>2, <1>4, <2>1, <2>3, <2>5
  <2>9. Explained'
      BY <1>0, <1>5, <2>5, <2>7, <2>8 DEF Explained, Accounted, Blamed, Blames, Ends
  <2> QED
      BY <1>12, <2>2, <2>6, <2>9 DEF PromptInv
<1> QED
    BY <1>0, <1>5, <1>9, <1>10, <1>11, <1>12 DEF PromptInv, Blames

(* The daemon tells the verdict.                                           *)
LEMMA PromptVerdict ==
    ASSUME TypeOK, PromptInv, EmitVerdict
    PROVE  PromptInv'
<1> DEFINE m == [type |-> All, code |-> daemon.verdict]
<1>0. ud \in UserData /\ daemon \in Session /\ inbox \in Seq(Status \cup Reply) /\ UNCHANGED <<main, ud>>
    BY DEF TypeOK, EmitVerdict
<1>1. daemon.verdict \in {"Success", "Failure"} /\ Send(m)
    BY <1>0 DEF EmitVerdict, Session
<1>2. /\ Counted(daemon') = Counted(daemon) /\ daemon'.verdict = "none"
      /\ daemon'.limits = daemon.limits /\ daemon'.failed = daemon.failed /\ daemon'.isMFA = daemon.isMFA
    BY <1>0 DEF EmitVerdict, Session, Counted
<1>3. m \in Status \cup Reply /\ ~Blames(m) /\ (Ends(m) => daemon.verdict = "Failure")
    BY <1>1, PamAssumption DEF Status, Blames, Ends
<1>4. main \notin Fresh
    BY <1>1 DEF PromptInv
<1>5. ASSUME main \in Going
      PROVE  /\ \A k \in DOMAIN inbox' : Blames(inbox'[k]) => inbox'[k].type \in daemon.failed
             /\ Explained'
  <2>1. inbox' = Append(inbox, m)
      BY <1>1, <1>5 DEF Send, PromptInv, Served, Ordered
  <2> HIDE DEF m
  <2>2. /\ Accounted(inbox) /\ (Ends(m) => Blamed(inbox)) => Accounted(inbox')
        /\ \A k \in DOMAIN inbox' : inbox'[k] = m \/ (k \in DOMAIN inbox /\ inbox'[k] = inbox[k])
      BY <1>0, <1>3, <2>1, AppendAccounted
  <2>3. ud.isMFA \/ ud.failed # <<>> \/ Accounted(inbox')
      BY <1>3, <1>5, <2>2 DEF PromptInv, Explained
  <2>4. Explained'
      BY <1>0, <1>2, <2>3 DEF Explained, Accounted, Blames, Ends
  <2> QED
      BY <1>3, <1>5, <2>2, <2>4 DEF PromptInv
<1> QED
    BY <1>0, <1>2, <1>4, <1>5 DEF PromptInv, Blames

(* Every step keeps the invariant.                                         *)
LEMMA PromptStep ==
    ASSUME TypeOK, OrderInv, PromptInv, [Next]_vars
    PROVE  PromptInv'
<1>0. ud \in UserData /\ daemon \in Session /\ inbox \in Seq(Status \cup Reply)
    BY DEF TypeOK
<1>1. CASE Connect
  <2>1. Noted(ud') = Noted(ud) /\ (main' = "onekey" => ud'.bus)
      BY <1>0, <1>1 DEF Connect, UserData, Noted
  <2>2. main = "enter" \/ main = "connect"
      BY <1>1 DEF Connect
  <2>3. main' \in {"onekey", "finish"} /\ UNCHANGED <<inbox, daemon>>
      BY <1>1 DEF Connect
  <2> QED
      BY <2>1, <2>2, <2>3 DEF PromptInv, Noted, Served, Ordered, Fresh, Begun, Going
<1>2. CASE Authenticate
  <2>1. main = "authenticate" /\ main' \in {"props", "finish"} /\ UNCHANGED inbox
    <3>1. main' \in {"props", "finish"}
        BY <1>2 DEF Authenticate, Break
    <3> QED
        BY <1>2, <3>1 DEF Authenticate
  <2>2. UNCHANGED ud \/ ud' = [ud EXCEPT !.path = "session"]
      BY Zenon, <1>2 DEF Authenticate
  <2>3. Noted(ud') = Noted(ud) /\ ud'.bus = ud.bus
      BY <1>0, <2>2 DEF UserData, Noted
  <2>4. UNCHANGED daemon \/ \E k \in Kinds : daemon' = [daemon EXCEPT !.state = "live", !.isMFA = k]
      BY Zenon, <1>2 DEF Authenticate
  <2>5. daemon'.limits = daemon.limits /\ daemon'.failed = daemon.failed /\ daemon'.verdict = daemon.verdict
      BY <1>0, <2>4 DEF Session
  <2> QED
      BY <2>1, <2>3, <2>5 DEF PromptInv, Noted, Served, Ordered, Fresh, Begun, Going
<1>3. CASE get_authctl_property
  <2>1. main = "props" /\ UNCHANGED <<inbox, daemon>>
      BY <1>3 DEF get_authctl_property
  <2>2. ud'.failed = ud.failed /\ ud'.bus = ud.bus /\ main' \in {"limits", "done"}
        /\ (main' = "limits" => ud'.isMFA = daemon.isMFA)
    <3>1. CASE UNCHANGED ud /\ main' = "done"
        BY <3>1
    <3>2. ASSUME NEW s \in Listings, main' = "limits",
                 ud' = [ud EXCEPT !.isMFA = daemon.isMFA, !.order = resolve_authctrl_factors(s)]
          PROVE  ud'.failed = ud.failed /\ ud'.bus = ud.bus /\ ud'.isMFA = daemon.isMFA
      <4> DEFINE x == resolve_authctrl_factors(s)
      <4>1. ud' = [ud EXCEPT !.isMFA = daemon.isMFA, !.order = x]
          BY <3>2
      <4> HIDE DEF x
      <4> QED
          BY <1>0, <4>1 DEF UserData
    <3> QED
        BY Zenon, <1>3, <3>1, <3>2 DEF get_authctl_property
  <2> QED
      BY <2>1, <2>2 DEF PromptInv, Served, Ordered, Fresh, Begun, Going
<1>4. CASE \/ Enter \/ PreOneKeyLogin \/ WarnExpiry \/ CheckLimits \/ EncryptKey \/ listen_dbus_signal
           \/ Wait \/ BusFails \/ SetSymmetricKey \/ Finish \/ Return \/ Join
  <2>1. UNCHANGED inbox
      BY <1>4 DEF Enter, PreOneKeyLogin, WarnExpiry, CheckLimits, EncryptKey, listen_dbus_signal, Wait,
                  BusFails, SetSymmetricKey, Finish, Return, Join
  <2>2. /\ Onward(main, main') /\ main' # "process"
        /\ main' \in Served => main \in Served \cup {"connect"}
        /\ main' \in Served => main \in Served
      BY <1>4 DEF Enter, PreOneKeyLogin, WarnExpiry, CheckLimits, EncryptKey, listen_dbus_signal, Wait,
                  BusFails, SetSymmetricKey, Finish, Return, Join, Break, Onward, Begun, Fresh, Going,
                  Ordered, Served
  <2>3. Noted(ud') = Noted(ud) /\ ud'.bus = ud.bus
      BY <1>0, <1>4 DEF Enter, PreOneKeyLogin, WarnExpiry, CheckLimits, EncryptKey, listen_dbus_signal,
                  Wait, BusFails, SetSymmetricKey, Finish, Return, Join, get_limits_info, UserData, Noted
  <2>4. Counted(daemon') = Counted(daemon) /\ daemon'.verdict = daemon.verdict
      BY <1>0, <1>4 DEF Enter, PreOneKeyLogin, WarnExpiry, CheckLimits, EncryptKey, listen_dbus_signal,
                  Wait, BusFails, SetSymmetricKey, Finish, Return, Join, Session, Counted
  <2> QED
      BY <2>1, <2>2, <2>3, <2>4, MildSame, PromptFrame
<1>5. CASE Start
  <2>1. main = "start" /\ main' \in {"loop", "finish"}
      BY <1>5 DEF Start
  <2>2. ud.order \in Seq(Factors)
      BY <1>0 DEF UserData
  <2>3. /\ Counted(daemon') = Counted(daemon) /\ daemon'.verdict = daemon.verdict
        /\ Noted(ud') = Noted(ud) /\ ud'.bus = ud.bus
        /\ Mild(inbox, inbox')
    <3>1. 1 \in DOMAIN ud.order => ud.order[1] \in Factors \cup {All}
        BY <2>2
    <3>2. sfa_start_verify(daemon, inbox) \/ mfa_start_verify(1, daemon, inbox)
        BY <1>5 DEF Start
    <3> QED
        BY <1>0, <3>1, <3>2, StartMild
  <2>4. /\ daemon'.limits = daemon.limits /\ daemon'.failed = daemon.failed
        /\ daemon'.isMFA = daemon.isMFA /\ ud'.isMFA = ud.isMFA /\ ud'.failed = ud.failed
      BY <2>3 DEF Counted, Noted
  <2>5. main \in Fresh /\ main \in Ordered /\ main \in Served /\ main' \notin Fresh
      BY <2>1 DEF Fresh, Begun, Ordered, Served
  <2>6. ud.failed = <<>> /\ daemon.verdict = "none" /\ \A k \in DOMAIN inbox' : inbox'[k].code # "Failure"
      BY <2>3, <2>5 DEF PromptInv, Mild
  <2>7. Accounted(inbox') /\ \A k \in DOMAIN inbox' : ~Blames(inbox'[k])
      BY <2>6 DEF Accounted, Ends, Blames
  <2>8. Explained'
      BY <2>3, <2>6, <2>7 DEF Explained, Accounted, Ends, Blames
  <2> QED
      BY <2>1, <2>3, <2>4, <2>5, <2>6, <2>7, <2>8 DEF PromptInv, Blames
<1>6. CASE LoopTop
  <2>1. Noted(ud') = Noted(ud) /\ ud'.bus = ud.bus /\ ud'.shown = Nothing
      BY <1>0, <1>6 DEF LoopTop, UserData, Noted
  <2>2. Onward(main, main') /\ (main' \in Served => main \in Served) /\ UNCHANGED <<inbox, daemon>>
      BY <1>6 DEF LoopTop, Onward, Begun, Fresh, Going, Ordered, Served
  <2> QED
      BY <2>1, <2>2, MildSame, PromptFrame
<1>7. CASE call_encryptKey_cb \/ call_getResult_cb
  <2>1. Noted(ud') = Noted(ud) /\ ud'.bus = ud.bus
      BY <1>0, <1>7 DEF call_encryptKey_cb, call_getResult_cb, UserData, Noted
  <2>2. /\ inbox # <<>> /\ Head(inbox).type \notin Factors /\ inbox' = Tail(inbox)
        /\ main = "process" /\ main' \in {"setkey", "loop"} /\ UNCHANGED daemon
      BY <1>7, PamAssumption DEF call_encryptKey_cb, call_getResult_cb, Handling
  <2>3. Mild(inbox, inbox')
      BY <1>0, <2>2, MildTail DEF Blames
  <2>4. Onward(main, main') /\ (main' \in Served => main \in Served) /\ main' # "process"
      BY <2>2 DEF Onward, Begun, Fresh, Going, Ordered, Served
  <2> QED
      BY <2>1, <2>2, <2>3, <2>4, PromptFrame
<1>8. CASE bus_signal_cb
    BY <1>8, PromptDeal
<1>9. CASE CloseBus \/ pam_clean_func
  <2>1. main' \in {"join", "ended"} /\ daemon'.limits = daemon.limits /\ daemon'.failed \subseteq daemon.failed
      BY <1>0, <1>9 DEF CloseBus, pam_clean_func, EndSession, Ended, Session
  <2> QED
      BY <2>1 DEF PromptInv, Served, Ordered, Fresh, Begun, Going
<1>10. CASE Cancelled
    BY <1>10, MildSame, PromptFrame DEF Cancelled, Onward, PromptInv
<1>11. ASSUME NEW i \in DOMAIN threads, Thread(i) PROVE PromptInv'
  <2>1. Noted(ud') = Noted(ud) /\ ud'.bus = ud.bus /\ ud'.shown = ud.shown
      BY <1>0, <1>11 DEF Thread, Answer, getResult, MarkWaiting, Spin, CheckResult, setToken, UserData, Noted
  <2>2. Counted(daemon') = Counted(daemon) /\ daemon'.verdict = daemon.verdict
      BY <1>0, <1>11 DEF Thread, Answer, getResult, MarkWaiting, Spin, CheckResult, setToken, SetToken,
                         Session, Counted
  <2>3. UNCHANGED inbox /\ (UNCHANGED main \/ main' = "crashed")
      BY <1>11 DEF Thread, Answer, getResult, MarkWaiting, Spin, CheckResult, setToken
  <2>4. Onward(main, main') /\ (main' \in Served => main \in Served)
      BY <2>3 DEF Onward, Begun, Fresh, Going, Ordered, Served
  <2>5. main' = "process" => ud'.shown = Nothing
      BY <2>1, <2>3 DEF PromptInv
  <2> QED
      BY <2>1, <2>2, <2>3, <2>4, <2>5, MildSame, PromptFrame
<1>12. CASE Daemon
  <2>0. UNCHANGED <<main, ud>> /\ Onward(main, main')
    <3>1. UNCHANGED <<main, ud>>
      <4>1. CASE ReplyKey \/ ReplyResult
          BY <4>1 DEF ReplyKey, ReplyResult, ReplyTo
      <4>2. CASE EmitVerdict \/ Cancel
          BY <4>2 DEF EmitVerdict, Cancel
      <4>3. ASSUME NEW f \in Factors, Report(f) \/ EmitVerify(f) PROVE UNCHANGED <<main, ud>>
          BY <4>3 DEF Report, EmitVerify
      <4> QED
          BY <1>12, <4>1, <4>2, <4>3 DEF Daemon
    <3> QED
        BY <3>1 DEF Onward
  <2>1. ASSUME Counted(daemon') = Counted(daemon), daemon'.verdict \in {daemon.verdict, "none"},
               NEW m \in Status \cup Reply, m.code # "Failure", inbox' = inbox \/ Send(m)
        PROVE  PromptInv'
    <3>1. Mild(inbox, inbox')
        BY <1>0, <2>1, MildSame, MildAppend DEF Send
    <3> QED
        BY <2>0, <2>1, <3>1, PromptFrame DEF Noted, PromptInv
  <2>2. ASSUME NEW call \in {"EncryptKey", "GetResult"}, NEW codes, ReplyTo(call, codes),
               \A c \in codes : [type |-> call, code |-> c] \in Reply
        PROVE  PromptInv'
    <3>1. PICK c \in codes : Send([type |-> call, code |-> c])
        BY <2>2 DEF ReplyTo
    <3>2. Counted(daemon') = Counted(daemon) /\ daemon'.verdict = daemon.verdict
        BY <1>0, <2>2 DEF ReplyTo, Session, Counted
    <3>3. [type |-> call, code |-> c].code # "Failure"
      <4>1. [type |-> call, code |-> c] \in Reply
          BY <2>2
      <4> QED
          BY <4>1 DEF Reply
    <3> QED
        BY <2>1, <2>2, <3>1, <3>2, <3>3
  <2>3. CASE ReplyKey \/ ReplyResult
      BY <2>2, <2>3 DEF ReplyKey, ReplyResult, Reply
  <2>4. CASE EmitVerdict
      BY <2>4, PromptVerdict
  <2>5. ASSUME NEW f \in Factors, EmitVerify(f) PROVE PromptInv'
    <3>1. PICK c \in VerifyCodes : Send([type |-> f, code |-> c])
        BY <2>5 DEF EmitVerify
    <3>2. [type |-> f, code |-> c] \in Status /\ c # "Failure"
        BY PamAssumption DEF Status
    <3>3. UNCHANGED daemon
        BY <2>5 DEF EmitVerify
    <3> QED
        BY <2>1, <3>1, <3>2, <3>3
  <2>6. CASE Cancel
    <3>1. Counted(daemon') = Counted(daemon) /\ daemon'.verdict = "none"
        BY <1>0, <2>6 DEF Cancel, Session, Counted
    <3>2. [type |-> All, code |-> "Cancel"] \in Status
        BY DEF Status
    <3> QED
        BY <2>1, <2>6, <3>1, <3>2 DEF Cancel
  <2> QED
      BY <1>12, <2>3, <2>4, <2>5, <2>6, PromptReport DEF Daemon
<1>13. CASE UNCHANGED vars
    BY <1>13, MildSame, PromptFrame DEF vars, Onward, PromptInv
<1> QED
    BY <1>1, <1>2, <1>3, <1>4, <1>5, <1>6, <1>7, <1>8, <1>9, <1>10, <1>11, <1>12, <1>13
       DEF Next, pam_sm_authenticate

(* Only the handler of a failed session shows such a text, and it has just *)
(* read the limits.                                                        *)
Counts == {"locked", "left", "one left"}

LEMMA PromptShown ==
    ASSUME TypeOK, PromptInv, [Next]_vars, ud'.shown # ud.shown, ud'.shown.text \in Counts, faults' = faults
    PROVE  ud' = [ud EXCEPT !.limits = daemon.limits,
                            !.shown = FailureText([ud EXCEPT !.limits = daemon.limits])]
           /\ ~ud.isMFA /\ main = "process" /\ inbox # <<>> /\ Ends(Head(inbox))
<1>0. ud \in UserData /\ daemon \in Session /\ faults \in Nat
    BY PamAssumption DEF TypeOK
<1>1. ud'.shown # Nothing /\ Nothing.text \notin Counts
  <2>1. Nothing.text = "none"
      BY DEF Nothing
  <2>2. "none" \notin Counts
      BY DEF Counts
  <2> QED
      BY <2>1, <2>2
<1>2. bus_signal_cb
  <2>1. CASE \/ Enter \/ Connect \/ PreOneKeyLogin \/ WarnExpiry \/ EncryptKey \/ listen_dbus_signal
      BY <1>0, <2>1 DEF Enter, Connect, PreOneKeyLogin, WarnExpiry, EncryptKey, listen_dbus_signal, UserData
  <2>6. CASE Authenticate
    <3>1. UNCHANGED ud \/ ud' = [ud EXCEPT !.path = "session"]
        BY Zenon, <2>6 DEF Authenticate
    <3> QED
        BY <1>0, <3>1 DEF UserData
  <2>7. CASE get_authctl_property
    <3>1. UNCHANGED ud
          \/ \E x : ud' = [ud EXCEPT !.isMFA = daemon.isMFA, !.order = x]
        BY Zenon, <2>7 DEF get_authctl_property
    <3> QED
        BY <1>0, <3>1 DEF UserData
  <2>8. CASE CheckLimits
      BY <1>0, <2>8 DEF CheckLimits, get_limits_info, UserData
  <2>2. CASE Start
      BY <1>0, <2>2 DEF Start, mfa_start_verify, sfa_start_verify, UserData
  <2>3. CASE \/ LoopTop \/ Wait \/ BusFails \/ call_encryptKey_cb \/ SetSymmetricKey \/ call_getResult_cb
             \/ Finish \/ CloseBus \/ Join \/ Return \/ Cancelled \/ pam_clean_func
      BY <1>0, <1>1, <2>3 DEF LoopTop, Wait, BusFails, call_encryptKey_cb, SetSymmetricKey, call_getResult_cb,
                        Finish, CloseBus, Join, Return, Cancelled, pam_clean_func, UserData
  <2>4. ASSUME NEW i \in DOMAIN threads, Thread(i) PROVE FALSE
      BY <1>0, <2>4 DEF Thread, Answer, getResult, MarkWaiting, Spin, CheckResult, setToken, UserData
  <2>5. CASE Daemon \/ UNCHANGED vars
    <3>1. CASE ReplyKey \/ ReplyResult
        BY <3>1 DEF ReplyKey, ReplyResult, ReplyTo
    <3>2. CASE EmitVerdict \/ Cancel
        BY <3>2 DEF EmitVerdict, Cancel
    <3>3. ASSUME NEW f \in Factors, Report(f) \/ EmitVerify(f) PROVE FALSE
        BY <3>3 DEF Report, EmitVerify
    <3>4. CASE UNCHANGED vars
        BY <3>4 DEF vars
    <3> QED
        BY <2>5, <3>1, <3>2, <3>3, <3>4 DEF Daemon
  <2> QED
      BY <2>1, <2>2, <2>3, <2>4, <2>5, <2>6, <2>7, <2>8 DEF Next, pam_sm_authenticate
<1>3. main = "process" /\ inbox # <<>> /\ ud.shown = Nothing
    BY <1>2 DEF bus_signal_cb, Handling, PromptInv
<1> DEFINE m == Head(inbox)
<1>4. ASSUME NEW x, NEW t, ud' = Told(x, t) PROVE x \in Counts
    BY <1>0, <1>4 DEF Told, UserData
<1>5. resolve_verify_msg(m.code) \notin Counts
  <2>1. resolve_verify_msg(m.code) \in {"try again", "use the password", ud.shown.text}
      BY DEF resolve_verify_msg
  <2>2. ud.shown.text = "none"
      BY <1>3 DEF Nothing
  <2> QED
      BY <2>1, <2>2 DEF Counts
<1>6. ~mfa_signal_deal(m)
  <2> SUFFICES ASSUME mfa_signal_deal(m) PROVE FALSE
      OBVIOUS
  <2>1. UNCHANGED ud \/ ud' = Told("failed", m.type) \/ ud' = Told(resolve_verify_msg(m.code), m.type)
      BY Zenon DEF mfa_signal_deal, Only, StartThread
  <2>2. "failed" \notin Counts
      BY DEF Counts
  <2> QED
      BY <1>4, <1>5, <2>1, <2>2
<1>7. ~NextFactor(m)
    BY <1>0 DEF NextFactor, mfa_start_verify, UserData
<1>8. sfa_signal_deal(m) /\ ~ud.isMFA
    BY <1>2, <1>6, <1>7 DEF bus_signal_cb
<1>9. ud' # [ud EXCEPT !.failed = Append(@, m.type)]
    BY <1>0 DEF UserData
<1>10. PICK ok \in BOOLEAN :
          /\ dbus_method_get_limits(ok)
          /\ ud' = [get_limits_info(ud, ok) EXCEPT !.shown = FailureText(get_limits_info(ud, ok))]
          /\ m.code = "Failure" /\ m.type = All
    BY <1>4, <1>5, <1>8, <1>9 DEF sfa_signal_deal, Only, StartThread
<1>11. ok
    BY <1>0, <1>10 DEF dbus_method_get_limits, Fails
<1>12. get_limits_info(ud, ok) = [ud EXCEPT !.limits = daemon.limits]
    BY <1>11 DEF get_limits_info
<1> HIDE DEF m
<1>13. ud' = [ud EXCEPT !.limits = daemon.limits,
                        !.shown = FailureText([ud EXCEPT !.limits = daemon.limits])]
  <2> DEFINE x == FailureText([ud EXCEPT !.limits = daemon.limits])
  <2>1. ud' = [[ud EXCEPT !.limits = daemon.limits] EXCEPT !.shown = x]
      BY <1>10, <1>12
  <2> HIDE DEF x
  <2>2. ud' = [ud EXCEPT !.limits = daemon.limits, !.shown = x]
      BY <2>1
  <2> QED
      BY <2>2 DEF x
<1> QED
    BY <1>3, <1>8, <1>10, <1>13 DEF Ends, m

(* What is shown then is what the daemon has counted.                      *)
LEMMA PromptActs ==
    ASSUME TypeOK, PromptInv, [Next]_vars, ud'.shown # ud.shown, ud'.shown.text \in Counts, faults' = faults
    PROVE  LET s == ud'.shown  l == daemon.limits[s.type]
           IN  /\ s.type \in daemon.failed
               /\ s.text = "locked" <=> l.locked
               /\ s.text = "left" => s.left = l.max - l.fails
               /\ s.text = "one left" => l.fails = l.max - 1
<1> DEFINE u == [ud EXCEPT !.limits = daemon.limits]
           f == FailType(u)
           l == daemon.limits[f]
<1>0. ud \in UserData /\ daemon \in Session /\ inbox \in Seq(Status \cup Reply)
    BY DEF TypeOK
<1>1. /\ ud' = [ud EXCEPT !.limits = daemon.limits, !.shown = FailureText(u)]
      /\ ~ud.isMFA /\ main = "process" /\ inbox # <<>> /\ Ends(Head(inbox))
    BY PromptShown
<1>2. /\ u.limits = daemon.limits /\ u.failed = ud.failed /\ ud'.shown = FailureText(u)
      /\ ud.failed \in Seq(Factors)
    BY <1>0, <1>1 DEF UserData
<1>3. ud.failed # <<>> /\ \A k \in DOMAIN ud.failed : ud.failed[k] \in daemon.failed
  <2>1. main \in Going
      BY <1>1 DEF Going
  <2>2. 1 \in DOMAIN inbox /\ inbox[1] = Head(inbox) /\ \A j \in DOMAIN inbox : ~(j < 1)
      BY <1>0, <1>1
  <2> QED
      BY <1>1, <2>1, <2>2 DEF PromptInv, Explained, Accounted
<1> HIDE DEF u
<1>4. f \in daemon.failed
    BY <1>2, <1>3 DEF FailType
<1>5. /\ ud'.shown.type = f /\ ud'.shown.left = l.max - l.fails
      /\ ud'.shown.text = IF l.locked THEN "locked" ELSE IF l.max - l.fails > 1 THEN "left" ELSE "one left"
  <2>1. FailureText(u) = [type |-> f, left |-> l.max - l.fails,
                          text |-> IF l.locked THEN "locked"
                                   ELSE IF l.max - l.fails > 1 THEN "left" ELSE "one left"]
    <3>1. u.limits[f] = l
        BY <1>2
    <3> HIDE DEF l
    <3> QED
        BY Zenon, <3>1 DEF FailureText, f
  <2> HIDE DEF f, l
  <2> DEFINE x == IF l.locked THEN "locked" ELSE IF l.max - l.fails > 1 THEN "left" ELSE "one left"
             n == l.max - l.fails
  <2>2. ud'.shown = [type |-> f, left |-> n, text |-> x]
      BY <1>2, <2>1
  <2> HIDE DEF x, n
  <2>3. ud'.shown.type = f /\ ud'.shown.left = n /\ ud'.shown.text = x
      BY <2>2
  <2> QED
      BY <2>3 DEF x, n
<1>6. f \in Factors /\ l \in Limit /\ l.max = MaxTries /\ (l.locked \/ l.fails < MaxTries)
    BY <1>0, <1>4 DEF Session, PromptInv
<1>7. ud'.shown.type = f /\ daemon.limits[ud'.shown.type] = l
    BY <1>5
<1> HIDE DEF f, l
<1>8. /\ ud'.shown.text = "locked" <=> l.locked
      /\ ud'.shown.text = "left" => ud'.shown.left = l.max - l.fails
      /\ ud'.shown.text = "one left" => l.fails = l.max - 1
  <2>1. l.fails \in Nat /\ l.max \in Nat /\ l.locked \in BOOLEAN
      BY <1>6 DEF Limit
  <2>2. CASE l.locked
      BY <1>5, <2>2
  <2>3. CASE ~l.locked
    <3>1. l.max - l.fails > 1 \/ (~(l.max - l.fails > 1) /\ l.fails = l.max - 1)
        BY <1>6, <2>1, <2>3, PamAssumption
    <3>2. CASE l.max - l.fails > 1
      <4>1. ud'.shown.text = "left"
          BY Zenon, <1>5, <2>3, <3>2
      <4> QED
          BY <1>5, <2>3, <4>1
    <3>3. CASE ~(l.max - l.fails > 1) /\ l.fails = l.max - 1
      <4>1. ud'.shown.text = "one left"
          BY Zenon, <1>5, <2>3, <3>3
      <4> QED
          BY <2>3, <3>3, <4>1
    <3> QED
        BY <3>1, <3>2, <3>3
  <2> QED
      BY <2>2, <2>3
<1> QED
    BY <1>4, <1>7, <1>8

(* When the user is told how many chances are left, or that a factor is    *)
(* locked, it is a factor that failed now, and what the daemon has counted,*)
(* for any factors, orders of their messages and limits (sfa.c:56-125).    *)
THEOREM FailureTextIsTrue == Spec => PromptTrue
<1> DEFINE P == LET s == ud'.shown  l == daemon.limits[s.type]
                IN  s # ud.shown /\ s.text \in {"locked", "left", "one left"} /\ faults' = faults =>
                      /\ s.type \in daemon.failed
                      /\ s.text = "locked" <=> l.locked
                      /\ s.text = "left" => s.left = l.max - l.fails
                      /\ s.text = "one left" => l.fails = l.max - 1
<1>1. Init => OrderInv /\ PromptInv
    BY OrderInit, PromptInit
<1>2. TypeOK /\ OrderInv /\ PromptInv /\ [Next]_vars => (OrderInv /\ PromptInv)'
    BY OrderStep, PromptStep
<1>3. TypeOK /\ PromptInv /\ [Next]_vars => [P]_vars
  <2> SUFFICES ASSUME TypeOK, PromptInv, [Next]_vars, ud'.shown # ud.shown,
                      ud'.shown.text \in Counts, faults' = faults
               PROVE  P
      BY Zenon DEF Counts
  <2> QED
      BY Zenon, PromptActs
<1>4. Spec => [][P]_vars
    BY <1>1, <1>2, <1>3, TypeCorrect, PTL DEF Spec
<1> QED
    BY <1>4 DEF PromptTrue
=============================================================================
