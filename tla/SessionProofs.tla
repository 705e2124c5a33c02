--------------------------- MODULE SessionProofs ---------------------------
(***************************************************************************)
(* Proofs about Session: the types; the client sees the state of a factor  *)
(* (ToldInv); failures are charged once (CountInv); with several factors   *)
(* required, a verdict needs all of them and a pass is current (PassInv).  *)
(***************************************************************************)
EXTENDS Session, FiniteSetTheorems, SequenceTheorems, WellFoundedInduction, TLAPS

(* A set of naturals that is not empty has a least element.                *)
LEMMA NatLeast ==
    ASSUME NEW T \in SUBSET Nat, T # {}
    PROVE  \E x \in T : \A y \in T : x <= y
<1>1. \E x \in T : \A y \in T : ~ (<<y, x>> \in OpToRel(<, Nat))
    BY NatLessThanWellFounded, WFMin, Zenon
<1>2. \A x, y \in Nat : x < y => <<x, y>> \in OpToRel(<, Nat)
    BY DEF OpToRel
<1>3. \A x, y \in Nat : ~(y < x) => x <= y
    OBVIOUS
<1> QED
    BY <1>1, <1>2, <1>3

(* Induction with a set in the place of a predicate.                       *)
LEMMA NatSetInduction ==
    ASSUME NEW S, 0 \in S, \A n \in Nat : n \in S => n + 1 \in S
    PROVE  Nat \subseteq S
<1> SUFFICES ASSUME Nat \ S # {} PROVE FALSE
    OBVIOUS
<1>1. PICK x \in Nat \ S : \A y \in Nat \ S : x <= y
    BY NatLeast
<1>2. x # 0 /\ x - 1 \in Nat
    OBVIOUS
<1>3. x - 1 \in S
    BY <1>1, <1>2
<1>4. x = (x - 1) + 1
    OBVIOUS
<1> QED
    BY <1>2, <1>3, <1>4

(* What each step is about.                                                *)
Ops == {o \in [op : FactorOps \cup OtherOps, f : Factors \cup {NoFactor}, s : Status] :
           /\ o.op \in FactorOps => o.f \in Factors
           /\ o.op = "setLock" => o.s \in {"Locked", "Unlocked"}
           /\ o.op = "emit" => o.s \in {"Ended", "Cancel"}}

(* A status is sent in the step after it was given.                        *)
Plain(q) == q \in Seq(Ops) /\ \A i \in DOMAIN q : q[i].op # "send"
Work(q) == q \in Seq(Ops) /\ (q # <<>> => Plain(Tail(q)))

(* The factors are in txs.                                                 *)
LEMMA TxsTyped == Len(txs) \in Nat /\ \A i \in 1..Len(txs) : txs[i] \in Factors
    BY SessionAssumption DEF Factors

(* ForEach does what its recursive definition says.                        *)
LEMMA ForFirstDefined ==
    ASSUME NEW o, NEW flag
    PROVE  ForFirst(o, flag) = [i \in 0..Len(txs) |-> IF i = 0 THEN <<>>
               ELSE IF txs[i] \in flag THEN Append(ForFirst(o, flag)[i - 1], Do(o, txs[i]))
                    ELSE ForFirst(o, flag)[i - 1]]
<1> DEFINE Next0(s, i) == IF txs[i] \in flag THEN Append(s, Do(o, txs[i])) ELSE s
           F(f, n) == f = [i \in 0..n |-> IF i = 0 THEN <<>> ELSE Next0(f[i - 1], i)]
           S == {n \in Nat : \E f : F(f, n)}
<1>6. ForFirst(o, flag) = CHOOSE h : F(h, Len(txs))
    BY Zenon DEF ForFirst, F
<1>1. 0 \in S
  <2>1. F([i \in 0..0 |-> <<>>], 0)
      OBVIOUS
  <2> QED BY <2>1
<1>2. ASSUME NEW n \in Nat, n \in S PROVE n + 1 \in S
  <2> HIDE DEF Next0
  <2>1. PICK f : F(f, n)
      BY <1>2
  <2> DEFINE g == [i \in 0..(n + 1) |-> IF i = n + 1 THEN Next0(f[n], n + 1) ELSE f[i]]
  <2>2. \A i \in 0..n : g[i] = f[i]
      OBVIOUS
  <2>3. \A i \in 0..(n + 1) : g[i] = IF i = 0 THEN <<>> ELSE Next0(g[i - 1], i)
    <3> SUFFICES ASSUME NEW i \in 0..(n + 1)
                 PROVE  g[i] = IF i = 0 THEN <<>> ELSE Next0(g[i - 1], i)
        OBVIOUS
    <3>1. CASE i = 0
        BY <2>1, <2>2, <3>1
    <3>2. CASE i = n + 1
        BY <2>2, <3>2
    <3>3. CASE i # 0 /\ i # n + 1
      <4>1. i \in 0..n /\ i - 1 \in 0..n
          BY <3>3
      <4> HIDE DEF g
      <4> QED BY <2>1, <2>2, <3>3, <4>1
    <3> QED BY <3>1, <3>2, <3>3
  <2>4. F(g, n + 1)
      BY <2>3
  <2>5. \E h : F(h, n + 1)
      BY <2>4
  <2> HIDE DEF F
  <2> QED BY <2>5
<1> HIDE DEF F
<1>3. Nat \subseteq S
    BY <1>1, <1>2, NatSetInduction
<1>4. PICK f : F(f, Len(txs))
    BY <1>3, TxsTyped
<1>7. F(ForFirst(o, flag), Len(txs))
    BY <1>4, <1>6
<1> QED
    BY <1>7 DEF F

(* The steps, as they are made.                                            *)
LEMMA OpsMade ==
    /\ \A o \in FactorOps \ {"setLock"}, f \in Factors :
          Do(o, f) \in Ops /\ Do(o, f).op = o /\ Do(o, f).f = f
    /\ \A o \in OtherOps \ {"emit"} : Do(o, NoFactor) \in Ops /\ Do(o, NoFactor).op = o
    /\ \A f \in Factors, s \in Status :
          /\ Give(f, s) \in Ops /\ Give(f, s).op = "give"
          /\ Send(f, s) \in Ops /\ Send(f, s).op = "send" /\ Send(f, s).f = f /\ Send(f, s).s = s
    /\ \A f \in Factors, s \in {"Locked", "Unlocked"} :
          SetLock(f, s) \in Ops /\ SetLock(f, s).op = "setLock"
    /\ \A s \in {"Ended", "Cancel"} : Emit(s) \in Ops /\ Emit(s).op = "emit"
<1>1. \A o \in FactorOps \cup OtherOps, f \in Factors \cup {NoFactor}, s \in Status :
        (o \in FactorOps => f \in Factors) /\ (o = "setLock" => s \in {"Locked", "Unlocked"})
            /\ o # "emit" => [op |-> o, f |-> f, s |-> s] \in Ops
    BY DEF Ops
<1>2. /\ {"give", "send", "setLock"} \subseteq FactorOps /\ "emit" \in OtherOps
      /\ {"Unknown", "Locked", "Unlocked"} \subseteq Status
      /\ \A o \in OtherOps : o \notin FactorOps
      /\ {"Ended", "Cancel"} \subseteq Status
    BY DEF FactorOps, OtherOps, Status
<1>3. \A o \in FactorOps \ {"setLock"}, f \in Factors :
          Do(o, f) \in Ops /\ Do(o, f).op = o /\ Do(o, f).f = f
    BY <1>1, <1>2 DEF Do
<1>4. \A o \in OtherOps \ {"emit"} : Do(o, NoFactor) \in Ops /\ Do(o, NoFactor).op = o
    BY <1>1, <1>2 DEF Do
<1>5. \A f \in Factors, s \in Status :
          /\ Give(f, s) \in Ops /\ Give(f, s).op = "give"
          /\ Send(f, s) \in Ops /\ Send(f, s).op = "send" /\ Send(f, s).f = f /\ Send(f, s).s = s
    BY <1>1, <1>2 DEF Give, Send
<1>6. \A f \in Factors, s \in {"Locked", "Unlocked"} :
          SetLock(f, s) \in Ops /\ SetLock(f, s).op = "setLock"
    BY <1>1, <1>2 DEF SetLock
<1>7. \A s \in {"Ended", "Cancel"} : Emit(s) \in Ops /\ Emit(s).op = "emit"
    BY <1>2 DEF Emit, Ops, NoFactor
<1> QED
    BY <1>3, <1>4, <1>5, <1>6, <1>7

(* Plain and Work, with the indices of sequences.                          *)
LEMMA PlainFacts ==
    /\ \A q : Plain(q) <=> q \in Seq(Ops) /\ \A i \in 1..Len(q) : q[i].op # "send"
    /\ Plain(<<>>)
    /\ \A a \in Ops : a.op # "send" => Plain(<<a>>)
    /\ \A p, q : Plain(p) /\ Plain(q) => Plain(p \o q)
    /\ \A q : Plain(q) => Work(q)
    /\ \A q : Plain(q) /\ q # <<>> => Head(q).op # "send"
<1>1. ASSUME NEW q, q \in Seq(Ops) PROVE DOMAIN q = 1..Len(q) /\ Len(q) \in Nat
    BY <1>1, LenProperties
<1>2. \A q : Plain(q) <=> q \in Seq(Ops) /\ \A i \in 1..Len(q) : q[i].op # "send"
    BY <1>1 DEF Plain
<1>3. Plain(<<>>)
    BY <1>1, EmptySeq DEF Plain
<1>4. ASSUME NEW a \in Ops, a.op # "send" PROVE Plain(<<a>>)
  <2> DEFINE q == <<a>>
  <2>1. q \in Seq(Ops) /\ Len(q) = 1 /\ q[1] = a
      OBVIOUS
  <2> HIDE DEF q
  <2>2. Plain(q)
      BY <1>2, <1>4, <2>1
  <2> QED BY <2>2 DEF q
<1>5. ASSUME NEW p, NEW q, Plain(p), Plain(q) PROVE Plain(p \o q)
  <2>1. /\ p \o q \in Seq(Ops)
        /\ Len(p \o q) = Len(p) + Len(q)
        /\ \A i \in 1 .. Len(p) + Len(q) :
              (p \o q)[i] = IF i <= Len(p) THEN p[i] ELSE q[i - Len(p)]
      BY <1>2, <1>5, ConcatProperties
  <2>2. Len(p) \in Nat /\ Len(q) \in Nat
      BY <1>1, <1>2, <1>5
  <2>3. ASSUME NEW i \in 1..(Len(p) + Len(q)) PROVE (p \o q)[i].op # "send"
    <3>1. CASE i <= Len(p)
      <4>1. i \in 1..Len(p)
          BY <2>2, <3>1
      <4> QED BY <1>2, <1>5, <2>1, <3>1, <4>1
    <3>2. CASE ~(i <= Len(p))
      <4>1. i - Len(p) \in 1..Len(q)
          BY <2>2, <3>2
      <4> QED BY <1>2, <1>5, <2>1, <3>2, <4>1
    <3> QED BY <3>1, <3>2
  <2> QED
      BY <1>2, <2>1, <2>3
<1>6. ASSUME NEW q, Plain(q), q # <<>> PROVE Plain(Tail(q)) /\ Head(q).op # "send"
  <2>1. /\ Tail(q) \in Seq(Ops) /\ Len(Tail(q)) = Len(q) - 1
        /\ \A i \in 1 .. Len(Tail(q)) : Tail(q)[i] = q[i + 1]
      BY <1>2, <1>6, HeadTailProperties
  <2>2. Len(q) \in Nat \ {0}
      BY <1>2, <1>6, EmptySeq
  <2>3. \A i \in 1 .. Len(Tail(q)) : i + 1 \in 1..Len(q)
      BY <2>1, <2>2
  <2>4. Head(q) = q[1] /\ 1 \in 1..Len(q)
      BY <2>2
  <2> QED
      BY <1>2, <1>6, <2>1, <2>3, <2>4
<1>7. \A q : Plain(q) => Work(q)
    BY <1>2, <1>6 DEF Work
<1> QED
    BY <1>2, <1>3, <1>4, <1>5, <1>6, <1>7

(* What ForEach makes.                                                     *)
LEMMA ForEachTyped ==
    ASSUME NEW o \in FactorOps \ {"setLock", "send"}, NEW flag
    PROVE  Plain(ForEach(o, flag))
<1> DEFINE S == {n \in Nat : n <= Len(txs) => Plain(ForFirst(o, flag)[n])}
<1>1. /\ ForFirst(o, flag)[0] = <<>>
      /\ \A n \in Nat : n + 1 <= Len(txs) =>
            ForFirst(o, flag)[n + 1] =
                IF txs[n + 1] \in flag THEN Append(ForFirst(o, flag)[n], Do(o, txs[n + 1]))
                ELSE ForFirst(o, flag)[n]
  <2>1. \A i \in 0..Len(txs) : ForFirst(o, flag)[i] = IF i = 0 THEN <<>>
               ELSE IF txs[i] \in flag THEN Append(ForFirst(o, flag)[i - 1], Do(o, txs[i]))
                    ELSE ForFirst(o, flag)[i - 1]
    <3> DEFINE F == ForFirst(o, flag)
               G(i) == IF i = 0 THEN <<>>
                       ELSE IF txs[i] \in flag THEN Append(F[i - 1], Do(o, txs[i])) ELSE F[i - 1]
    <3>1. F = [i \in 0..Len(txs) |-> G(i)]
        BY ForFirstDefined
    <3> HIDE DEF F, G
    <3>2. \A i \in 0..Len(txs) : F[i] = G(i)
        BY <3>1
    <3> QED BY <3>2 DEF F, G
  <2>2. \A n \in Nat : (n + 1) - 1 = n
      OBVIOUS
  <2> QED
      BY <2>1, <2>2, TxsTyped
<1>2. 0 \in S
    BY <1>1, PlainFacts
<1>3. ASSUME NEW n \in Nat, n \in S PROVE n + 1 \in S
  <2> SUFFICES ASSUME n + 1 <= Len(txs) PROVE Plain(ForFirst(o, flag)[n + 1])
      OBVIOUS
  <2>1. Plain(ForFirst(o, flag)[n])
      BY <1>3, TxsTyped
  <2>2. txs[n + 1] \in Factors
      BY TxsTyped
  <2>3. Do(o, txs[n + 1]) \in Ops /\ Do(o, txs[n + 1]).op # "send"
      BY <2>2, OpsMade
  <2>4. ASSUME NEW q, Plain(q), NEW d \in Ops, d.op # "send" PROVE Plain(Append(q, d))
    <3>1. q \in Seq(Ops) /\ Plain(q \o <<d>>)
        BY <2>4, PlainFacts
    <3>2. Append(q, d) = q \o <<d>>
        BY <3>1
    <3> QED BY <3>1, <3>2
  <2> QED
      BY <1>1, <2>1, <2>3, <2>4
<1>4. Nat \subseteq S
    BY <1>2, <1>3, NatSetInduction
<1> QED
    BY <1>4, TxsTyped DEF ForEach

(* What a goroutine has to do after a step.                                *)
LEMMA ContinueWork ==
    ASSUME NEW q, Work(q), q # <<>>
    PROVE  /\ Head(q) \in Ops /\ Plain(Tail(q)) /\ <<>> \o Tail(q) = Tail(q)
           /\ \A ops : Plain(ops) => Plain(ops \o Tail(q))
           /\ \A a \in Ops : /\ Work(<<a>> \o Tail(q))
                             /\ <<a>> \o Tail(q) # <<>> /\ Head(<<a>> \o Tail(q)) = a
<1>1. q \in Seq(Ops) /\ Head(q) \in Ops /\ Plain(Tail(q)) /\ Tail(q) \in Seq(Ops)
    BY HeadTailProperties DEF Work
<1>2. ASSUME NEW a \in Ops
      PROVE  /\ Work(<<a>> \o Tail(q))
             /\ <<a>> \o Tail(q) # <<>> /\ Head(<<a>> \o Tail(q)) = a
  <2> DEFINE p == <<a>> \o Tail(q)
  <2>1. /\ p \in Seq(Ops) /\ Len(p) = 1 + Len(Tail(q))
        /\ \A i \in 1..(1 + Len(Tail(q))) : p[i] = IF i <= 1 THEN <<a>>[i] ELSE Tail(q)[i - 1]
      BY <1>1, ConcatProperties
  <2>2. Len(Tail(q)) \in Nat
      BY <1>1, LenProperties
  <2> HIDE DEF p
  <2>3. p # <<>> /\ p[1] = a
      BY <2>1, <2>2
  <2>4. Head(p) = p[1]
      OBVIOUS
  <2>5. /\ Tail(p) \in Seq(Ops) /\ Len(Tail(p)) = Len(p) - 1
        /\ \A i \in 1 .. Len(Tail(p)) : Tail(p)[i] = p[i + 1]
      BY <2>1, <2>3, HeadTailProperties
  <2>6. ASSUME NEW i \in 1..Len(Tail(p)) PROVE Tail(p)[i].op # "send"
    <3>1. i + 1 \in 1..(1 + Len(Tail(q))) /\ ~(i + 1 <= 1) /\ (i + 1) - 1 = i
          /\ i \in 1..Len(Tail(q))
        BY <2>1, <2>2, <2>5
    <3>2. Tail(p)[i] = Tail(q)[i]
        BY <2>1, <2>5, <3>1
    <3> QED
        BY <1>1, <3>1, <3>2, PlainFacts
  <2>7. Plain(Tail(p))
      BY <2>5, <2>6, PlainFacts
  <2>8. Work(p)
      BY <2>1, <2>7 DEF Work
  <2> QED
      BY <2>3, <2>4, <2>8 DEF p
<1> QED
    BY <1>1, <1>2, PlainFacts, ConcatEmptySeq

DevStates == {"Idle", "Verifying", "Exception", "Ended"}
Result == [f : Factors, s : Status]

(* What the goroutines have to do.                                         *)
Works == todo \in [Threads -> Seq(Ops)] /\ \A t \in Threads : Work(todo[t])

(* The types of all but todo.                                              *)
Types ==
    /\ devState \in [Factors -> DevStates]
    /\ lockState \in [Factors -> {"Locked", "Unlocked"}]
    /\ attempt \in [Attempts -> {"none", "running", "stopping", "done"}]
    /\ reports \in [Attempts -> 0..MaxReports]
    /\ timers \in [Factors -> Nat]
    /\ resultCh \in Seq(Result) /\ Len(resultCh) <= Cap
    /\ ended \in BOOLEAN /\ listening \in BOOLEAN
    /\ verdict \in {"none", "Success", "Failure"}
    /\ result \in [Required -> Status \cup {"none"}]
    /\ passNumber \in Nat
    /\ finalResultGiven \in BOOLEAN /\ statusResult \in {"Success", "Failure"}
    /\ isStarted \in BOOLEAN /\ quitMethod \in {"auto", "manual"}
    /\ canceled \in BOOLEAN /\ quited \in BOOLEAN /\ quitTimer \in BOOLEAN
    /\ panicked \in BOOLEAN
    /\ calls \in 0..MaxCalls
    /\ shown \in [Factors -> Status]
    /\ sent \in [Factors -> Nat] /\ charged \in [Factors -> Nat]

Typed == Works /\ Types

(* A goroutine that sends no status goes on, or starts.                    *)
Moves(t) ==
    /\ todo[t] # <<>> => Head(todo[t]).op # "send"
    /\ \E q : Plain(q) /\ todo' = [todo EXCEPT ![t] = q]

(* The factors that wait to be sent stay the same.                         *)
SameHolders ==
    \A t \in Threads : \A f : /\ Holds(t, f)' <=> Holds(t, f)
                              /\ Holds(t, f) => todo'[t] = todo[t]

(* A step that leaves what is told and counted alone, or ends the session. *)
toldVars == <<devState, resultCh, shown, sent, charged, result, passNumber, verdict>>
Aside ==
    /\ SameHolders
    /\ UNCHANGED toldVars
    /\ ended => ended'
    /\ statusResult' \in {statusResult, "Failure"}

(* Such a move keeps the work typed and the holders as they are.           *)
LEMMA MovesWork ==
    ASSUME Works, NEW t \in Threads, Moves(t)
    PROVE  Works' /\ SameHolders
<1>1. PICK q : Plain(q) /\ todo' = [todo EXCEPT ![t] = q]
    BY DEF Moves
<1>2. q \in Seq(Ops) /\ Work(q) /\ (q # <<>> => Head(q).op # "send")
    BY <1>1, PlainFacts
<1>3. /\ todo' \in [Threads -> Seq(Ops)] /\ todo'[t] = q
      /\ \A u \in Threads \ {t} : todo'[u] = todo[u]
    BY <1>1, <1>2 DEF Works
<1>4. \A u \in Threads : Work(todo'[u])
    BY <1>2, <1>3 DEF Works
<1>5. ASSUME NEW u \in Threads, NEW f
      PROVE  (Holds(u, f)' <=> Holds(u, f)) /\ (Holds(u, f) => todo'[u] = todo[u])
  <2>1. CASE u = t
      BY <1>2, <1>3, <2>1 DEF Holds, Moves
  <2>2. CASE u # t
      BY <1>3, <2>2 DEF Holds
  <2> QED BY <2>1, <2>2
<1> QED
    BY <1>3, <1>4, <1>5 DEF Works, SameHolders

(* Nothing moves.                                                          *)
LEMMA StillWork ==
    ASSUME Works, todo' = todo
    PROVE  Works' /\ SameHolders
    BY DEF Works, SameHolders, Holds

(* A step of a goroutine makes plain work in place of one that is not a    *)
(* send.                                                                   *)
LEMMA ContinueMoves ==
    ASSUME Works, NEW t \in Threads, NEW o, Next1(t, o), o # "send",
           NEW ops, Plain(ops), Continue(t, ops)
    PROVE  Works' /\ SameHolders
<1>1. Work(todo[t]) /\ todo[t] # <<>> /\ Head(todo[t]).op = o /\ todo \in [Threads -> Seq(Ops)]
    BY DEF Works, Next1
<1>2. Plain(ops \o Tail(todo[t]))
    BY <1>1, ContinueWork
<1>3. todo' = [todo EXCEPT ![t] = ops \o Tail(todo[t])]
    BY <1>1 DEF Continue
<1>4. Moves(t)
    BY <1>1, <1>2, <1>3 DEF Moves
<1> QED
    BY <1>4, MovesWork

(* A goroutine that starts.                                                *)
LEMMA GoMoves ==
    ASSUME Works, NEW g \in Threads, NEW ops, Plain(ops), Go(g, ops)
    PROVE  Works' /\ SameHolders
<1>1. Moves(g)
    BY DEF Moves, Go
<1> QED
    BY <1>1, MovesWork

(* What the first step of a goroutine is about.                            *)
LEMMA HeadTyped ==
    ASSUME Works, NEW t \in Threads, NEW o, Next1(t, o)
    PROVE  /\ o \in FactorOps => Head(todo[t]).f \in Factors
           /\ Head(todo[t]).s \in Status
           /\ o = "setLock" => Head(todo[t]).s \in {"Locked", "Unlocked"}
           /\ o = "emit" => Head(todo[t]).s \in {"Ended", "Cancel"}
<1>1. Work(todo[t]) /\ todo[t] # <<>> /\ Head(todo[t]).op = o
    BY DEF Works, Next1
<1>2. Head(todo[t]) \in Ops
    BY <1>1, ContinueWork
<1> QED
    BY <1>1, <1>2 DEF Ops

-----------------------------------------------------------------------------
(* checkLimit gives a status only as work to be done.                      *)
LEMMA CheckLimitStep ==
    ASSUME Typed, NEW t \in Threads, checkLimit(t)
    PROVE  Typed' /\ Aside
<1> DEFINE f == Head(todo[t]).f
<1>1. PICK s \in {"Locked", "Unlocked"} :
          Continue(t, IF lockState[f] = s THEN <<>>
                          ELSE <<Give(f, s)>> \o
                               (IF s = "Locked" THEN <<Do("endVerifying", f)>>
                                                ELSE <<>>) \o
                               <<SetLock(f, s)>>)
    BY DEF checkLimit
<1>2. f \in Factors
    BY HeadTyped DEF Typed, checkLimit, FactorOps
<1>3. /\ Plain(<<Give(f, s)>>) /\ Plain(<<Do("endVerifying", f)>>) /\ Plain(<<SetLock(f, s)>>)
      /\ Plain(<<>>)
  <2>1. s \in Status /\ "endVerifying" \in FactorOps \ {"setLock"}
      BY DEF Status, FactorOps
  <2> HIDE DEF f
  <2>2. /\ Give(f, s) \in Ops /\ Give(f, s).op # "send"
        /\ Do("endVerifying", f) \in Ops /\ Do("endVerifying", f).op # "send"
        /\ SetLock(f, s) \in Ops /\ SetLock(f, s).op # "send"
      BY <1>2, <2>1, OpsMade
  <2> QED BY <2>2, PlainFacts
<1> HIDE DEF f
<1>4. Plain(<<Give(f, s)>> \o <<Do("endVerifying", f)>> \o <<SetLock(f, s)>>)
      /\ Plain(<<Give(f, s)>> \o <<>> \o <<SetLock(f, s)>>)
    BY <1>3, PlainFacts
<1>5. Works' /\ SameHolders
    BY <1>1, <1>3, <1>4, ContinueMoves DEF Typed, checkLimit
<1>6. UNCHANGED <<txVars, devVars, chVars, ctlVars, mgrVars, panicked, calls>>
    BY DEF checkLimit
<1>7. Types' /\ Aside
    BY <1>5, <1>6
    DEF Typed, Types, Aside, toldVars, txVars, devVars, chVars, ctlVars, mgrVars
<1> QED
    BY <1>5, <1>7 DEF Typed

(* setLockState changes the lock state of one factor only.                 *)
LEMMA SetLockStateStep ==
    ASSUME Typed, NEW t \in Threads, setLockState(t)
    PROVE  Typed' /\ Aside
<1>1. Head(todo[t]).f \in Factors /\ Head(todo[t]).s \in {"Locked", "Unlocked"}
    BY HeadTyped DEF Typed, setLockState, FactorOps
<1>2. Works' /\ SameHolders
    BY PlainFacts, ContinueMoves DEF Typed, setLockState
<1>3. Types' /\ Aside
    BY <1>1, <1>2
    DEF setLockState, Typed, Types, Aside, toldVars, devVars, chVars, ctlVars, mgrVars
<1> QED
    BY <1>2, <1>3 DEF Typed

(* tx.end stops the attempt and gives Ended.                               *)
LEMMA EndTxPlain == ASSUME NEW f \in Factors PROVE Plain(endTx(f))
<1>1. Plain(<<Do("stop", f)>>) /\ Plain(<<Give(f, "Ended")>>)
    BY OpsMade, PlainFacts DEF FactorOps, Status
<1>2. Plain(<<Do("stop", f)>> \o <<Give(f, "Ended")>>)
    BY <1>1, PlainFacts
<1>3. endTx(f) = <<Do("stop", f)>> \o <<Give(f, "Ended")>>
    BY DEF endTx
<1> QED
    BY <1>2, <1>3

(* Ending a factor or leaving it gives no status yet.                      *)
LEMMA EndIfStep ==
    ASSUME Typed, NEW t \in Threads, endIf(t) \/ endNot(t)
    PROVE  Typed' /\ Aside
<1> DEFINE f == Head(todo[t]).f
<1>1. PICK o \in {"endVerifying", "endBusy"} : Next1(t, o)
    BY DEF endIf, endNot
<1>2. f \in Factors
    BY <1>1, HeadTyped DEF Typed, FactorOps
<1>3. PICK ops \in {endTx(f), <<>>} : Continue(t, ops)
    BY DEF endIf, endNot
<1>4. Plain(ops)
    BY <1>2, EndTxPlain, PlainFacts
<1>5. Works' /\ SameHolders
    BY <1>1, <1>3, <1>4, ContinueMoves DEF Typed
<1>6. UNCHANGED <<txVars, devVars, chVars, ctlVars, mgrVars, panicked, calls>>
    BY DEF endIf, endNot
<1>7. Types' /\ Aside
    BY <1>5, <1>6
    DEF Typed, Types, Aside, toldVars, txVars, devVars, chVars, ctlVars, mgrVars
<1> QED
    BY <1>5, <1>7 DEF Typed

(* The latest attempt of a factor is told to stop.                         *)
LEMMA StopStep ==
    ASSUME Typed, NEW t \in Threads, stop(t)
    PROVE  Typed' /\ Aside
<1>1. Works' /\ SameHolders
    BY PlainFacts, ContinueMoves DEF Typed, stop
<1>2. PICK last : attempt' \in {attempt, [attempt EXCEPT ![last] = "stopping"]}
    BY DEF stop
<1>3. attempt' \in [Attempts -> {"none", "running", "stopping", "done"}]
    BY <1>2 DEF Typed, Types
<1>4. UNCHANGED <<txVars, reports, timers, chVars, ctlVars, mgrVars, panicked, calls>>
    BY DEF stop
<1>5. Types' /\ Aside
    BY <1>1, <1>3, <1>4
    DEF Typed, Types, Aside, toldVars, txVars, chVars, ctlVars, mgrVars
<1> QED
    BY <1>1, <1>5 DEF Typed

(* authenticate of the controller starts a factor, or does not.            *)
LEMMA AuthenticateStep ==
    ASSUME Typed, NEW t \in Threads, authenticateTx(t)
    PROVE  Typed' /\ Aside
<1> DEFINE f == Head(todo[t]).f
           start == <<Give(f, "Started"), Do("run", f)>>
<1>1. PICK o \in {"try", "tryTimed"} : Next1(t, o)
    BY DEF authenticateTx
<1>2. f \in Factors
    BY <1>1, HeadTyped DEF Typed, FactorOps
<1>3. PICK ops \in {<<>>, start \o <<Do("arm", f)>>, start \o <<>>} : Continue(t, ops)
    BY Zenon DEF authenticateTx
<1>4. Plain(ops)
  <2>1. Plain(<<Give(f, "Started")>>) /\ Plain(<<Do("run", f)>>) /\ Plain(<<Do("arm", f)>>)
      BY <1>2, OpsMade, PlainFacts DEF FactorOps, Status
  <2>2. start = <<Give(f, "Started")>> \o <<Do("run", f)>>
      OBVIOUS
  <2> HIDE DEF f, start
  <2>3. Plain(start)
      BY <2>1, <2>2, PlainFacts
  <2>4. Plain(<<>>) /\ Plain(start \o <<Do("arm", f)>>) /\ Plain(start \o <<>>)
      BY <2>1, <2>3, PlainFacts
  <2> QED BY <2>4
<1>5. Works' /\ SameHolders
    BY <1>1, <1>3, <1>4, ContinueMoves DEF Typed
<1>6. UNCHANGED <<txVars, devVars, chVars, ctlVars, mgrVars, panicked, calls>>
    BY DEF authenticateTx
<1>7. Types' /\ Aside
    BY <1>5, <1>6
    DEF Typed, Types, Aside, toldVars, txVars, devVars, chVars, ctlVars, mgrVars
<1> QED
    BY <1>5, <1>7 DEF Typed

(* An attempt starts to run.                                               *)
LEMMA RunTxStep ==
    ASSUME Typed, NEW t \in Threads, runTx(t)
    PROVE  Typed' /\ Aside
<1>1. Works' /\ SameHolders
    BY PlainFacts, ContinueMoves DEF Typed, runTx
<1>2. PICK a : attempt' = [attempt EXCEPT ![a] = "running"]
    BY DEF runTx
<1>3. attempt' \in [Attempts -> {"none", "running", "stopping", "done"}]
    BY <1>2 DEF Typed, Types
<1>4. UNCHANGED <<txVars, reports, timers, chVars, ctlVars, mgrVars, panicked, calls>>
    BY DEF runTx
<1>5. Types' /\ Aside
    BY <1>1, <1>3, <1>4
    DEF Typed, Types, Aside, toldVars, txVars, chVars, ctlVars, mgrVars
<1> QED
    BY <1>1, <1>5 DEF Typed

(* A timeout is armed.                                                     *)
LEMMA ArmTimeoutStep ==
    ASSUME Typed, NEW t \in Threads, armTimeout(t)
    PROVE  Typed' /\ Aside
<1>1. Head(todo[t]).f \in Factors
    BY HeadTyped DEF Typed, armTimeout, FactorOps
<1>2. Works' /\ SameHolders
    BY PlainFacts, ContinueMoves DEF Typed, armTimeout
<1>3. timers' \in [Factors -> Nat]
    BY <1>1 DEF armTimeout, Typed, Types
<1>4. UNCHANGED <<txVars, attempt, reports, chVars, ctlVars, mgrVars, panicked, calls>>
    BY DEF armTimeout
<1>5. Types' /\ Aside
    BY <1>2, <1>3, <1>4
    DEF Typed, Types, Aside, toldVars, txVars, chVars, ctlVars, mgrVars
<1> QED
    BY <1>2, <1>5 DEF Typed

(* Start starts listenResultCh and marks the session started.              *)
LEMMA StartedSteps ==
    ASSUME Typed, NEW t \in Threads, startListening(t) \/ markStarted(t)
    PROVE  Typed' /\ Aside
<1>1. PICK o \in {"once", "started"} : Next1(t, o)
    BY DEF startListening, markStarted
<1>2. Continue(t, <<>>)
    BY DEF startListening, markStarted
<1>3. Works' /\ SameHolders
    BY <1>1, <1>2, PlainFacts, ContinueMoves DEF Typed
<1>4. CASE startListening(t)
    BY <1>3, <1>4
    DEF startListening, Typed, Types, Aside, toldVars, txVars, devVars, chVars, mgrVars
<1>5. CASE markStarted(t)
    BY <1>3, <1>5
    DEF markStarted, Typed, Types, Aside, toldVars, txVars, devVars, chVars, ctlVars
<1> QED
    BY <1>4, <1>5

(* endAll decides between Ended and Cancel.                                *)
LEMMA EndAllStep ==
    ASSUME Typed, NEW t \in Threads, endAll(t)
    PROVE  Typed' /\ Aside
<1>1. PICK s \in {"Ended", "Cancel"} :
          Continue(t, <<Emit(s), Do("isEnded", NoFactor), Do("leave", NoFactor)>>)
    BY DEF endAll
<1>2. Plain(<<Emit(s), Do("isEnded", NoFactor), Do("leave", NoFactor)>>)
  <2>1. {"isEnded", "leave"} \subseteq OtherOps \ {"emit"}
      BY DEF OtherOps
  <2>2. /\ Plain(<<Emit(s)>>) /\ Plain(<<Do("isEnded", NoFactor)>>)
        /\ Plain(<<Do("leave", NoFactor)>>)
      BY <2>1, OpsMade, PlainFacts
  <2>3. Plain(<<Emit(s)>> \o <<Do("isEnded", NoFactor)>> \o <<Do("leave", NoFactor)>>)
      BY <2>2, PlainFacts
  <2>4. <<Emit(s), Do("isEnded", NoFactor), Do("leave", NoFactor)>>
            = <<Emit(s)>> \o <<Do("isEnded", NoFactor)>> \o <<Do("leave", NoFactor)>>
    <3> HIDE DEF Emit
    <3> QED OBVIOUS
  <2> QED BY <2>3, <2>4
<1>3. Works' /\ SameHolders
    BY <1>1, <1>2, ContinueMoves DEF Typed, endAll
<1>4. UNCHANGED <<txVars, devVars, chVars, ctlVars, mgrVars, panicked, calls>>
    BY DEF endAll
<1>5. Types' /\ Aside
    BY <1>3, <1>4
    DEF Typed, Types, Aside, toldVars, txVars, devVars, chVars, ctlVars, mgrVars
<1> QED
    BY <1>3, <1>5 DEF Typed

(* What End emits never makes the session pass.                            *)
LEMMA EmitEndStep ==
    ASSUME Typed, NEW t \in Threads, emitEnd(t)
    PROVE  Typed' /\ Aside
<1>1. Head(todo[t]).s \in {"Ended", "Cancel"}
    BY HeadTyped DEF Typed, emitEnd
<1>2. Works' /\ SameHolders
    BY PlainFacts, ContinueMoves DEF Typed, emitEnd
<1>3. finalResultGiven' = TRUE /\ statusResult' = "Failure"
    BY <1>1 DEF emitEnd, FinalResult
<1>4. UNCHANGED <<txVars, devVars, chVars, ctlVars, isStarted, quitMethod, canceled, quited,
                  quitTimer, panicked, calls>>
    BY DEF emitEnd
<1>5. Types' /\ Aside
    BY <1>2, <1>3, <1>4
    DEF Typed, Types, Aside, toldVars, txVars, devVars, chVars, ctlVars
<1> QED
    BY <1>2, <1>5 DEF Typed

(* end of the controller looks whether the session has ended.              *)
LEMMA IsEndedStep ==
    ASSUME Typed, NEW t \in Threads, isEnded(t)
    PROVE  Typed' /\ Aside
<1>1. PICK ops \in {<<>>, <<Do("close", NoFactor)>>} : Continue(t, ops)
    BY DEF isEnded
<1>2. Plain(ops)
  <2>1. "close" \in OtherOps \ {"emit"}
      BY DEF OtherOps
  <2> QED BY <2>1, OpsMade, PlainFacts
<1>3. Works' /\ SameHolders
    BY <1>1, <1>2, ContinueMoves DEF Typed, isEnded
<1>4. UNCHANGED <<txVars, devVars, chVars, ctlVars, mgrVars, panicked, calls>>
    BY DEF isEnded
<1>5. Types' /\ Aside
    BY <1>3, <1>4
    DEF Typed, Types, Aside, toldVars, txVars, devVars, chVars, ctlVars, mgrVars
<1> QED
    BY <1>3, <1>5 DEF Typed

(* Closing resultCh ends the session, or panics.                           *)
LEMMA CloseStep ==
    ASSUME Typed, NEW t \in Threads, closeResultCh(t)
    PROVE  Typed' /\ Aside
<1>1. CASE ended
  <2>1. panicked' = TRUE /\ todo' = todo /\ ended' = ended
      BY <1>1 DEF closeResultCh, Panic
  <2>2. Works' /\ SameHolders
      BY <2>1, StillWork DEF Typed
  <2>3. Types' /\ Aside
      BY <2>1, <2>2
      DEF closeResultCh, Typed, Types, Aside, toldVars, txVars, devVars, ctlVars, mgrVars
  <2> QED BY <2>2, <2>3 DEF Typed
<1>2. CASE ~ended
  <2>1. ended' = TRUE /\ panicked' = panicked /\ Continue(t, ForEach("endBusy", Factors))
      BY <1>2 DEF closeResultCh
  <2>2. Plain(ForEach("endBusy", Factors))
      BY ForEachTyped DEF FactorOps
  <2>3. Works' /\ SameHolders
      BY <2>1, <2>2, ContinueMoves DEF Typed, closeResultCh
  <2>4. Types' /\ Aside
      BY <2>1, <2>3
      DEF closeResultCh, Typed, Types, Aside, toldVars, txVars, devVars, ctlVars, mgrVars
  <2> QED BY <2>3, <2>4 DEF Typed
<1> QED
    BY <1>1, <1>2

(* The session quits, at once or later.                                    *)
LEMMA LeaveStep ==
    ASSUME Typed, NEW t \in Threads, leave(t)
    PROVE  Typed' /\ Aside
<1>1. Works' /\ SameHolders
    BY PlainFacts, ContinueMoves DEF Typed, leave
<1>2. Types' /\ Aside
    BY <1>1
    DEF leave, Typed, Types, Aside, toldVars, txVars, devVars, chVars, ctlVars
<1> QED
    BY <1>1, <1>2 DEF Typed

(* Quit, the delayed quit and SetQuitFlag touch the manager only.          *)
LEMMA QuitSteps ==
    ASSUME Typed,
           quitLater \/ Quit \/ \E method \in {"auto", "manual"} : SetQuitFlag(method)
    PROVE  Typed' /\ Aside
<1>1. Works' /\ SameHolders
    BY StillWork DEF quitLater, Quit, SetQuitFlag, Typed
<1>2. calls < MaxCalls => calls + 1 \in 0..MaxCalls
    BY SessionAssumption DEF Typed, Types
<1>3. CASE quitLater
    BY <1>1, <1>3
    DEF quitLater, Typed, Types, Aside, toldVars, txVars, devVars, chVars, ctlVars
<1>4. CASE Quit
    BY <1>1, <1>2, <1>4
    DEF Quit, Typed, Types, Aside, toldVars, txVars, devVars, chVars, ctlVars
<1>5. ASSUME NEW method \in {"auto", "manual"}, SetQuitFlag(method) PROVE Typed' /\ Aside
    BY <1>1, <1>2, <1>5
    DEF SetQuitFlag, Typed, Types, Aside, toldVars, txVars, devVars, chVars, ctlVars
<1> QED
    BY <1>3, <1>4, <1>5

(* An attempt that was told to stop is over.                               *)
LEMMA StoppedStep ==
    ASSUME Typed, NEW a \in Attempts, stopped(a)
    PROVE  Typed' /\ Aside
<1>1. Works' /\ SameHolders
    BY StillWork DEF stopped, Typed
<1>2. Types' /\ Aside
    BY <1>1 DEF stopped, Typed, Types, Aside, toldVars, txVars, chVars, ctlVars, mgrVars
<1> QED
    BY <1>1, <1>2 DEF Typed

(* A device reports: giveStatus starts in the goroutine of the attempt.    *)
LEMMA ReportStep ==
    ASSUME Typed, NEW a \in Attempts, report(a)
    PROVE  Typed' /\ Aside
<1>1. a[1] \in Factors /\ a \in Threads
    BY DEF Attempts, Threads
<1>2. PICK s \in Reports :
          /\ todo' = [todo EXCEPT ![a] = <<Give(a[1], s)>>]
          /\ attempt' = IF s \in Results THEN [attempt EXCEPT ![a] = "done"] ELSE attempt
    BY DEF report
<1>3. Plain(<<Give(a[1], s)>>)
  <2>1. s \in Status
      BY SessionAssumption
  <2>2. Give(a[1], s) \in Ops /\ Give(a[1], s).op = "give"
      BY <1>1, <2>1, OpsMade
  <2> QED BY <2>2, PlainFacts
<1>4. Works' /\ SameHolders
    BY <1>1, <1>2, <1>3, GoMoves DEF Typed, Go, report
<1>5. attempt' \in [Attempts -> {"none", "running", "stopping", "done"}]
    BY <1>2 DEF Typed, Types
<1>6. reports' \in [Attempts -> 0..MaxReports]
    BY SessionAssumption DEF report, Typed, Types
<1>7. UNCHANGED <<txVars, timers, chVars, ctlVars, mgrVars, panicked, calls>>
    BY DEF report
<1>8. Types' /\ Aside
    BY <1>4, <1>5, <1>6, <1>7
    DEF Typed, Types, Aside, toldVars, txVars, chVars, ctlVars, mgrVars
<1> QED
    BY <1>4, <1>8 DEF Typed

(* A goroutine that a call starts.                                         *)
LEMMA CallStep ==
    ASSUME Typed, NEW g \in Goroutines, NEW method, NEW ops, Plain(ops), Call(g, method, ops)
    PROVE  Typed' /\ Aside
<1>1. Works' /\ SameHolders
    BY GoMoves DEF Call, Typed, Threads
<1>2. calls < MaxCalls => calls + 1 \in 0..MaxCalls
    BY SessionAssumption DEF Typed, Types
<1>3. Types' /\ Aside
    BY <1>1, <1>2
    DEF Call, Typed, Types, Aside, toldVars, txVars, devVars, chVars, ctlVars, mgrVars
<1> QED
    BY <1>1, <1>3 DEF Typed

(* Start checks the limits of its factors, then starts them.               *)
LEMMA StartStep ==
    ASSUME Typed, NEW g \in Goroutines, NEW flag, NEW timed, Start(g, flag, timed)
    PROVE  Typed' /\ Aside
<1> DEFINE p == ForEach("checkLimit", flag)
           q == ForEach(IF timed THEN "tryTimed" ELSE "try", flag)
<1>1. Plain(p) /\ Plain(q)
  <2>1. PICK o \in {"try", "tryTimed"} : o = IF timed THEN "tryTimed" ELSE "try"
      OBVIOUS
  <2>2. {"checkLimit", "try", "tryTimed"} \subseteq FactorOps \ {"setLock", "send"}
      BY DEF FactorOps
  <2> QED BY <2>1, <2>2, ForEachTyped
<1>2. Plain(<<Do("once", NoFactor)>>) /\ Plain(<<Do("started", NoFactor)>>)
    BY OpsMade, PlainFacts DEF OtherOps
<1> HIDE DEF p, q
<1>3. Plain(p \o <<Do("once", NoFactor)>> \o q \o <<Do("started", NoFactor)>>)
    BY <1>1, <1>2, PlainFacts
<1>4. Call(g, "Start", p \o <<Do("once", NoFactor)>> \o q \o <<Do("started", NoFactor)>>)
    BY Zenon DEF Start, p, q
<1> QED
    BY <1>3, <1>4, CallStep

(* End ends the factors it names, or all.                                  *)
LEMMA EndStep ==
    ASSUME Typed, NEW g \in Goroutines, NEW flag, End(g, flag) \/ EndAll(g)
    PROVE  Typed' /\ Aside
<1>1. Plain(ForEach("endBusy", flag))
    BY ForEachTyped DEF FactorOps
<1>2. Plain(<<Do("endAll", NoFactor)>>)
    BY OpsMade, PlainFacts DEF OtherOps
<1> QED
    BY <1>1, <1>2, CallStep DEF End, EndAll

(* A timeout ends its factor.                                              *)
LEMMA TimeoutStep ==
    ASSUME Typed, NEW g \in Goroutines, NEW f \in Factors, timeout(g, f)
    PROVE  Typed' /\ Aside
<1>1. Works' /\ SameHolders
    BY EndTxPlain, GoMoves DEF timeout, Typed, Threads
<1>2. timers' \in [Factors -> Nat]
    BY DEF timeout, Typed, Types
<1>3. Types' /\ Aside
    BY <1>1, <1>2
    DEF timeout, Typed, Types, Aside, toldVars, txVars, chVars, ctlVars, mgrVars
<1> QED
    BY <1>1, <1>3 DEF Typed

(* TTYChanged ends a biometric factor.                                     *)
LEMMA CancelLastTxStep ==
    ASSUME Typed, NEW g \in Goroutines, NEW f \in Factors, cancelLastTx(g, f)
    PROVE  Typed' /\ Aside
<1>1. Works' /\ SameHolders
    BY EndTxPlain, GoMoves DEF cancelLastTx, Typed, Threads
<1>2. calls < MaxCalls => calls + 1 \in 0..MaxCalls
    BY SessionAssumption DEF Typed, Types
<1>3. Types' /\ Aside
    BY <1>1, <1>2
    DEF cancelLastTx, Typed, Types, Aside, toldVars, txVars, devVars, chVars, ctlVars, mgrVars
<1> QED
    BY <1>1, <1>3 DEF Typed

(* LimitUpdated checks the limits of every factor.                         *)
LEMMA LimitUpdatedStep ==
    ASSUME Typed, LimitUpdated
    PROVE  Typed' /\ Aside
<1>1. Plain(ForEach("checkLimit", Factors))
    BY ForEachTyped DEF FactorOps
<1>2. Works' /\ SameHolders
    BY <1>1, GoMoves DEF LimitUpdated, Typed, Threads
<1>3. calls < MaxCalls => calls + 1 \in 0..MaxCalls
    BY SessionAssumption DEF Typed, Types
<1>4. Types' /\ Aside
    BY <1>2, <1>3
    DEF LimitUpdated, Typed, Types, Aside, toldVars, txVars, devVars, chVars, ctlVars, mgrVars
<1> QED
    BY <1>2, <1>4 DEF Typed

(* The state that a status gives a factor.                                 *)
LEMMA CodeTyped == \A s : statusCodeToDevState(s) \in DevStates
    BY DEF statusCodeToDevState, DevStates

(* giveStatus while the session has not ended: t holds the factor f, and   *)
(* no one else does.                                                       *)
LEMMA GiveStep ==
    ASSUME Typed, NEW t \in Threads, giveStatus(t)
    PROVE  /\ Typed'
           /\ \/ ended /\ Typed' /\ SameHolders
              \/ \E f \in Factors, s \in Status :
                    /\ \A u \in Threads : ~Holds(u, f)
                    /\ \A u \in Threads : \A g : Holds(u, g)' <=> Holds(u, g) \/ (u = t /\ g = f)
                    /\ \A u \in Threads : \A g : Holds(u, g) => todo'[u] = todo[u]
                    /\ Head(todo'[t]).s = s
                    /\ devState' = [devState EXCEPT ![f] = statusCodeToDevState(s)]
           /\ UNCHANGED <<resultCh, shown, sent, charged, result, passNumber, verdict, ended,
                          statusResult>>
<1> DEFINE f == Head(todo[t]).f
           s == Head(todo[t]).s
<1>1. f \in Factors /\ s \in Status
    BY HeadTyped DEF Typed, giveStatus, FactorOps
<1>2. /\ \A u \in Threads : ~Holds(u, f)
      /\ devState' = [devState EXCEPT ![f] = statusCodeToDevState(s)]
      /\ Continue(t, IF ended THEN <<>> ELSE <<Send(f, s)>>)
      /\ Next1(t, "give")
      /\ UNCHANGED <<lockState, devVars, chVars, ctlVars, mgrVars, panicked, calls>>
    BY DEF giveStatus
<1> HIDE DEF f, s
<1>3. Types'
    BY <1>1, <1>2, CodeTyped DEF Typed, Types, devVars, chVars, ctlVars, mgrVars
<1>4. UNCHANGED <<resultCh, shown, sent, charged, result, passNumber, verdict, ended,
                  statusResult>>
    BY <1>2 DEF chVars, ctlVars, mgrVars
<1>5. CASE ended
  <2>1. Works' /\ SameHolders
      BY <1>2, <1>5, PlainFacts, ContinueMoves DEF Typed
  <2> QED BY <1>3, <1>4, <1>5, <2>1 DEF Typed
<1>6. CASE ~ended
  <2> DEFINE a == Send(f, s)
             q == <<a>> \o Tail(todo[t])
  <2>1. a \in Ops /\ a.op = "send" /\ a.f = f /\ a.s = s
      BY <1>1, OpsMade
  <2>2. Work(todo[t]) /\ todo[t] # <<>> /\ Head(todo[t]).op = "give"
      BY <1>2 DEF Typed, Works, Next1
  <2> HIDE DEF a
  <2>3. Work(q) /\ q # <<>> /\ Head(q) = a
      BY <2>1, <2>2, ContinueWork
  <2>4. todo' = [todo EXCEPT ![t] = q]
      BY <1>2, <1>6 DEF Continue, a, Typed, Works
  <2>5. q \in Seq(Ops)
      BY <2>3 DEF Work
  <2> HIDE DEF q
  <2>6. /\ todo' \in [Threads -> Seq(Ops)] /\ todo'[t] = q
        /\ \A u \in Threads \ {t} : todo'[u] = todo[u]
      BY <2>4, <2>5 DEF Typed, Works
  <2>7. Works'
      BY <2>3, <2>6 DEF Typed, Works
  <2>8. \A g : ~Holds(t, g)
      BY <2>2 DEF Holds
  <2>9. \A g : Holds(t, g)' <=> g = f
      BY <2>1, <2>3, <2>6 DEF Holds
  <2>10. \A u \in Threads : \A g : Holds(u, g)' <=> Holds(u, g) \/ (u = t /\ g = f)
    <3>1. \A u \in Threads \ {t} : \A g : Holds(u, g)' <=> Holds(u, g)
        BY <2>6 DEF Holds
    <3> QED BY <2>8, <2>9, <3>1
  <2>11. \A u \in Threads : \A g : Holds(u, g) => todo'[u] = todo[u]
      BY <2>6, <2>8
  <2>12. Head(todo'[t]).s = s
      BY <2>1, <2>3, <2>6
  <2> QED BY <1>1, <1>2, <1>3, <1>4, <2>7, <2>10, <2>11, <2>12 DEF Typed
<1> QED
    BY <1>5, <1>6

(* sendStatus: the status of the factor that t holds goes to resultCh.     *)
LEMMA SendStep ==
    ASSUME Typed, NEW t \in Threads, sendStatus(t)
    PROVE  /\ Typed'
           /\ UNCHANGED <<devState, shown, charged, result, passNumber, verdict, ended,
                          statusResult>>
           /\ \/ ended /\ SameHolders /\ UNCHANGED <<resultCh, sent>>
              \/ \E r \in Result :
                    /\ Holds(t, r.f) /\ Head(todo[t]).s = r.s
                    /\ \A u \in Threads : \A g : Holds(u, g)' <=> Holds(u, g) /\ u # t
                    /\ \A u \in Threads \ {t} : todo'[u] = todo[u]
                    /\ resultCh' = Append(resultCh, r)
                    /\ sent' = [sent EXCEPT ![r.f] = IF Chargeable(r.s) THEN @ + 1 ELSE @]
<1> DEFINE f == Head(todo[t]).f
           s == Head(todo[t]).s
           r == [f |-> f, s |-> s]
<1>1. f \in Factors /\ s \in Status
    BY HeadTyped DEF Typed, sendStatus, FactorOps
<1>2. /\ Next1(t, "send")
      /\ IF ended
         THEN Panic /\ UNCHANGED <<resultCh, sent>>
         ELSE /\ Len(resultCh) < Cap
              /\ resultCh' = Append(resultCh, r)
              /\ sent' = [sent EXCEPT ![f] = IF Chargeable(s) THEN @ + 1 ELSE @]
              /\ Continue(t, <<>>)
              /\ UNCHANGED panicked
      /\ UNCHANGED <<txVars, devVars, ended, ctlVars, mgrVars, calls>>
    BY DEF sendStatus
<1>3. r \in Result /\ r.f = f /\ r.s = s
    BY <1>1 DEF Result
<1>4. Holds(t, f)
    BY <1>2 DEF Holds, Next1
<1> HIDE DEF f, s, r
<1>5. UNCHANGED <<devState, shown, charged, result, passNumber, verdict, ended,
                  statusResult>>
    BY <1>2 DEF txVars, ctlVars, mgrVars
<1>6. CASE ended
  <2>1. todo' = todo /\ panicked' = TRUE /\ UNCHANGED <<resultCh, sent>>
      BY <1>2, <1>6 DEF Panic
  <2>2. Works' /\ SameHolders
      BY <2>1, StillWork DEF Typed
  <2>3. Types'
      BY <1>2, <2>1 DEF Typed, Types, txVars, devVars, ctlVars, mgrVars
  <2> QED BY <1>5, <1>6, <2>1, <2>2, <2>3 DEF Typed
<1>7. CASE ~ended
  <2> DEFINE q == <<>> \o Tail(todo[t])
  <2>1. /\ Len(resultCh) < Cap /\ resultCh' = Append(resultCh, r)
        /\ sent' = [sent EXCEPT ![f] = IF Chargeable(s) THEN @ + 1 ELSE @]
        /\ Continue(t, <<>>) /\ UNCHANGED panicked
      BY <1>2, <1>7
  <2>2. Work(todo[t]) /\ todo[t] # <<>>
      BY <1>2 DEF Typed, Works, Next1
  <2>3. Plain(q)
      BY <2>2, ContinueWork
  <2>4. todo' = [todo EXCEPT ![t] = q]
      BY <2>1 DEF Continue, Typed, Works
  <2> HIDE DEF q
  <2>5. q \in Seq(Ops) /\ Work(q) /\ (q # <<>> => Head(q).op # "send")
      BY <2>3, PlainFacts
  <2>6. /\ todo' \in [Threads -> Seq(Ops)] /\ todo'[t] = q
        /\ \A u \in Threads \ {t} : todo'[u] = todo[u]
      BY <2>4, <2>5 DEF Typed, Works
  <2>7. Works'
      BY <2>5, <2>6 DEF Typed, Works
  <2>8. \A u \in Threads : \A g : Holds(u, g)' <=> Holds(u, g) /\ u # t
      BY <2>5, <2>6 DEF Holds
  <2>9. resultCh' \in Seq(Result) /\ Len(resultCh') <= Cap
    <3>1. Len(resultCh) \in Nat /\ Cap \in Nat
        BY SessionAssumption, LenProperties DEF Typed, Types
    <3> QED
        BY <1>3, <2>1, <3>1 DEF Typed, Types
  <2>10. sent' \in [Factors -> Nat]
      BY <1>1, <2>1 DEF Typed, Types
  <2>11. Types'
      BY <1>2, <2>1, <2>9, <2>10 DEF Typed, Types, txVars, devVars, ctlVars, mgrVars
  <2> QED
      BY <1>3, <1>4, <1>5, <2>1, <2>6, <2>7, <2>8, <2>11 DEF Typed, f, s
<1> QED
    BY <1>6, <1>7

(* receive: the oldest result leaves resultCh.                             *)
LEMMA ReceiveStep ==
    ASSUME Typed, receive
    PROVE  /\ Typed' /\ SameHolders
           /\ UNCHANGED <<devState, ended, sent, statusResult>>
           /\ resultCh # <<>> /\ resultCh' = Tail(resultCh)
           /\ \E r \in Result :
                 /\ r = Head(resultCh)
                 /\ shown' = [shown EXCEPT ![r.f] = r.s]
                 /\ charged' = [charged EXCEPT ![r.f] = IF Chargeable(r.s) THEN @ + 1 ELSE @]
                 /\ \/ UNCHANGED <<result, passNumber, verdict>>
                    \/ /\ result' = [result EXCEPT ![r.f] = r.s]
                       /\ passNumber' = Counted(r.f)
                       /\ MFA => verdict' = getVerifyResult(result', passNumber')
<1> DEFINE f == Head(resultCh).f
           s == Head(resultCh).s
           r == Head(resultCh)
<1>1. /\ resultCh # <<>> /\ resultCh' = Tail(resultCh)
      /\ shown' = [shown EXCEPT ![f] = s]
      /\ UNCHANGED <<txVars, devVars, todo, ended, sent, listening, mgrVars, panicked, calls>>
    BY DEF receive
<1>2. \/ shouldIgnore(s) /\ UNCHANGED <<charged, result, passNumber, verdict>>
      \/ /\ ~shouldIgnore(s)
         /\ charged' = [charged EXCEPT ![f] = Charged(f, s)]
         /\ result' = [result EXCEPT ![f] = s]
         /\ passNumber' = Counted(f)
         /\ verdict' = IF MFA THEN getVerifyResult(result', passNumber')
                       ELSE adjudgeFinalResult(result')
    BY DEF receive
<1>3. /\ r \in Result /\ f \in Factors /\ s \in Status
      /\ Tail(resultCh) \in Seq(Result) /\ Len(Tail(resultCh)) = Len(resultCh) - 1
      /\ Len(resultCh) \in Nat
  <2>1. resultCh \in Seq(Result)
      BY DEF Typed, Types
  <2>2. r \in Result
      BY <1>1, <2>1, HeadTailProperties
  <2> QED BY <1>1, <2>1, <2>2, HeadTailProperties, LenProperties DEF Result
<1>4. f \in Required
    BY <1>3, SessionAssumption
<1> HIDE DEF f, s
<1>5. Works' /\ SameHolders
    BY <1>1, StillWork DEF Typed
<1>6. charged' = [charged EXCEPT ![f] = IF Chargeable(s) THEN @ + 1 ELSE @]
  <2>1. CASE shouldIgnore(s)
    <3>1. ~Chargeable(s)
        BY <2>1 DEF shouldIgnore, Chargeable
    <3> QED BY <1>2, <1>3, <2>1, <3>1 DEF Typed, Types
  <2>2. CASE ~shouldIgnore(s)
      BY <1>2, <1>3, <2>2 DEF Charged, Typed, Types
  <2> QED BY <2>1, <2>2
<1>7. /\ result' \in [Required -> Status \cup {"none"}] /\ passNumber' \in Nat
      /\ verdict' \in {"none", "Success", "Failure"}
  <2>1. /\ \A x, n : getVerifyResult(x, n) \in {"none", "Success", "Failure"}
        /\ \A x : adjudgeFinalResult(x) \in {"none", "Success", "Failure"}
      BY Zenon DEF getVerifyResult, adjudgeFinalResult
  <2>2. verdict' \in {"none", "Success", "Failure"}
      BY <1>2, <2>1 DEF Typed, Types
  <2>3. Counted(f) \in Nat
      BY DEF Counted, Typed, Types
  <2> QED BY <1>2, <1>3, <1>4, <2>2, <2>3 DEF Typed, Types
<1>8. charged' \in [Factors -> Nat] /\ shown' \in [Factors -> Status]
    BY <1>1, <1>3, <1>6 DEF Typed, Types
<1>9. Cap \in Nat
    BY SessionAssumption
<1>10. Types'
    BY <1>1, <1>3, <1>7, <1>8, <1>9 DEF Typed, Types, txVars, devVars, mgrVars
<1>11. UNCHANGED <<devState, ended, sent, statusResult>>
    BY <1>1 DEF txVars, mgrVars
<1>12. \/ UNCHANGED <<result, passNumber, verdict>>
       \/ /\ result' = [result EXCEPT ![f] = s]
          /\ passNumber' = Counted(f)
          /\ MFA => verdict' = getVerifyResult(result', passNumber')
    BY <1>2
<1>13. r.f = f /\ r.s = s
    BY DEF f, s
<1>14. \E x \in Result :
          /\ x = Head(resultCh)
          /\ shown' = [shown EXCEPT ![x.f] = x.s]
          /\ charged' = [charged EXCEPT ![x.f] = IF Chargeable(x.s) THEN @ + 1 ELSE @]
          /\ \/ UNCHANGED <<result, passNumber, verdict>>
             \/ /\ result' = [result EXCEPT ![x.f] = x.s]
                /\ passNumber' = Counted(x.f)
                /\ MFA => verdict' = getVerifyResult(result', passNumber')
  <2>1. r \in Result /\ r = Head(resultCh)
      BY <1>3
  <2> HIDE DEF r
  <2> QED BY <1>1, <1>6, <1>12, <1>13, <2>1
<1> QED
    BY <1>1, <1>5, <1>10, <1>11, <1>14 DEF Typed

(* The verdict becomes the result that GetResult answers.                  *)
LEMMA EmitVerdictStep ==
    ASSUME Typed, emitVerdict
    PROVE  /\ Typed' /\ SameHolders
           /\ UNCHANGED <<devState, resultCh, shown, sent, charged, result, passNumber, ended>>
           /\ statusResult' = verdict /\ verdict' = "none"
<1>1. Works' /\ SameHolders
    BY StillWork DEF emitVerdict, Typed
<1>2. statusResult' = verdict /\ finalResultGiven' = TRUE /\ verdict' = "none"
    BY DEF emitVerdict, FinalResult, Typed, Types
<1>3. UNCHANGED <<txVars, devVars, todo, chVars, listening, result, passNumber, shown, charged,
                  isStarted, quitMethod, canceled, quited, quitTimer, panicked, calls>>
    BY DEF emitVerdict
<1>4. Types'
    BY <1>2, <1>3 DEF emitVerdict, Typed, Types, txVars, devVars, chVars
<1> QED
    BY <1>1, <1>2, <1>3, <1>4 DEF Typed, txVars, chVars

-----------------------------------------------------------------------------
(* i is the place of the last status of f in the channel.                  *)
LastOf(f, i) ==
    /\ i \in 1..Len(resultCh) /\ resultCh[i].f = f
    /\ \A j \in 1..Len(resultCh) : j > i => resultCh[j].f # f

(* The device state of f is that of the status about to be sent, or of the *)
(* last one queued, or of the last one shown.                              *)
Told(f) ==
    /\ \A t, u \in Threads : Holds(t, f) /\ Holds(u, f) => t = u
    /\ ~ended =>
          /\ \A t \in Threads : Holds(t, f) =>
                devState[f] = statusCodeToDevState(Head(todo[t]).s)
          /\ (\A t \in Threads : ~Holds(t, f)) =>
                /\ \A i : LastOf(f, i) => devState[f] = statusCodeToDevState(resultCh[i].s)
                /\ Queued(f) = {} => devState[f] = statusCodeToDevState(shown[f])

ToldInv == \A f \in Factors : Told(f)

(* The places of the statuses in resultCh.                                 *)
LEMMA ChannelTyped ==
    ASSUME Typed
    PROVE  /\ resultCh \in Seq(Result) /\ Len(resultCh) \in Nat
           /\ DOMAIN resultCh = 1..Len(resultCh)
           /\ \A f : Queued(f) = {i \in 1..Len(resultCh) : resultCh[i].f = f}
           /\ resultCh # <<>> => Head(resultCh) = resultCh[1] /\ Len(resultCh) > 0
<1>1. resultCh \in Seq(Result)
    BY DEF Typed, Types
<1>2. Len(resultCh) \in Nat /\ DOMAIN resultCh = 1..Len(resultCh)
    BY <1>1, LenProperties
<1>3. \A f : Queued(f) = {i \in 1..Len(resultCh) : resultCh[i].f = f}
    BY <1>2 DEF Queued
<1>4. resultCh # <<>> => Head(resultCh) = resultCh[1] /\ Len(resultCh) > 0
    BY <1>1, EmptySeq
<1> QED
    BY <1>1, <1>2, <1>3, <1>4

(* The steps about neither a status nor a result keep the client's view.   *)
LEMMA ToldAside ==
    ASSUME Typed, ToldInv, Aside
    PROVE  ToldInv'
<1> SUFFICES ASSUME NEW f \in Factors PROVE Told(f)'
    BY DEF ToldInv
<1>1. Told(f)
    BY DEF ToldInv
<1>2. /\ \A t \in Threads : Holds(t, f)' <=> Holds(t, f)
      /\ \A t \in Threads : Holds(t, f) => todo'[t] = todo[t]
    BY DEF Aside, SameHolders
<1>3. UNCHANGED <<devState, resultCh, shown>> /\ (ended => ended')
    BY DEF Aside, toldVars
<1>4. Queued(f)' = Queued(f) /\ \A i : LastOf(f, i)' <=> LastOf(f, i)
    BY <1>3 DEF Queued, LastOf
<1> QED
    BY <1>1, <1>2, <1>3, <1>4 DEF Told

(* giveStatus waits for the holder of the factor, so there is one at most. *)
LEMMA ToldGive ==
    ASSUME Typed, ToldInv, NEW t \in Threads, giveStatus(t)
    PROVE  ToldInv'
<1>1. UNCHANGED <<resultCh, shown, sent, charged, result, passNumber, verdict, ended,
                  statusResult>>
    BY GiveStep
<1>2. CASE ended
  <2> SUFFICES ASSUME NEW f \in Factors, NEW u \in Threads, NEW v \in Threads,
                      Holds(u, f)', Holds(v, f)'
               PROVE  u = v
      BY <1>1, <1>2 DEF ToldInv, Told
  <2>1. CASE SameHolders
      BY <2>1 DEF SameHolders, ToldInv, Told
  <2>2. ASSUME NEW g \in Factors, \A x \in Threads : ~Holds(x, g),
               \A x \in Threads : \A h : Holds(x, h)' <=> Holds(x, h) \/ (x = t /\ h = g)
        PROVE  u = v
      BY <2>2 DEF ToldInv, Told
  <2> QED BY <2>1, <2>2, GiveStep
<1>3. CASE ~ended
  <2>1. PICK f \in Factors, s \in Status :
            /\ \A u \in Threads : ~Holds(u, f)
            /\ \A u \in Threads : \A g : Holds(u, g)' <=> Holds(u, g) \/ (u = t /\ g = f)
            /\ \A u \in Threads : \A g : Holds(u, g) => todo'[u] = todo[u]
            /\ Head(todo'[t]).s = s
            /\ devState' = [devState EXCEPT ![f] = statusCodeToDevState(s)]
      BY <1>3, GiveStep
  <2>2. /\ devState'[f] = statusCodeToDevState(s)
        /\ \A g \in Factors \ {f} : devState'[g] = devState[g]
      BY <2>1 DEF Typed, Types
  <2>3. Told(f)'
    <3>1. \A u \in Threads : Holds(u, f)' <=> u = t
        BY <2>1
    <3> QED BY <2>1, <2>2, <3>1 DEF Told
  <2>4. ASSUME NEW g \in Factors \ {f} PROVE Told(g)'
    <3>1. \A u \in Threads : Holds(u, g)' <=> Holds(u, g)
        BY <2>1
    <3>2. Queued(g)' = Queued(g) /\ \A i : LastOf(g, i)' <=> LastOf(g, i)
        BY <1>1 DEF Queued, LastOf
    <3>3. Told(g)
        BY DEF ToldInv
    <3>4. \A u \in Threads : Holds(u, g) => todo'[u] = todo[u]
        BY <2>1
    <3> QED BY <1>1, <2>2, <3>1, <3>2, <3>3, <3>4 DEF Told
  <2> QED BY <2>3, <2>4 DEF ToldInv
<1> QED
    BY <1>2, <1>3

(* The status of the holder becomes the last one queued.                   *)
LEMMA ToldSend ==
    ASSUME Typed, ToldInv, NEW t \in Threads, sendStatus(t)
    PROVE  ToldInv'
<1>1. UNCHANGED <<devState, shown, charged, result, passNumber, verdict, ended,
                  statusResult>>
    BY SendStep
<1>2. CASE ended /\ SameHolders /\ UNCHANGED <<resultCh, sent>>
  <2>1. Aside
      BY <1>1, <1>2 DEF Aside, toldVars
  <2> QED BY <2>1, ToldAside
<1>3. ASSUME NEW r \in Result,
             Holds(t, r.f), Head(todo[t]).s = r.s,
             \A u \in Threads : \A g : Holds(u, g)' <=> Holds(u, g) /\ u # t,
             \A u \in Threads \ {t} : todo'[u] = todo[u],
             resultCh' = Append(resultCh, r)
      PROVE  ToldInv'
  <2> DEFINE n == Len(resultCh)
  <2>1. /\ n \in Nat /\ resultCh \in Seq(Result) /\ r.f \in Factors
        /\ \A g : Queued(g) = {i \in 1..n : resultCh[i].f = g}
      BY ChannelTyped DEF Result
  <2>2. /\ Len(resultCh') = n + 1 /\ resultCh'[n + 1] = r
        /\ \A i \in 1..n : resultCh'[i] = resultCh[i]
      BY <1>3, <2>1
  <2>3. Typed'
      BY SendStep
  <2>4. \A g : Queued(g)' = {i \in 1..(n + 1) : resultCh'[i].f = g}
    <3>1. \A g : Queued(g)' = {i \in 1..Len(resultCh') : resultCh'[i].f = g}
      <4>1. resultCh' \in Seq(Result)
          BY <2>3 DEF Typed, Types
      <4>2. DOMAIN resultCh' = 1..Len(resultCh')
          BY <4>1, LenProperties
      <4> QED BY <4>2 DEF Queued
    <3> QED BY <2>2, <3>1
  <2> HIDE DEF n
  <2>5. Told(r.f)'
    <3>1. \A u \in Threads : ~Holds(u, r.f)'
        BY <1>3, <2>1 DEF ToldInv, Told
    <3>2. ASSUME NEW i, LastOf(r.f, i)' PROVE i = n + 1
      <4>1. /\ i \in 1..(n + 1)
            /\ \A j \in 1..(n + 1) : j > i => resultCh'[j].f # r.f
          BY <2>2, <3>2 DEF LastOf
      <4> QED BY <2>1, <2>2, <4>1
    <3>3. n + 1 \in Queued(r.f)'
        BY <2>1, <2>2, <2>4
    <3>4. ~ended' => devState'[r.f] = statusCodeToDevState(r.s)
        BY <1>1, <1>3, <2>1 DEF ToldInv, Told
    <3>5. ~ended' => \A i : LastOf(r.f, i)' =>
            devState'[r.f] = statusCodeToDevState(resultCh'[i].s)
        BY <2>2, <3>2, <3>4
    <3> QED BY <3>1, <3>3, <3>5 DEF Told
  <2>6. ASSUME NEW g \in Factors \ {r.f} PROVE Told(g)'
    <3>1. \A u \in Threads : Holds(u, g)' <=> Holds(u, g)
        BY <1>3 DEF Holds
    <3>2. \A u \in Threads : Holds(u, g) => todo'[u] = todo[u]
        BY <1>3 DEF Holds
    <3>3. Queued(g)' = Queued(g)
      <4>1. {i \in 1..(n + 1) : resultCh'[i].f = g} = {i \in 1..n : resultCh'[i].f = g}
          BY <2>1, <2>2
      <4>2. {i \in 1..n : resultCh'[i].f = g} = {i \in 1..n : resultCh[i].f = g}
          BY <2>2
      <4> QED BY <2>1, <2>4, <4>1, <4>2
    <3>4. ASSUME NEW i, LastOf(g, i)' PROVE LastOf(g, i) /\ resultCh'[i] = resultCh[i]
      <4>1. /\ i \in 1..(n + 1) /\ resultCh'[i].f = g
            /\ \A j \in 1..(n + 1) : j > i => resultCh'[j].f # g
          BY <2>2, <3>4 DEF LastOf
      <4>2. i \in 1..n
          BY <2>1, <2>2, <4>1
      <4> QED BY <2>1, <2>2, <4>1, <4>2 DEF LastOf, n
    <3>5. Told(g)
        BY DEF ToldInv
    <3> QED BY <1>1, <3>1, <3>2, <3>3, <3>4, <3>5 DEF Told
  <2> QED BY <2>5, <2>6 DEF ToldInv
<1> QED
    BY <1>2, <1>3, SendStep

(* The last status to leave resultCh is the one shown.                     *)
LEMMA ToldReceive ==
    ASSUME Typed, ToldInv, receive
    PROVE  ToldInv'
<1> DEFINE n == Len(resultCh)
<1>1. PICK r \in Result : r = Head(resultCh) /\ shown' = [shown EXCEPT ![r.f] = r.s]
    BY ReceiveStep
<1>2. /\ SameHolders /\ UNCHANGED <<devState, ended>>
      /\ resultCh # <<>> /\ resultCh' = Tail(resultCh)
    BY ReceiveStep
<1>3. /\ n \in Nat \ {0} /\ resultCh \in Seq(Result) /\ r.f \in Factors /\ resultCh[1] = r
      /\ \A g : Queued(g) = {i \in 1..n : resultCh[i].f = g}
    BY <1>1, <1>2, ChannelTyped DEF Result
<1>4. /\ resultCh' \in Seq(Result) /\ Len(resultCh') = n - 1
      /\ \A i \in 1..(n - 1) : resultCh'[i] = resultCh[i + 1]
    BY <1>2, <1>3, HeadTailProperties
<1>5. \A g : Queued(g)' = {i \in 1..(n - 1) : resultCh'[i].f = g}
    BY <1>4, LenProperties DEF Queued
<1>6. shown'[r.f] = r.s /\ \A g \in Factors \ {r.f} : shown'[g] = shown[g]
    BY <1>1, <1>3 DEF Typed, Types
<1> HIDE DEF n
<1>7. ASSUME NEW g, NEW i, LastOf(g, i)' PROVE LastOf(g, i + 1) /\ resultCh'[i] = resultCh[i + 1]
  <2>1. /\ i \in 1..(n - 1) /\ resultCh'[i].f = g
        /\ \A j \in 1..(n - 1) : j > i => resultCh'[j].f # g
      BY <1>4, <1>7 DEF LastOf
  <2>2. i + 1 \in 1..n /\ resultCh[i + 1].f = g
      BY <1>3, <1>4, <2>1
  <2>3. ASSUME NEW j \in 1..n, j > i + 1 PROVE resultCh[j].f # g
    <3>1. j - 1 \in 1..(n - 1) /\ j - 1 > i /\ (j - 1) + 1 = j
        BY <1>3, <2>1, <2>3
    <3> QED BY <1>4, <2>1, <3>1
  <2> QED BY <1>4, <2>1, <2>2, <2>3 DEF LastOf, n
<1>8. ASSUME NEW g \in Factors, Queued(g)' = {}
      PROVE  IF g = r.f THEN LastOf(g, 1) ELSE Queued(g) = {}
  <2>1. ASSUME NEW j \in 1..n, j # 1 PROVE resultCh[j].f # g
    <3>1. j - 1 \in 1..(n - 1) /\ (j - 1) + 1 = j
        BY <1>3, <2>1
    <3> QED BY <1>4, <1>5, <1>8, <3>1
  <2>2. CASE g = r.f
      BY <1>3, <2>1, <2>2 DEF LastOf, n
  <2>3. CASE g # r.f
      BY <1>3, <2>1, <2>3
  <2> QED BY <2>2, <2>3
<1>9. ASSUME NEW g \in Factors PROVE Told(g)'
  <2>1. Told(g)
      BY DEF ToldInv
  <2>2. /\ \A u \in Threads : Holds(u, g)' <=> Holds(u, g)
        /\ \A u \in Threads : Holds(u, g) => todo'[u] = todo[u]
      BY <1>2 DEF SameHolders
  <2>3. ASSUME ~ended, \A u \in Threads : ~Holds(u, g), NEW i, LastOf(g, i)'
        PROVE  devState[g] = statusCodeToDevState(resultCh'[i].s)
      BY <1>7, <2>1, <2>3 DEF Told
  <2>4. ASSUME ~ended, \A u \in Threads : ~Holds(u, g), Queued(g)' = {}
        PROVE  devState[g] = statusCodeToDevState(shown'[g])
    <3>1. CASE g = r.f
      <4>1. LastOf(g, 1)
          BY <1>8, <2>4, <3>1
      <4> QED BY <1>3, <1>6, <2>1, <2>4, <3>1, <4>1 DEF Told
    <3>2. CASE g # r.f
      <4>1. Queued(g) = {}
          BY <1>8, <2>4, <3>2
      <4> QED BY <1>6, <2>1, <2>4, <3>2, <4>1 DEF Told
    <3> QED BY <3>1, <3>2
  <2> QED BY <1>2, <2>1, <2>2, <2>3, <2>4 DEF Told
<1> QED
    BY <1>9 DEF ToldInv

-----------------------------------------------------------------------------
(* Every failure put in the channel is charged, or still there.            *)
Uncharged(f) == {i \in 1..Len(resultCh) : resultCh[i].f = f /\ Chargeable(resultCh[i].s)}
CountInv == \A f \in Factors : sent[f] = charged[f] + Cardinality(Uncharged(f))

(* The failures in resultCh are finitely many.                             *)
LEMMA UnchargedTyped ==
    ASSUME Typed, NEW f
    PROVE  /\ IsFiniteSet(Uncharged(f)) /\ Cardinality(Uncharged(f)) \in Nat
           /\ {i \in Queued(f) : Chargeable(resultCh[i].s)} = Uncharged(f)
<1>1. Len(resultCh) \in Nat /\ Queued(f) = {i \in 1..Len(resultCh) : resultCh[i].f = f}
    BY ChannelTyped
<1>2. IsFiniteSet(1..Len(resultCh))
    BY <1>1, FS_Interval
<1>3. IsFiniteSet(Uncharged(f))
    BY <1>2, FS_Subset DEF Uncharged
<1> QED
    BY <1>1, <1>3, FS_CardinalityType DEF Uncharged

(* A failure that is sent is one more to be charged.                       *)
LEMMA CountSend ==
    ASSUME Typed, CountInv, NEW t \in Threads, sendStatus(t)
    PROVE  CountInv'
<1>1. UNCHANGED charged
    BY SendStep
<1>2. CASE UNCHANGED <<resultCh, sent>>
    BY <1>1, <1>2 DEF CountInv, Uncharged
<1>3. ASSUME NEW r \in Result, resultCh' = Append(resultCh, r),
             sent' = [sent EXCEPT ![r.f] = IF Chargeable(r.s) THEN @ + 1 ELSE @]
      PROVE  CountInv'
  <2> DEFINE n == Len(resultCh)
  <2>1. n \in Nat /\ resultCh \in Seq(Result) /\ r.f \in Factors
      BY ChannelTyped DEF Result
  <2>2. /\ Len(resultCh') = n + 1 /\ resultCh'[n + 1] = r
        /\ \A i \in 1..n : resultCh'[i] = resultCh[i]
      BY <1>3, <2>1
  <2> SUFFICES ASSUME NEW f \in Factors PROVE sent'[f] = charged'[f] + Cardinality(Uncharged(f)')
      BY DEF CountInv, Uncharged
  <2> HIDE DEF n
  <2>3. /\ Uncharged(f) = {i \in 1..n : resultCh[i].f = f /\ Chargeable(resultCh[i].s)}
        /\ Uncharged(f)' = {i \in 1..(n + 1) : resultCh'[i].f = f /\ Chargeable(resultCh'[i].s)}
      BY <2>2 DEF Uncharged, n
  <2>4. n + 1 \notin Uncharged(f)
      BY <2>1, <2>3
  <2>5. sent[f] = charged[f] + Cardinality(Uncharged(f)) /\ sent[f] \in Nat /\ charged[f] \in Nat
      BY DEF CountInv, Typed, Types
  <2>6. IsFiniteSet(Uncharged(f)) /\ Cardinality(Uncharged(f)) \in Nat
      BY UnchargedTyped
  <2>7. CASE r.f = f /\ Chargeable(r.s)
    <3>1. Uncharged(f)' = Uncharged(f) \cup {n + 1}
        BY <2>1, <2>2, <2>3, <2>7
    <3>2. Cardinality(Uncharged(f)') = Cardinality(Uncharged(f)) + 1
        BY <2>4, <2>6, <3>1, FS_AddElement
    <3>3. sent'[f] = sent[f] + 1
        BY <1>3, <2>1, <2>7 DEF Typed, Types
    <3> QED BY <1>1, <2>5, <2>6, <3>2, <3>3
  <2>8. CASE ~(r.f = f /\ Chargeable(r.s))
    <3>1. Uncharged(f)' = Uncharged(f)
        BY <2>1, <2>2, <2>3, <2>8
    <3>2. sent'[f] = sent[f]
        BY <1>3, <2>1, <2>8 DEF Typed, Types
    <3> QED BY <1>1, <2>5, <3>1, <3>2
  <2> QED BY <2>7, <2>8
<1> QED
    BY <1>2, <1>3, SendStep

(* A failure that is received is charged and has left resultCh.            *)
LEMMA CountReceive ==
    ASSUME Typed, CountInv, receive
    PROVE  CountInv'
<1> DEFINE n == Len(resultCh)
<1>1. PICK r \in Result :
        /\ r = Head(resultCh)
        /\ charged' = [charged EXCEPT ![r.f] = IF Chargeable(r.s) THEN @ + 1 ELSE @]
    BY ReceiveStep
<1>2. UNCHANGED sent /\ resultCh # <<>> /\ resultCh' = Tail(resultCh)
    BY ReceiveStep
<1>3. n \in Nat \ {0} /\ resultCh \in Seq(Result) /\ r.f \in Factors /\ resultCh[1] = r
    BY <1>1, <1>2, ChannelTyped DEF Result
<1>4. /\ resultCh' \in Seq(Result) /\ Len(resultCh') = n - 1
      /\ \A i \in 1..(n - 1) : resultCh'[i] = resultCh[i + 1]
    BY <1>2, <1>3, HeadTailProperties
<1> SUFFICES ASSUME NEW f \in Factors PROVE sent'[f] = charged'[f] + Cardinality(Uncharged(f)')
    BY DEF CountInv, Uncharged
<1> HIDE DEF n
<1>5. /\ Uncharged(f) = {i \in 1..n : resultCh[i].f = f /\ Chargeable(resultCh[i].s)}
      /\ Uncharged(f)' = {i \in 1..(n - 1) : resultCh'[i].f = f /\ Chargeable(resultCh'[i].s)}
    BY <1>4 DEF Uncharged, n
<1>6. sent[f] = charged[f] + Cardinality(Uncharged(f)) /\ sent[f] \in Nat /\ charged[f] \in Nat
    BY DEF CountInv, Typed, Types
<1>7. IsFiniteSet(Uncharged(f)) /\ Cardinality(Uncharged(f)) \in Nat
    BY UnchargedTyped
<1> DEFINE rest == Uncharged(f) \ {1}
<1>8. Cardinality(Uncharged(f)') = Cardinality(rest)
  <2> DEFINE shift == [i \in rest |-> i - 1]
  <2>1. /\ rest \subseteq 2..n
        /\ \A i \in 2..n : i \in rest <=> i - 1 \in Uncharged(f)'
    <3>1. \A i \in 2..n : i - 1 \in 1..(n - 1) /\ i \in 1..n /\ resultCh'[i - 1] = resultCh[i]
      <4>1. \A i \in 2..n : i - 1 \in 1..(n - 1) /\ i \in 1..n /\ (i - 1) + 1 = i
          BY <1>3
      <4> QED BY <1>4, <4>1
    <3>2. Uncharged(f) \subseteq 1..n
        BY <1>5
    <3>3. rest \subseteq 2..n
        BY <1>3, <3>2
    <3>4. \A i \in 2..n : i # 1
        BY <1>3
    <3> QED BY <1>5, <3>1, <3>3, <3>4
  <2>2. Uncharged(f)' \subseteq 1..(n - 1)
      BY <1>5
  <2> HIDE DEF rest
  <2>3. shift \in [rest -> Uncharged(f)']
      BY <1>3, <2>1
  <2>4. \A i, j \in rest : shift[i] = shift[j] => i = j
      BY <1>3, <2>1
  <2>5. \A k \in Uncharged(f)' : \E i \in rest : shift[i] = k
    <3> SUFFICES ASSUME NEW k \in Uncharged(f)' PROVE \E i \in rest : shift[i] = k
        OBVIOUS
    <3>1. k + 1 \in 2..n /\ (k + 1) - 1 = k
        BY <1>3, <2>2
    <3>2. k + 1 \in rest
        BY <2>1, <3>1
    <3> QED BY <3>1, <3>2
  <2>6. shift \in Bijection(rest, Uncharged(f)')
      BY <2>3, <2>4, <2>5 DEF Bijection, Injection, Surjection, IsInjective
  <2>7. IsFiniteSet(rest)
      BY <1>7, FS_RemoveElement DEF rest
  <2>8. ExistsBijection(rest, Uncharged(f)')
      BY <2>6 DEF ExistsBijection
  <2> QED
      BY <2>7, <2>8, FS_Bijection
<1>9. 1 \in Uncharged(f) <=> r.f = f /\ Chargeable(r.s)
    BY <1>3, <1>5
<1>10. Cardinality(rest) = IF 1 \in Uncharged(f) THEN Cardinality(Uncharged(f)) - 1
                           ELSE Cardinality(Uncharged(f))
    BY <1>7, FS_RemoveElement
<1>11. charged'[f] = IF r.f = f /\ Chargeable(r.s) THEN charged[f] + 1 ELSE charged[f]
    BY <1>1, <1>3 DEF Typed, Types
<1>12. sent'[f] = sent[f]
    BY <1>2
<1> HIDE DEF rest
<1>13. CASE 1 \in Uncharged(f)
  <2>1. /\ charged'[f] = charged[f] + 1
        /\ Cardinality(Uncharged(f)') = Cardinality(Uncharged(f)) - 1
      BY <1>8, <1>9, <1>10, <1>11, <1>13
  <2> QED BY <1>6, <1>7, <1>12, <2>1
<1>14. CASE 1 \notin Uncharged(f)
  <2>1. charged'[f] = charged[f] /\ Cardinality(Uncharged(f)') = Cardinality(Uncharged(f))
      BY <1>8, <1>9, <1>10, <1>11, <1>14
  <2> QED BY <1>6, <1>12, <2>1
<1> QED
    BY <1>13, <1>14

-----------------------------------------------------------------------------
(* The factors that have a result, and what a verdict says of them.        *)
Have(res) == {f \in Required : res[f] # "none"}
AllHave == \A f \in Required : result[f] # "none"
AllPass == \A f \in Required : result[f] = "Success"

PassInv ==
    /\ passNumber = Cardinality(Have(result))
    /\ MFA => /\ verdict # "none" => AllHave
              /\ verdict = "Success" => AllPass
              /\ statusResult = "Success" => AllHave
              /\ statusResult = "Success" /\ verdict = "none" => AllPass

(* All factors have a result when as many have one as are required.        *)
LEMMA HaveFinite ==
    ASSUME NEW res
    PROVE  /\ IsFiniteSet(Have(res)) /\ Cardinality(Have(res)) \in Nat
           /\ Cardinality(Have(res)) <= Cardinality(Required) /\ Cardinality(Required) \in Nat
           /\ Cardinality(Have(res)) = Cardinality(Required)
                  <=> \A f \in Required : res[f] # "none"
<1>1. Have(res) \subseteq Required /\ IsFiniteSet(Required)
    BY SessionAssumption DEF Have
<1>2. /\ IsFiniteSet(Have(res)) /\ Cardinality(Have(res)) <= Cardinality(Required)
      /\ Cardinality(Have(res)) = Cardinality(Required) => Have(res) = Required
    BY <1>1, FS_Subset
<1>3. Have(res) = Required <=> \A f \in Required : res[f] # "none"
    BY DEF Have
<1> QED
    BY <1>1, <1>2, <1>3, FS_CardinalityType

(* A verdict is given when all have results, a pass when all passed.       *)
LEMMA PassReceive ==
    ASSUME Typed, PassInv, receive
    PROVE  PassInv'
<1>1. PICK r \in Result :
          \/ UNCHANGED <<result, passNumber, verdict>>
          \/ /\ result' = [result EXCEPT ![r.f] = r.s]
             /\ passNumber' = Counted(r.f)
             /\ MFA => verdict' = getVerifyResult(result', passNumber')
    BY ReceiveStep
<1>2. UNCHANGED statusResult
    BY ReceiveStep
<1>3. CASE UNCHANGED <<result, passNumber, verdict>>
    BY <1>2, <1>3 DEF PassInv, AllHave, AllPass, Have
<1>4. CASE /\ result' = [result EXCEPT ![r.f] = r.s]
           /\ passNumber' = Counted(r.f)
           /\ MFA => verdict' = getVerifyResult(result', passNumber')
  <2>1. r.f \in Required /\ r.s \in Status /\ "none" \notin Status
      BY SessionAssumption DEF Result, Status
  <2>2. /\ result' \in [Required -> Status \cup {"none"}] /\ result'[r.f] # "none"
        /\ \A f \in Required \ {r.f} : result'[f] = result[f]
      BY <1>4, <2>1 DEF Typed, Types
  <2>3. Have(result') = Have(result) \cup {r.f}
      BY <2>1, <2>2 DEF Have
  <2>4. passNumber' = Cardinality(Have(result'))
    <3>1. r.f \in Have(result) <=> result[r.f] # "none"
        BY <2>1 DEF Have
    <3>2. Cardinality(Have(result')) =
              IF r.f \in Have(result) THEN Cardinality(Have(result))
              ELSE Cardinality(Have(result)) + 1
        BY <2>3, HaveFinite, FS_AddElement
    <3>3. passNumber = Cardinality(Have(result))
        BY DEF PassInv
    <3> QED BY <1>4, <3>1, <3>2, <3>3 DEF Counted
  <2>5. passNumber' \in Nat /\ (passNumber' < Cardinality(Required) <=> ~AllHave')
      BY <2>4, HaveFinite DEF AllHave
  <2>6. ASSUME MFA
        PROVE  verdict' = IF ~AllHave' THEN "none"
                          ELSE IF AllPass' THEN "Success" ELSE "Failure"
      BY <1>4, <2>5, <2>6 DEF getVerifyResult, AllPass
  <2>7. ASSUME MFA, statusResult' = "Success" PROVE AllHave'
    <3>1. AllHave
        BY <1>2, <2>7 DEF PassInv
    <3> QED BY <2>2, <3>1 DEF AllHave
  <2> QED BY <2>4, <2>6, <2>7 DEF PassInv
<1> QED
    BY <1>1, <1>3, <1>4

-----------------------------------------------------------------------------
(* The inductive invariant.                                                *)
SessionInv == Typed /\ ToldInv /\ CountInv /\ PassInv

(* The steps that are neither about a status nor about a result.           *)
LEMMA OtherSteps ==
    ASSUME Typed, Next
    PROVE  \/ Typed' /\ Aside
           \/ \E t \in Threads : giveStatus(t) \/ sendStatus(t)
           \/ receive \/ emitVerdict
<1>1. ASSUME NEW t \in Threads, Step(t)
      PROVE  (Typed' /\ Aside) \/ giveStatus(t) \/ sendStatus(t)
    BY <1>1, CheckLimitStep, SetLockStateStep, EndIfStep, StopStep, AuthenticateStep, RunTxStep,
       ArmTimeoutStep, StartedSteps, EndAllStep, EmitEndStep, IsEndedStep, CloseStep, LeaveStep
    DEF Step
<1>2. ASSUME Environment PROVE Typed' /\ Aside
  <2>1. ASSUME NEW g \in Goroutines, NEW flag,
               End(g, flag) \/ \E timed \in Timeouts : Start(g, flag, timed)
        PROVE  Typed' /\ Aside
      BY <2>1, StartStep, EndStep
  <2>2. ASSUME NEW g \in Goroutines, EndAll(g) PROVE Typed' /\ Aside
      BY <2>2, EndStep
  <2>3. ASSUME NEW g \in Goroutines, NEW f \in Factors, timeout(g, f) \/ cancelLastTx(g, f)
        PROVE  Typed' /\ Aside
      BY <2>3, TimeoutStep, CancelLastTxStep
  <2>4. ASSUME Quit \/ \E method \in {"auto", "manual"} : SetQuitFlag(method)
        PROVE  Typed' /\ Aside
      BY <2>4, QuitSteps
  <2>5. ASSUME NEW a \in Attempts, report(a) \/ stopped(a) PROVE Typed' /\ Aside
      BY <2>5, ReportStep, StoppedStep
  <2> QED
      BY <1>2, <2>1, <2>2, <2>3, <2>4, <2>5, LimitUpdatedStep DEF Environment
<1> QED
    BY <1>1, <1>2, QuitSteps DEF Next, listenResultCh

(* Other steps change no count.                                            *)
LEMMA CountSame ==
    ASSUME CountInv, UNCHANGED <<resultCh, sent, charged>>
    PROVE  CountInv'
    BY DEF CountInv, Uncharged

(* Every step keeps the invariant.                                         *)
LEMMA SessionInvStep ==
    ASSUME SessionInv, [Next]_vars
    PROVE  SessionInv'
<1> USE DEF SessionInv
<1>1. ASSUME Typed', Aside PROVE SessionInv'
  <2>1. ToldInv'
      BY <1>1, ToldAside
  <2>2. CountInv'
      BY <1>1, CountSame DEF Aside, toldVars
  <2>3. PassInv'
      BY <1>1 DEF Aside, toldVars, PassInv, AllHave, AllPass, Have
  <2> QED BY <1>1, <2>1, <2>2, <2>3
<1>2. ASSUME NEW t \in Threads, giveStatus(t) PROVE SessionInv'
  <2>1. /\ UNCHANGED <<resultCh, sent, charged, result, passNumber, verdict, statusResult>>
        /\ Typed'
      BY <1>2, GiveStep
  <2>2. ToldInv'
      BY <1>2, ToldGive
  <2>3. CountInv' /\ PassInv'
      BY <2>1, CountSame DEF PassInv, AllHave, AllPass, Have
  <2> QED BY <2>1, <2>2, <2>3
<1>3. ASSUME NEW t \in Threads, sendStatus(t) PROVE SessionInv'
  <2>1. UNCHANGED <<result, passNumber, verdict, statusResult>> /\ Typed'
      BY <1>3, SendStep
  <2>2. ToldInv' /\ CountInv'
      BY <1>3, ToldSend, CountSend
  <2>3. PassInv'
      BY <2>1 DEF PassInv, AllHave, AllPass, Have
  <2> QED BY <2>1, <2>2, <2>3
<1>4. CASE receive
    BY <1>4, ReceiveStep, ToldReceive, CountReceive, PassReceive
<1>5. CASE emitVerdict
  <2>1. /\ Typed' /\ SameHolders
        /\ UNCHANGED <<devState, resultCh, shown, sent, charged, result, passNumber, ended>>
        /\ statusResult' = verdict /\ verdict' = "none"
      BY <1>5, EmitVerdictStep
  <2>2. CountInv'
      BY <2>1, CountSame
  <2>3. PassInv'
      BY <1>5, <2>1 DEF emitVerdict, PassInv, AllHave, AllPass, Have
  <2>4. ToldInv'
    <3> SUFFICES ASSUME NEW f \in Factors PROVE Told(f)'
        BY DEF ToldInv
    <3>1. Told(f)
        BY DEF ToldInv
    <3>2. /\ \A t \in Threads : Holds(t, f)' <=> Holds(t, f)
          /\ \A t \in Threads : Holds(t, f) => todo'[t] = todo[t]
        BY <2>1 DEF SameHolders
    <3>3. Queued(f)' = Queued(f) /\ \A i : LastOf(f, i)' <=> LastOf(f, i)
        BY <2>1 DEF Queued, LastOf
    <3> QED BY <2>1, <3>1, <3>2, <3>3 DEF Told
  <2> QED BY <2>1, <2>2, <2>3, <2>4
<1>6. CASE UNCHANGED vars
  <2>1. /\ UNCHANGED <<txVars, devVars, chVars, ctlVars, mgrVars, panicked, calls>>
        /\ todo' = todo
      BY <1>6 DEF vars
  <2>2. Works' /\ SameHolders
      BY <2>1, StillWork DEF Typed
  <2>3. Types' /\ Aside
      BY <2>1, <2>2
      DEF Typed, Types, Aside, toldVars, txVars, devVars, chVars, ctlVars, mgrVars
  <2> QED BY <1>1, <2>2, <2>3 DEF Typed
<1> QED
    BY <1>1, <1>2, <1>3, <1>4, <1>5, <1>6, OtherSteps

(* The invariant holds when the session is created.                        *)
LEMMA SessionInvInit == Init => SessionInv
<1> SUFFICES ASSUME Init PROVE SessionInv
    OBVIOUS
<1>1. Works
  <2>1. <<>> \in Seq(Ops) /\ Work(<<>>)
      BY PlainFacts, EmptySeq
  <2> QED BY <2>1 DEF Init, Works
<1>2. Types
  <2>1. <<>> \in Seq(Result) /\ Len(<<>>) = 0
      BY EmptySeq
  <2>2. /\ Cap \in Nat \ {0} /\ MaxCalls \in Nat /\ MaxReports \in Nat
      BY SessionAssumption
  <2>3. resultCh \in Seq(Result) /\ Len(resultCh) <= Cap
      BY <2>1, <2>2 DEF Init
  <2>4. 0 \in 0..MaxReports /\ 0 \in 0..MaxCalls
      BY <2>2
  <2>5. /\ devState \in [Factors -> DevStates]
        /\ lockState \in [Factors -> {"Locked", "Unlocked"}]
        /\ attempt \in [Attempts -> {"none", "running", "stopping", "done"}]
        /\ reports \in [Attempts -> 0..MaxReports]
        /\ timers \in [Factors -> Nat]
      BY <2>4 DEF Init, DevStates
  <2>6. /\ result \in [Required -> Status \cup {"none"}]
        /\ shown \in [Factors -> Status]
        /\ sent \in [Factors -> Nat] /\ charged \in [Factors -> Nat]
      BY DEF Init, Status
  <2>7. /\ ended \in BOOLEAN /\ listening \in BOOLEAN
        /\ verdict \in {"none", "Success", "Failure"} /\ passNumber \in Nat
        /\ finalResultGiven \in BOOLEAN /\ statusResult \in {"Success", "Failure"}
        /\ isStarted \in BOOLEAN /\ quitMethod \in {"auto", "manual"}
        /\ canceled \in BOOLEAN /\ quited \in BOOLEAN /\ quitTimer \in BOOLEAN
        /\ panicked \in BOOLEAN
      BY DEF Init
  <2>8. calls \in 0..MaxCalls
      BY <2>4 DEF Init
  <2> QED BY <2>3, <2>5, <2>6, <2>7, <2>8 DEF Types
<1>3. \A t \in Threads : \A f : ~Holds(t, f)
    BY DEF Init, Holds
<1>4. ToldInv
  <2> SUFFICES ASSUME NEW f \in Factors PROVE Told(f)
      BY DEF ToldInv
  <2>1. \A i : ~LastOf(f, i)
      BY EmptySeq DEF Init, LastOf
  <2>2. devState[f] = statusCodeToDevState(shown[f])
      BY DEF Init, statusCodeToDevState
  <2> QED BY <1>3, <2>1, <2>2 DEF Told
<1>5. CountInv
  <2>1. Len(resultCh) = 0
      BY EmptySeq DEF Init
  <2>2. \A f : Uncharged(f) = {}
      BY <2>1 DEF Uncharged
  <2>3. \A f \in Factors : Cardinality(Uncharged(f)) = 0
      BY <2>2, FS_EmptySet
  <2> QED BY <2>3 DEF Init, CountInv
<1>6. PassInv
  <2>1. Have(result) = {}
      BY DEF Init, Have
  <2> QED BY <2>1, FS_EmptySet DEF Init, PassInv
<1> QED
    BY <1>1, <1>2, <1>4, <1>5, <1>6 DEF SessionInv, Typed

(* The invariant holds always.                                             *)
LEMMA SessionInvHolds == Spec => []SessionInv
    BY SessionInvInit, SessionInvStep, PTL DEF Spec

(* The session is type correct.                                            *)
THEOREM TypeCorrect == Spec => []TypeOK
<1>1. SessionInv => TypeOK
  <2> SUFFICES ASSUME SessionInv PROVE TypeOK
      OBVIOUS
  <2>1. Ops \subseteq Op
      BY DEF Ops, Op
  <2>2. DOMAIN todo = Threads /\ \A t \in Threads : todo[t] \in Seq(Op)
      BY <2>1, SeqMonotonic DEF SessionInv, Typed, Works
  <2>3. passNumber \in 0..Cardinality(Required)
      BY HaveFinite DEF SessionInv, PassInv
  <2> QED BY <2>2, <2>3 DEF SessionInv, Typed, Types, DevStates, Result, TypeOK
<1> QED
    BY <1>1, SessionInvHolds, PTL

(* The client sees the state of every factor: giveStatus and sendStatus,   *)
(* which share statusMux, tell it the statuses in the order given.         *)
THEOREM ShowsDevState == Spec => []ShownIsDevState
<1>1. SessionInv => ShownIsDevState
    BY DEF SessionInv, ToldInv, Told, ShownIsDevState
<1> QED
    BY <1>1, SessionInvHolds, PTL

(* Every failure that the factors sent to the controller is charged by     *)
(* updateLimits exactly once, or is still to be received.                  *)
THEOREM ChargesOnce == Spec => []ChargedOnce
<1>1. SessionInv => ChargedOnce
    BY UnchargedTyped DEF SessionInv, CountInv, ChargedOnce
<1> QED
    BY <1>1, SessionInvHolds, PTL

(* With several factors, GetResult answers pass only while the last        *)
(* result of each is a success, or the next verdict is about to be given.  *)
THEOREM PassesAreCurrent == Spec => []PassIsCurrent
<1>1. SessionInv => PassIsCurrent
    BY DEF SessionInv, PassInv, AllPass, PassIsCurrent
<1> QED
    BY <1>1, SessionInvHolds, PTL

(* With several factors, setResult counts each of them once, so that no    *)
(* verdict is given before all have a result.                              *)
THEOREM VerdictsNeedAll == Spec => []VerdictNeedsAll
<1>1. SessionInv => VerdictNeedsAll
    BY DEF SessionInv, PassInv, AllHave, VerdictNeedsAll
<1> QED
    BY <1>1, SessionInvHolds, PTL

=============================================================================
