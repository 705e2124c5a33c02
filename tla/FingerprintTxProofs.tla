------------------------ MODULE FingerprintTxProofs ------------------------
(***************************************************************************)
(* Proofs about FingerprintTx: the types, with the mutexes; what holds of  *)
(* every factor whose attempts do not overlap (AloneInv), from which no    *)
(* channel is closed twice and an ended factor is quiet; and that the      *)
(* device is lent as Lease says (LeaseInv).                                *)
(***************************************************************************)
EXTENDS FingerprintTx, TLAPS

Claimers == {"Start", "TTYChanged"}
Lockers == {"Lock", "Unlock"}
InEnd == {"wait", "giveEnd", "markEnd"}
InClaim == {"lockClaimed", "claim", "start"}
InLock == {"giveLock", "checkState", "setLock"}

Call == [op : Methods \cup {"none"}, pc : {"idle", "end"} \cup InEnd \cup InClaim \cup InLock,
         tx : Txs \cup {None}, ending : Txs \cup {None}, try : 0..MaxAttempts, all : BOOLEAN]

(* Where a call may be, by what it does.                                   *)
Shape(k) ==
    /\ k.op = "none" <=> k.pc = "idle"
    /\ k.op # "none" => k.tx \in Txs /\ k.ending \in Txs
    /\ k.pc \in InClaim => k.op \in Claimers
    /\ k.pc = "start" => k.op = "Start"
    /\ k.pc \in InLock => k.op \in Lockers

Claims(k) == k.op \in Claimers /\ k.pc # "lockClaimed"
Ends(k, x) == k.pc \in InEnd /\ k.ending = x

Calls == call \in [Goroutines -> Call] /\ \A c \in Goroutines : Shape(call[c])

Mutexes ==
    \A c \in Goroutines : /\ claimedMu = c <=> Claims(call[c])
                          /\ \A x \in Txs : endedMu[x] = c <=> Ends(call[c], x)

FactorsTyped ==
    /\ devState \in [Txs -> {"Idle", "Verifying", "Ended"}]
    /\ locked \in [Txs -> BOOLEAN] /\ isEnded \in [Txs -> BOOLEAN]
    /\ endedMu \in [Txs -> Goroutines \cup {None}]
    /\ tries \in [Txs -> 0..MaxAttempts]
    /\ closed \subseteq Txs
    /\ claimed \in Txs \cup {None} /\ claimedMu \in Goroutines \cup {None}
    /\ user \in Txs \cup {None}
    /\ \A x \in Txs : devState[x] = "Verifying" => tries[x] > 0

AttemptsTyped ==
    /\ quit \subseteq Attempts /\ released \subseteq Attempts /\ listening \subseteq Attempts
    /\ worker \in [Attempts -> [pc : {"new", "verify", "loop", "stop", "unclaim", "release",
                                      "report", "done"},
                                result : {"nil", "Success", "Failure", "Error"}]]
    /\ panicked \in BOOLEAN
    /\ \A w \in Attempts : worker[w].pc # "new" => tries[w[1]] > 0

HistoryTyped == overlapped \subseteq Txs /\ forgotten \in BOOLEAN

Typed == Calls /\ Mutexes /\ FactorsTyped /\ AttemptsTyped

(* The parts make up the type invariant.                                   *)
LEMMA TypedTypeOK == Typed /\ HistoryTyped => TypeOK
<1> SUFFICES ASSUME Typed, HistoryTyped PROVE TypeOK
    OBVIOUS
<1>1. ASSUME NEW c \in Goroutines
      PROVE  /\ call[c].op \in Methods \cup {"none"}
             /\ claimedMu = c <=> /\ call[c].op \in {"Start", "TTYChanged"}
                                  /\ call[c].pc # "lockClaimed"
             /\ \A x \in Txs : endedMu[x] = c <=> /\ call[c].pc \in {"wait", "giveEnd", "markEnd"}
                                                  /\ call[c].ending = x
    BY <1>1 DEF Typed, Calls, Call, Mutexes, Claims, Ends, Claimers, InEnd
<1> QED
    BY <1>1 DEF Typed, FactorsTyped, AttemptsTyped, HistoryTyped, TypeOK

(* They hold before the first call.                                        *)
LEMMA TypedInit == Init => Typed
<1> SUFFICES ASSUME Init PROVE Typed
    OBVIOUS
<1>1. Idle \in Call /\ Shape(Idle) /\ ~Claims(Idle) /\ \A x \in Txs : ~Ends(Idle, x)
    BY FingerprintTxAssumption
       DEF Idle, Call, Shape, Claims, Ends, InEnd, InClaim, InLock, Claimers, Lockers
<1>2. Calls /\ Mutexes
    BY <1>1, FingerprintTxAssumption DEF Init, Calls, Mutexes
<1>3. FactorsTyped
    BY FingerprintTxAssumption DEF Init, FactorsTyped
<1>4. AttemptsTyped
    BY DEF Init, AttemptsTyped
<1> QED
    BY <1>2, <1>3, <1>4 DEF Typed

(* A goroutine that goes on to k, and takes or gives back a mutex as k     *)
(* says.                                                                   *)
Moves(c, k) == call' = [call EXCEPT ![c] = k] /\ k \in Call /\ Shape(k)

ClaimMutex(c, k) ==
    \/ claimedMu' = claimedMu /\ (Claims(k) <=> Claims(call[c]))
    \/ claimedMu = None /\ claimedMu' = c /\ Claims(k)
    \/ claimedMu = c /\ claimedMu' = None /\ ~Claims(k)

EndMutex(c, k) ==
    \/ endedMu' = endedMu /\ \A x \in Txs : Ends(k, x) <=> Ends(call[c], x)
    \/ \E e \in Txs : /\ endedMu[e] = None /\ endedMu' = [endedMu EXCEPT ![e] = c]
                      /\ \A x \in Txs : ~Ends(call[c], x) /\ (Ends(k, x) <=> x = e)
    \/ \E e \in Txs : /\ endedMu[e] = c /\ endedMu' = [endedMu EXCEPT ![e] = None]
                      /\ \A x \in Txs : ~Ends(k, x)

(* Then the calls and the mutexes agree as before.                         *)
LEMMA MoveTyped ==
    ASSUME Typed, NEW c \in Goroutines, NEW k, Moves(c, k), ClaimMutex(c, k), EndMutex(c, k)
    PROVE  Calls' /\ Mutexes'
<1>1. /\ call' \in [Goroutines -> Call]
      /\ \A g \in Goroutines : call'[g] = IF g = c THEN k ELSE call[g]
    BY DEF Typed, Calls, Moves
<1>2. Calls'
    BY <1>1 DEF Typed, Calls, Moves
<1>3. None \notin Goroutines
    BY FingerprintTxAssumption
<1>4. ASSUME NEW g \in Goroutines PROVE claimedMu' = g <=> Claims(call'[g])
    BY <1>1, <1>3, <1>4 DEF Typed, Mutexes, ClaimMutex
<1>5. ASSUME NEW g \in Goroutines, NEW x \in Txs PROVE endedMu'[x] = g <=> Ends(call'[g], x)
  <2>1. CASE endedMu' = endedMu /\ \A y \in Txs : Ends(k, y) <=> Ends(call[c], y)
      BY <1>1, <1>3, <2>1 DEF Typed, Mutexes
  <2>2. ASSUME NEW e \in Txs, endedMu[e] = None, endedMu' = [endedMu EXCEPT ![e] = c],
               \A y \in Txs : ~Ends(call[c], y) /\ (Ends(k, y) <=> y = e)
        PROVE  endedMu'[x] = g <=> Ends(call'[g], x)
      BY <1>1, <1>3, <2>2 DEF Typed, Mutexes, FactorsTyped
  <2>3. ASSUME NEW e \in Txs, endedMu[e] = c, endedMu' = [endedMu EXCEPT ![e] = None],
               \A y \in Txs : ~Ends(k, y)
        PROVE  endedMu'[x] = g <=> Ends(call'[g], x)
    <3>1. g = c => \A y \in Txs : y # e => endedMu[y] # c
        BY <2>3 DEF Typed, Mutexes, Ends
    <3> QED
        BY <1>1, <1>3, <2>3, <3>1 DEF Typed, Mutexes, FactorsTyped
  <2> QED
      BY <2>1, <2>2, <2>3 DEF EndMutex
<1> QED
    BY <1>1, <1>2, <1>4, <1>5 DEF Mutexes

(* A step of an attempt leaves them alone.                                 *)
LEMMA StillTyped ==
    ASSUME Typed, call' = call, claimedMu' = claimedMu, endedMu' = endedMu
    PROVE  Calls' /\ Mutexes'
    BY DEF Typed, Calls, Mutexes

(* A call that is over claims nothing and ends nothing.                    *)
LEMMA IdleShape == Idle \in Call /\ Shape(Idle) /\ ~Claims(Idle) /\ \A x \in Txs : ~Ends(Idle, x)
    BY FingerprintTxAssumption
       DEF Idle, Call, Shape, Claims, Ends, InEnd, InClaim, InLock, Claimers, Lockers

(* Where a call goes when it only goes on.                                 *)
On(c, pc) == [call[c] EXCEPT !.pc = pc]

(* What going on leaves of a call.                                         *)
LEMMA OnIs ==
    ASSUME Typed, NEW c \in Goroutines, NEW pc \in {"end"} \cup InEnd \cup InClaim \cup InLock
    PROVE  /\ On(c, pc) \in Call /\ On(c, pc).pc = pc /\ On(c, pc).op = call[c].op
           /\ On(c, pc).tx = call[c].tx /\ On(c, pc).ending = call[c].ending
           /\ Goto(c, pc) => call' = [call EXCEPT ![c] = On(c, pc)]
    BY DEF Typed, Calls, Call, On, Goto

(* A call has its types.                                                   *)
LEMMA CallIs ==
    ASSUME Typed, NEW c \in Goroutines
    PROVE  call[c] \in Call /\ Shape(call[c])
    BY DEF Typed, Calls

(* The calls and mutexes after a step that only goes on, or returns, with  *)
(* the mutexes it had.                                                     *)
LEMMA GoneOn ==
    ASSUME Typed, NEW c \in Goroutines, NEW pc \in {"end"} \cup InEnd \cup InClaim \cup InLock,
           Goto(c, pc), Shape(On(c, pc)), Claims(On(c, pc)) <=> Claims(call[c]),
           \A x \in Txs : Ends(On(c, pc), x) <=> Ends(call[c], x),
           UNCHANGED <<claimedMu, endedMu>>
    PROVE  Calls' /\ Mutexes'
    BY OnIs, MoveTyped DEF Moves, ClaimMutex, EndMutex

(* A call begins without a mutex.                                          *)
LEMMA BeginTyped == ASSUME Typed, NEW c \in Goroutines, Begin(c) PROVE Typed'
<1>1. PICK op \in Methods, x \in Txs :
          call' = [call EXCEPT ![c] = [op |-> op, pc |-> FirstStep(op), tx |-> x,
                                       ending |-> x, try |-> 0, all |-> op = "EndAll"]]
    BY DEF Begin
<1> DEFINE k == [op |-> op, pc |-> FirstStep(op), tx |-> x, ending |-> x, try |-> 0,
                 all |-> op = "EndAll"]
<1>2. op \in {"Start", "End", "EndAll", "Timeout", "TTYChanged", "Lock", "Unlock"}
    BY FingerprintTxAssumption
<1>3. /\ op \in {"Start", "TTYChanged"} => FirstStep(op) = "lockClaimed"
      /\ op \in {"End", "EndAll", "Timeout"} => FirstStep(op) = "end"
      /\ op \in {"Lock", "Unlock"} => FirstStep(op) = "giveLock"
    BY DEF FirstStep
<1>4. k \in Call /\ Shape(k)
    BY <1>2, <1>3, FingerprintTxAssumption
       DEF Call, Shape, InEnd, InClaim, InLock, Claimers, Lockers
<1>5. ~Claims(k) /\ \A y \in Txs : ~Ends(k, y)
    BY <1>2, <1>3 DEF Claims, Ends, Claimers, InEnd
<1>6. ~Claims(call[c]) /\ \A y \in Txs : ~Ends(call[c], y)
    BY CallIs DEF Begin, At, Claims, Ends, Shape, Claimers, InEnd
<1>7. Calls' /\ Mutexes'
  <2>1. UNCHANGED <<claimedMu, endedMu>>
      BY DEF Begin, claimVars
  <2>2. Moves(c, k) /\ ClaimMutex(c, k) /\ EndMutex(c, k)
      BY <1>1, <1>4, <1>5, <1>6, <2>1 DEF Moves, ClaimMutex, EndMutex
  <2> HIDE DEF k
  <2> QED BY <2>2, MoveTyped
<1>8. FactorsTyped'
    BY DEF Typed, FactorsTyped, Begin, claimVars
<1>9. AttemptsTyped'
    BY DEF Typed, AttemptsTyped, Begin, workVars
<1> QED
    BY <1>7, <1>8, <1>9 DEF Typed

(* lockClaimed takes claimedMu, which is free.                             *)
LEMMA LockClaimedTyped == ASSUME Typed, NEW c \in Goroutines, lockClaimed(c) PROVE Typed'
<1> DEFINE k == [call[c] EXCEPT !.pc = "end", !.ending = claimed, !.all = TRUE]
<1>1. call[c] \in Call /\ Shape(call[c]) /\ call[c].pc = "lockClaimed" /\ call[c].op \in Claimers
    BY CallIs DEF lockClaimed, At, Shape, InClaim
<1>2. ~Claims(call[c]) /\ \A y \in Txs : ~Ends(call[c], y)
    BY <1>1 DEF Claims, Ends, InEnd
<1>3. claimedMu = None /\ claimedMu' = c /\ endedMu' = endedMu
    BY DEF lockClaimed, txVars
<1>4. ASSUME Goto(c, "claim") PROVE Calls' /\ Mutexes'
  <2>1. "claim" \in InClaim /\ Moves(c, On(c, "claim")) /\ Claims(On(c, "claim"))
        /\ \A y \in Txs : ~Ends(On(c, "claim"), y)
      BY <1>1, <1>4, OnIs DEF Moves, Shape, Claims, Ends, InEnd, InClaim, InLock, Claimers, Lockers
  <2> QED
      BY <1>2, <1>3, <2>1, MoveTyped DEF ClaimMutex, EndMutex
<1>5. ASSUME claimed # None, GotoEnd(c, claimed, TRUE) PROVE Calls' /\ Mutexes'
  <2>1. claimed \in Txs
      BY <1>5 DEF Typed, FactorsTyped
  <2>2. k \in Call /\ k.pc = "end" /\ k.op = call[c].op /\ k.tx = call[c].tx /\ k.ending = claimed
      BY <1>1, <2>1 DEF Call
  <2>3. call' = [call EXCEPT ![c] = k]
      BY <1>5 DEF GotoEnd, Typed, Calls, Call
  <2> HIDE DEF k
  <2>4. Shape(k) /\ Claims(k) /\ \A y \in Txs : ~Ends(k, y)
      BY <1>1, <2>1, <2>2 DEF Shape, Claims, Ends, InEnd, InClaim, InLock, Claimers, Lockers
  <2> QED
      BY <1>2, <1>3, <2>2, <2>3, <2>4, MoveTyped DEF Moves, ClaimMutex, EndMutex
<1>6. FactorsTyped'
    BY DEF Typed, FactorsTyped, lockClaimed, txVars
<1>7. AttemptsTyped'
    BY DEF Typed, AttemptsTyped, lockClaimed, workVars, txVars
<1>8. Calls' /\ Mutexes'
    BY <1>4, <1>5 DEF lockClaimed
<1> QED
    BY <1>6, <1>7, <1>8 DEF Typed

(* What follows end, when endedMu is given back or was not needed.         *)
LEMMA EndedTyped ==
    ASSUME Typed, NEW c \in Goroutines, Ended(c), claimedMu' = claimedMu,
           call[c].pc \in {"end", "markEnd"},
           \/ call[c].pc = "end" /\ endedMu' = endedMu
           \/ call[c].pc = "markEnd" /\ endedMu' = [endedMu EXCEPT ![call[c].ending] = None]
    PROVE  Calls' /\ Mutexes'
<1>1. call[c] \in Call /\ Shape(call[c]) /\ call[c].ending \in Txs
    BY CallIs DEF Shape, InEnd
<1>2. ASSUME NEW k, \A x \in Txs : ~Ends(k, x) PROVE EndMutex(c, k)
  <2>1. CASE call[c].pc = "end"
      BY <1>2, <2>1 DEF EndMutex, Ends, InEnd
  <2>2. CASE call[c].pc = "markEnd"
    <3>1. endedMu[call[c].ending] = c
        BY <1>1, <2>2 DEF Typed, Mutexes, Ends, InEnd
    <3> QED
        BY <1>1, <1>2, <2>2, <3>1 DEF EndMutex
  <2> QED BY <2>1, <2>2
<1>3. ASSUME NEW pc \in {"claim", "setLock"}, Goto(c, pc),
             pc = "claim" <=> call[c].op \in Claimers, pc = "setLock" => call[c].op = "Lock"
      PROVE  Calls' /\ Mutexes'
  <2>1. /\ call' = [call EXCEPT ![c] = On(c, pc)] /\ On(c, pc) \in Call /\ On(c, pc).pc = pc
        /\ On(c, pc).op = call[c].op /\ On(c, pc).tx = call[c].tx
        /\ On(c, pc).ending = call[c].ending
      BY <1>3, OnIs DEF InClaim, InLock
  <2>2. Shape(On(c, pc)) /\ (Claims(On(c, pc)) <=> Claims(call[c]))
      BY <1>1, <1>3, <2>1 DEF Shape, Claims, InEnd, InClaim, InLock, Claimers, Lockers
  <2>3. \A x \in Txs : ~Ends(On(c, pc), x)
      BY <1>3, <2>1 DEF Ends, InEnd
  <2> QED
      BY <1>2, <2>1, <2>2, <2>3, MoveTyped DEF Moves, ClaimMutex
<1>4. CASE Return(c) /\ call[c].op \notin Claimers
  <2>1. ~Claims(call[c]) /\ call' = [call EXCEPT ![c] = Idle]
      BY <1>4 DEF Claims, Return
  <2> QED
      BY <1>2, <2>1, IdleShape, MoveTyped DEF Moves, ClaimMutex
<1> QED
    BY <1>3, <1>4 DEF Ended, Claimers

(* end takes endedMu of the factor, unless it has ended.                   *)
LEMMA EndTyped == ASSUME Typed, NEW c \in Goroutines, end(c) PROVE Typed'
<1> DEFINE e == call[c].ending
<1>1. /\ call[c] \in Call /\ Shape(call[c]) /\ call[c].pc = "end" /\ e \in Txs
      /\ claimedMu' = claimedMu
    BY CallIs DEF end, At, Shape, claimVars
<1>2. ~\E x \in Txs : Ends(call[c], x)
    BY <1>1 DEF Ends, InEnd
<1>3. ASSUME isEnded[e] PROVE Calls' /\ Mutexes'
    BY <1>1, <1>3, EndedTyped DEF end
<1>4. ASSUME ~isEnded[e], devState[e] = "Verifying" PROVE Calls' /\ Mutexes'
  <2> DEFINE k == [call[c] EXCEPT !.try = tries[e], !.pc = "wait"]
  <2>1. /\ k \in Call /\ k.pc = "wait" /\ k.op = call[c].op /\ k.tx = call[c].tx
        /\ k.ending = e /\ endedMu[e] = None /\ endedMu' = [endedMu EXCEPT ![e] = c]
        /\ call' = [call EXCEPT ![c] = k]
      BY <1>1, <1>4 DEF end, Call, InEnd, Typed, FactorsTyped, Calls
  <2> HIDE DEF k
  <2>2. Shape(k) /\ (Claims(k) <=> Claims(call[c])) /\ \A x \in Txs : Ends(k, x) <=> x = e
      BY <1>1, <2>1 DEF Shape, Claims, Ends, InEnd, InClaim, InLock, Claimers, Lockers
  <2> QED
      BY <1>1, <1>2, <2>1, <2>2, MoveTyped DEF Moves, ClaimMutex, EndMutex
<1>5. ASSUME ~isEnded[e], devState[e] # "Verifying" PROVE Calls' /\ Mutexes'
  <2> DEFINE k == On(c, "giveEnd")
  <2>1. /\ k \in Call /\ k.pc = "giveEnd" /\ k.op = call[c].op /\ k.tx = call[c].tx
        /\ k.ending = e /\ endedMu[e] = None /\ endedMu' = [endedMu EXCEPT ![e] = c]
        /\ call' = [call EXCEPT ![c] = k]
      BY <1>1, <1>5, OnIs DEF end, InEnd
  <2> HIDE DEF k
  <2>2. Shape(k) /\ (Claims(k) <=> Claims(call[c])) /\ \A x \in Txs : Ends(k, x) <=> x = e
      BY <1>1, <2>1 DEF Shape, Claims, Ends, InEnd, InClaim, InLock, Claimers, Lockers
  <2> QED
      BY <1>1, <1>2, <2>1, <2>2, MoveTyped DEF Moves, ClaimMutex, EndMutex
<1>6. FactorsTyped'
    BY <1>1 DEF Typed, FactorsTyped, end, claimVars
<1>7. AttemptsTyped'
  <2>1. ASSUME devState[e] = "Verifying" PROVE <<e, tries[e]>> \in Attempts
      BY <1>1, <2>1, FingerprintTxAssumption DEF Typed, FactorsTyped, Attempts
  <2>2. quit' \subseteq Attempts /\ panicked' \in BOOLEAN
      BY <1>1, <2>1 DEF Typed, AttemptsTyped, end
  <2> QED
      BY <2>2 DEF Typed, AttemptsTyped, end
<1> QED
    BY <1>3, <1>4, <1>5, <1>6, <1>7 DEF Typed

(* Steps that only go on in end or in setLockState.                        *)
LEMMA WithinTyped ==
    ASSUME Typed, NEW c \in Goroutines,
           waitRelease(c) \/ giveEnd(c) \/ checkState(c) \/ giveLock(c)
    PROVE  Calls' /\ Mutexes'
<1>1. UNCHANGED <<claimedMu, endedMu>>
    BY DEF waitRelease, giveEnd, checkState, giveLock, txVars, claimVars
<1>2. call[c] \in Call /\ Shape(call[c])
    BY CallIs
<1>3. CASE waitRelease(c) \/ giveEnd(c)
  <2>1. PICK pc \in {"giveEnd", "markEnd"} : Goto(c, pc) /\ call[c].pc \in InEnd
      BY <1>3 DEF waitRelease, giveEnd, At, InEnd
  <2>2. On(c, pc).op = call[c].op /\ On(c, pc).tx = call[c].tx /\ On(c, pc).pc = pc
        /\ On(c, pc).ending = call[c].ending
      BY <2>1, OnIs DEF InEnd
  <2>3. Shape(On(c, pc)) /\ (Claims(On(c, pc)) <=> Claims(call[c]))
      BY <1>2, <2>1, <2>2 DEF Shape, Claims, InEnd, InClaim, InLock, Claimers, Lockers
  <2>4. \A x \in Txs : Ends(On(c, pc), x) <=> Ends(call[c], x)
      BY <2>1, <2>2 DEF Ends, InEnd
  <2> QED
      BY <1>1, <2>1, <2>3, <2>4, GoneOn DEF InEnd
<1>4. CASE checkState(c) \/ giveLock(c)
  <2>1. PICK pc \in {"checkState", "setLock", "end"} :
            /\ Goto(c, pc) /\ call[c].pc \in {"checkState", "giveLock"} /\ call[c].op \in Lockers
      BY <1>2, <1>4 DEF checkState, giveLock, At, Shape, InLock, Lockers
  <2>2. On(c, pc).op = call[c].op /\ On(c, pc).tx = call[c].tx /\ On(c, pc).pc = pc
        /\ On(c, pc).ending = call[c].ending
      BY <2>1, OnIs DEF InLock
  <2>3. Shape(On(c, pc)) /\ (Claims(On(c, pc)) <=> Claims(call[c]))
      BY <1>2, <2>1, <2>2 DEF Shape, Claims, InEnd, InClaim, InLock, Claimers, Lockers
  <2>4. \A x \in Txs : Ends(On(c, pc), x) <=> Ends(call[c], x)
      BY <2>1, <2>2 DEF Ends, InEnd
  <2> QED
      BY <1>1, <2>1, <2>3, <2>4, GoneOn DEF InLock
<1> QED
    BY <1>3, <1>4

(* The other steps of end keep endedMu.                                    *)
LEMMA WaitReleaseTyped == ASSUME Typed, NEW c \in Goroutines, waitRelease(c) PROVE Typed'
    BY WithinTyped DEF Typed, FactorsTyped, AttemptsTyped, waitRelease, txVars, claimVars, workVars

(* So does the status that it gives.                                       *)
LEMMA GiveEndTyped == ASSUME Typed, NEW c \in Goroutines, giveEnd(c) PROVE Typed'
<1>1. FactorsTyped'
    BY DEF Typed, FactorsTyped, giveEnd, claimVars
<1>2. AttemptsTyped'
    BY DEF Typed, AttemptsTyped, giveEnd, workVars
<1> QED
    BY <1>1, <1>2, WithinTyped DEF Typed

(* setLockState takes no mutex.                                            *)
LEMMA GiveLockTyped == ASSUME Typed, NEW c \in Goroutines, giveLock(c) PROVE Typed'
<1>1. FactorsTyped'
    BY DEF Typed, FactorsTyped, giveLock, claimVars
<1>2. AttemptsTyped'
    BY DEF Typed, AttemptsTyped, giveLock, workVars
<1> QED
    BY <1>1, <1>2, WithinTyped DEF Typed

(* Nor does what it reads.                                                 *)
LEMMA CheckStateTyped == ASSUME Typed, NEW c \in Goroutines, checkState(c) PROVE Typed'
    BY WithinTyped DEF Typed, FactorsTyped, AttemptsTyped, checkState, txVars, claimVars, workVars

(* markEnd gives endedMu back.                                             *)
LEMMA MarkEndTyped == ASSUME Typed, NEW c \in Goroutines, markEnd(c) PROVE Typed'
<1>1. Calls' /\ Mutexes'
    BY EndedTyped DEF markEnd, At
<1>2. FactorsTyped'
    BY DEF Typed, FactorsTyped, markEnd
<1>3. AttemptsTyped'
    BY DEF Typed, AttemptsTyped, markEnd
<1> QED
    BY <1>1, <1>2, <1>3 DEF Typed

(* A call that returns with the mutex claimedMu given back.                *)
LEMMA ReturnTyped ==
    ASSUME Typed, NEW c \in Goroutines, Return(c), endedMu' = endedMu,
           call[c].pc \notin InEnd,
           \/ Claims(call[c]) /\ claimedMu' = None
           \/ ~Claims(call[c]) /\ claimedMu' = claimedMu
    PROVE  Calls' /\ Mutexes'
<1>1. Claims(call[c]) => claimedMu = c
    BY DEF Typed, Mutexes
<1>2. \A x \in Txs : ~Ends(call[c], x)
    BY DEF Ends
<1> QED
    BY <1>1, <1>2, IdleShape, MoveTyped DEF Return, Moves, ClaimMutex, EndMutex

(* cancelLastFingerprintTx gives claimedMu back.                           *)
LEMMA CancelledTyped == ASSUME Typed, NEW c \in Goroutines, cancelled(c) PROVE Typed'
<1>1. Claims(call[c]) /\ call[c].pc \notin InEnd /\ claimedMu' = None /\ endedMu' = endedMu
    BY DEF cancelled, At, Claims, Claimers, InEnd, txVars
<1>2. Calls' /\ Mutexes'
    BY <1>1, ReturnTyped DEF cancelled
<1> QED
    BY <1>2 DEF Typed, FactorsTyped, AttemptsTyped, cancelled, txVars, workVars

(* A failed claim gives claimedMu back, and a claim keeps it.              *)
LEMMA ClaimTyped == ASSUME Typed, NEW c \in Goroutines, claim(c) PROVE Typed'
<1>1. /\ Claims(call[c]) /\ call[c].pc = "claim" /\ call[c].pc \notin InEnd /\ endedMu' = endedMu
      /\ call[c].op = "Start" /\ call[c].tx \in Txs
    BY CallIs DEF claim, At, Claims, Claimers, InEnd, txVars, Shape
<1>2. ASSUME Return(c), claimedMu' = None PROVE Calls' /\ Mutexes'
    BY <1>1, <1>2, ReturnTyped
<1>3. ASSUME Goto(c, "start"), claimedMu' = claimedMu PROVE Calls' /\ Mutexes'
  <2>1. On(c, "start").op = "Start" /\ On(c, "start").tx = call[c].tx /\ On(c, "start").pc = "start"
        /\ On(c, "start").ending = call[c].ending
      BY <1>1, OnIs DEF InClaim
  <2>2. Shape(On(c, "start")) /\ Claims(On(c, "start"))
      BY <1>1, <2>1, CallIs DEF Shape, Claims, InEnd, InClaim, InLock, Claimers, Lockers
  <2>3. \A x \in Txs : ~Ends(On(c, "start"), x) /\ ~Ends(call[c], x)
      BY <1>1, <2>1 DEF Ends, InEnd
  <2> QED
      BY <1>1, <1>3, <2>2, <2>3, GoneOn DEF InClaim
<1>4. Calls' /\ Mutexes'
    BY <1>2, <1>3 DEF claim
<1>5. FactorsTyped'
    BY <1>1 DEF Typed, FactorsTyped, claim, txVars
<1> QED
    BY <1>4, <1>5 DEF Typed, AttemptsTyped, claim, txVars, workVars

(* start gives claimedMu back.                                             *)
LEMMA StartTyped == ASSUME Typed, NEW c \in Goroutines, start(c) PROVE Typed'
<1>1. /\ Claims(call[c]) /\ call[c].pc \notin InEnd /\ claimedMu' = None /\ endedMu' = endedMu
      /\ call[c].tx \in Txs
    BY CallIs DEF start, At, Claims, Claimers, InEnd, InClaim, Shape
<1>2. Calls' /\ Mutexes'
    BY <1>1, ReturnTyped DEF start
<1>3. FactorsTyped'
    BY <1>1, FingerprintTxAssumption DEF Typed, FactorsTyped, start
<1>4. AttemptsTyped'
  <2> DEFINE x == call[c].tx
             w == <<x, tries[x] + 1>>
  <2>1. tries[x] \in Nat /\ tries'[x] > 0 /\ \A y \in Txs : tries[y] > 0 => tries'[y] > 0
      BY <1>1, FingerprintTxAssumption DEF Typed, FactorsTyped, start
  <2>2. w \in Attempts
      BY <1>1, FingerprintTxAssumption DEF Typed, FactorsTyped, start, Attempts
  <2>3. \A v \in Attempts : v[1] \in Txs
      BY DEF Attempts
  <2>4. worker' = [worker EXCEPT ![w].pc = "verify"]
      BY DEF start
  <2>5. w[1] = x
      OBVIOUS
  <2>6. UNCHANGED <<quit, released, listening, panicked>>
      BY DEF start
  <2> HIDE DEF w, x
  <2>7. \A v \in Attempts : v # w => worker'[v] = worker[v]
      BY <2>4 DEF Typed, AttemptsTyped
  <2>8. \A v \in Attempts : worker'[v].pc # "new" => tries'[v[1]] > 0
      BY <2>1, <2>3, <2>5, <2>7 DEF Typed, AttemptsTyped
  <2>9. worker' \in [Attempts -> [pc : {"new", "verify", "loop", "stop", "unclaim", "release",
                                        "report", "done"},
                                  result : {"nil", "Success", "Failure", "Error"}]]
      BY <2>2, <2>4 DEF Typed, AttemptsTyped
  <2> QED
      BY <2>6, <2>8, <2>9 DEF Typed, AttemptsTyped
<1> QED
    BY <1>2, <1>3, <1>4 DEF Typed

(* setLock ends the call.                                                  *)
LEMMA SetLockTyped == ASSUME Typed, NEW c \in Goroutines, setLock(c) PROVE Typed'
<1>1. ~Claims(call[c]) /\ call[c].pc \notin InEnd /\ claimedMu' = claimedMu /\ endedMu' = endedMu
    BY CallIs DEF setLock, At, Claims, Claimers, InEnd, InLock, Lockers, Shape, claimVars
<1>2. Calls' /\ Mutexes'
    BY <1>1, ReturnTyped DEF setLock
<1>3. FactorsTyped'
    BY DEF Typed, FactorsTyped, setLock, claimVars
<1> QED
    BY <1>2, <1>3 DEF Typed, AttemptsTyped, setLock, workVars

(* An attempt has its types.                                               *)
LEMMA WorkTyped == ASSUME Typed, NEW w \in Attempts, Work(w) PROVE Typed'
<1>1. UNCHANGED <<call, claimedMu, endedMu, tries, claimed>>
    BY DEF Work, verify, leaveLoop, stopVerify, unclaim, releaseWaiters, report, txVars, claimVars
<1>2. Calls' /\ Mutexes'
    BY <1>1, StillTyped
<1>3. w[1] \in Txs /\ worker[w].pc # "new" /\ tries[w[1]] > 0
    BY DEF Work, verify, leaveLoop, stopVerify, unclaim, releaseWaiters, report, Attempts,
           Typed, AttemptsTyped
<1>4. FactorsTyped'
  <2>1. devState' \in [Txs -> {"Idle", "Verifying", "Ended"}] /\ user' \in Txs \cup {None}
        /\ \A x \in Txs : devState'[x] = "Verifying" => devState[x] = "Verifying"
      BY <1>3 DEF Typed, FactorsTyped, Work, verify, leaveLoop, stopVerify, unclaim,
                  releaseWaiters, report, txVars
  <2>2. UNCHANGED <<locked, isEnded, closed>>
      BY DEF Work, verify, leaveLoop, stopVerify, unclaim, releaseWaiters, report, txVars
  <2> QED
      BY <1>1, <2>1, <2>2 DEF Typed, FactorsTyped
<1>5. AttemptsTyped'
  <2>1. worker[w].result \in {"nil", "Success", "Failure", "Error"}
      BY DEF Typed, AttemptsTyped
  <2>2. \E pc \in {"loop", "stop", "unclaim", "release", "report", "done"},
            r \in {"nil", "Success", "Failure", "Error"} : Worker(w, pc, r)
      BY <2>1 DEF Work, verify, leaveLoop, stopVerify, unclaim, releaseWaiters, report
  <2>3. <<w[1], tries[w[1]]>> \in Attempts
      BY <1>3, FingerprintTxAssumption DEF Attempts, Typed, FactorsTyped
  <2>4. quit' \subseteq Attempts /\ released' \subseteq Attempts /\ listening' \subseteq Attempts
        /\ panicked' \in BOOLEAN
      BY <2>3 DEF Typed, AttemptsTyped, Work, verify, leaveLoop, stopVerify, unclaim,
                  releaseWaiters, report
  <2> QED
      BY <1>1, <1>3, <2>2, <2>4 DEF Typed, AttemptsTyped, Worker
<1> QED
    BY <1>2, <1>4, <1>5 DEF Typed

(* Every step keeps the types.                                             *)
LEMMA TypedStep == Typed /\ [Next]_vars => Typed'
<1> SUFFICES ASSUME Typed, [Next]_vars PROVE Typed'
    OBVIOUS
<1>1. ASSUME NEW c \in Goroutines, Begin(c) PROVE Typed'
    BY <1>1, BeginTyped
<1>2. ASSUME NEW c \in Goroutines, Step(c) PROVE Typed'
    BY <1>2, LockClaimedTyped, EndTyped, WaitReleaseTyped, GiveEndTyped, MarkEndTyped,
       CancelledTyped, ClaimTyped, StartTyped, GiveLockTyped, CheckStateTyped, SetLockTyped DEF Step
<1>3. ASSUME NEW w \in Attempts, Work(w) PROVE Typed'
    BY <1>3, WorkTyped
<1>4. CASE UNCHANGED vars
    BY <1>4 DEF Typed, Calls, Mutexes, FactorsTyped, AttemptsTyped, vars, txVars, claimVars,
                  workVars
<1> QED
    BY <1>1, <1>2, <1>3, <1>4 DEF Next

(* The history is that of factors of the calls.                            *)
LEMMA HistoryStep == Typed /\ HistoryTyped /\ [Next]_vars => HistoryTyped'
<1> SUFFICES ASSUME Typed, HistoryTyped, [Next]_vars PROVE HistoryTyped'
    OBVIOUS
<1>1. CASE UNCHANGED history
    BY <1>1 DEF history, HistoryTyped
<1>2. ASSUME NEW c \in Goroutines, markEnd(c) PROVE HistoryTyped'
    BY <1>2 DEF markEnd, HistoryTyped
<1>3. ASSUME NEW c \in Goroutines, claim(c) \/ start(c) \/ giveLock(c) PROVE HistoryTyped'
  <2>1. call[c].tx \in Txs /\ UNCHANGED forgotten
      BY <1>3, CallIs DEF claim, start, giveLock, At, Shape
  <2>2. overlapped' \in {overlapped, overlapped \cup {call[c].tx}}
      BY <1>3 DEF claim, start, giveLock, Overlaps
  <2> QED
      BY <2>1, <2>2 DEF HistoryTyped
<1>4. ASSUME NEW c \in Goroutines, Step(c), ~markEnd(c), ~claim(c), ~start(c), ~giveLock(c)
      PROVE  UNCHANGED history
    BY <1>4 DEF Step, lockClaimed, end, waitRelease, giveEnd, cancelled, checkState, setLock
<1>5. ASSUME NEW w \in Attempts, Work(w) PROVE UNCHANGED history
    BY <1>5 DEF Work, verify, leaveLoop, stopVerify, unclaim, releaseWaiters, report
<1>6. ASSUME NEW c \in Goroutines, Begin(c) PROVE UNCHANGED history
    BY <1>6 DEF Begin
<1>7. CASE UNCHANGED vars
    BY <1>1, <1>7 DEF vars
<1> QED
    BY <1>1, <1>2, <1>3, <1>4, <1>5, <1>6, <1>7 DEF Next

(* The mutexes claimedMu and endedMu are held in the steps between their   *)
(* Lock and Unlock only, and the rest has its types, for any number of     *)
(* factors, attempts and calls (fingerprint_tx.go).                        *)
THEOREM TxTypeCorrect == Spec => []TypeOK
<1>1. Init => HistoryTyped
    BY DEF Init, HistoryTyped
<1> QED
    BY <1>1, TypedInit, TypedStep, HistoryStep, TypedTypeOK, PTL DEF Spec


-----------------------------------------------------------------------------
(* The attempts that there are, and what is closed of them.                *)
Tried ==
    \A x \in Txs, i \in 1..MaxAttempts :
        /\ worker[<<x, i>>].pc = "new" <=> i > tries[x]
        /\ <<x, i>> \in quit \cup released => i <= tries[x]

(* The last attempt of x, if there was one, has given the device back.     *)
Over(x) == tries[x] = 0 \/ worker[<<x, tries[x]>>].pc \in {"report", "done"}

(* What holds of a factor whose attempts did not overlap: only the last    *)
(* attempt may be under way; its quit is closed only by the call that      *)
(* holds endedMu, before isEnded is set; a factor that is not verifying    *)
(* has given the device back.                                              *)
Sole(x) ==
    \A i \in 1..MaxAttempts :
        /\ i < tries[x] => worker[<<x, i>>].pc = "done"
        /\ <<x, i>> \in released => worker[<<x, i>>].pc \in {"report", "done"}

Quits(x) == tries[x] > 0 /\ <<x, tries[x]>> \in quit => isEnded[x] \/ endedMu[x] # None

Ceased(x) == devState[x] # "Verifying" \/ isEnded[x] => Over(x)

Ender(k, x) ==
    Ends(k, x) => /\ ~isEnded[x]
                  /\ k.pc = "wait" => tries[x] > 0 /\ k.try = tries[x]
                  /\ k.pc # "wait" => Over(x)

Alone(x) == Sole(x) /\ Quits(x) /\ Ceased(x) /\ \A c \in Goroutines : Ender(call[c], x)

AloneInv == Tried /\ (panicked => overlapped # {}) /\ \A x \in Txs \ overlapped : Alone(x)

(* Nothing is closed before the first call.                                *)
LEMMA AloneInit == Init => AloneInv
<1> SUFFICES ASSUME Init PROVE AloneInv
    OBVIOUS
<1>1. \A x \in Txs, i \in 1..MaxAttempts : worker[<<x, i>>].pc = "new" /\ i > tries[x]
    BY DEF Init, Attempts
<1>2. Tried
    BY <1>1, FingerprintTxAssumption DEF Init, Tried
<1>3. \A x \in Txs : Alone(x)
    BY <1>1, FingerprintTxAssumption DEF Init, Alone, Sole, Quits, Ceased, Ender, Over, Ends, Idle, InEnd
<1> QED
    BY <1>2, <1>3 DEF Init, AloneInv

(* The attempts of a factor, and its last one.                             *)
LEMMA AttemptsAre ==
    ASSUME Typed
    PROVE  /\ \A x \in Txs : tries[x] \in Nat /\ tries[x] <= MaxAttempts
           /\ \A x \in Txs : tries[x] > 0 => tries[x] \in 1..MaxAttempts
           /\ \A x \in Txs, i \in 1..MaxAttempts : <<x, i>> \in Attempts
           /\ \A w \in Attempts : w[1] \in Txs /\ w[2] \in 1..MaxAttempts /\ w = <<w[1], w[2]>>
    BY FingerprintTxAssumption DEF Typed, FactorsTyped, Attempts

(* A factor of which no attempt is under way.                              *)
LEMMA NotUnderWay ==
    ASSUME Typed, Tried, NEW x \in Txs, ~UnderWay(x)
    PROVE  Over(x) /\ \A i \in 1..MaxAttempts : i <= tries[x] => worker[<<x, i>>].pc = "done"
    BY AttemptsAre DEF UnderWay, Tried, Over

(* A step that leaves a factor alone.                                      *)
LEMMA AloneKept ==
    ASSUME NEW x \in Txs, Alone(x), UNCHANGED <<worker, quit, released, tries>>,
           isEnded'[x] = isEnded[x], devState'[x] = devState[x] \/ Over(x),
           endedMu'[x] = endedMu[x],
           \A c \in Goroutines :
              Ends(call'[c], x) => Ends(call[c], x) /\ call'[c].pc = call[c].pc
                                   /\ call'[c].try = call[c].try
    PROVE  Alone(x)'
<1>1. Over(x)' <=> Over(x)
    BY DEF Over
<1> QED
    BY <1>1 DEF Alone, Sole, Quits, Ceased, Ender, Ends

(* A step that leaves the attempts alone.                                  *)
LEMMA TriedKept == ASSUME Tried, UNCHANGED <<worker, quit, released, tries>> PROVE Tried'
    BY DEF Tried

(* The parts of the invariant.                                             *)
LEMMA AloneMade ==
    ASSUME Tried', panicked' => overlapped' # {}, \A x \in Txs \ overlapped' : Alone(x)'
    PROVE  AloneInv'
    BY DEF AloneInv

(* The other goroutines do not move.                                       *)
LEMMA OthersStay ==
    ASSUME Typed, NEW c \in Goroutines, Begin(c) \/ Step(c), NEW d \in Goroutines, d # c
    PROVE  call'[d] = call[d]
<1>1. \E k : call' = [call EXCEPT ![c] = k]
    BY DEF Begin, Step, lockClaimed, end, waitRelease, giveEnd, markEnd, cancelled, claim, start,
           giveLock, checkState, setLock, Goto, GotoEnd, Return, Ended
<1> QED
    BY <1>1 DEF Typed, Calls

(* Calls that begin, take claimedMu, claim or set a lock end no factor, and *)
(* a status that is given while an attempt is under way is an overlap.     *)
LEMMA OtherAlone ==
    ASSUME Typed, AloneInv, NEW c \in Goroutines,
           \/ Begin(c) \/ lockClaimed(c) \/ cancelled(c) \/ claim(c)
           \/ giveLock(c) \/ checkState(c) \/ setLock(c)
    PROVE  AloneInv'
<1>1. UNCHANGED <<worker, quit, released, tries, isEnded, endedMu, panicked>>
    BY DEF Begin, lockClaimed, cancelled, claim, giveLock, checkState, setLock, txVars, claimVars,
           workVars
<1>2. overlapped \subseteq overlapped'
    BY DEF Begin, lockClaimed, cancelled, claim, giveLock, checkState, setLock, history, Overlaps
<1>3. call'[c].pc \notin InEnd
  <2>1. CASE Begin(c)
    <3>1. \A op : FirstStep(op) \notin InEnd
        BY DEF FirstStep, InEnd
    <3> QED
        BY <2>1, <3>1 DEF Begin, Typed, Calls
  <2>2. CASE ~Begin(c)
      BY <2>2 DEF lockClaimed, cancelled, claim, giveLock, checkState, setLock, Goto, GotoEnd,
                  Return, Idle, InEnd, Typed, Calls, Call
  <2> QED BY <2>1, <2>2
<1>4. \A d \in Goroutines : d # c => call'[d] = call[d]
    BY OthersStay DEF Step
<1>5. ASSUME NEW x \in Txs \ overlapped' PROVE Alone(x)'
  <2>1. Alone(x) /\ Tried
      BY <1>2 DEF AloneInv
  <2>2. CASE ~giveLock(c)
    <3>1. devState' = devState
        BY <2>2 DEF Begin, lockClaimed, cancelled, claim, checkState, setLock, txVars
    <3> QED
        BY <1>1, <1>3, <1>4, <2>1, <3>1, AloneKept DEF Ends
  <2>3. CASE giveLock(c)
    <3>1. call[c].tx \in Txs
        BY <2>3, CallIs DEF giveLock, At, Shape
    <3>2. x = call[c].tx => ~UnderWay(x)
        BY <2>3 DEF giveLock, Overlaps
    <3>3. devState'[x] = devState[x] \/ Over(x)
        BY <2>1, <2>3, <3>1, <3>2, NotUnderWay DEF giveLock, Typed, FactorsTyped
    <3> QED
        BY <1>1, <1>3, <1>4, <2>1, <3>3, AloneKept DEF Ends
  <2> QED BY <2>2, <2>3
<1> QED
    BY <1>1, <1>2, <1>5, TriedKept, AloneMade DEF AloneInv

(* end finds the factor ended or not verifying, or tells its last attempt  *)
(* to quit.                                                                *)
LEMMA EndAlone == ASSUME Typed, AloneInv, NEW c \in Goroutines, end(c) PROVE AloneInv'
<1>0. PICK e \in Txs : e = call[c].ending
    BY CallIs DEF end, At, Shape
<1>1. endedMu[e] = None /\ call[c] \in Call /\ call[c].pc = "end"
    BY <1>0, CallIs DEF end, At
<1>2. UNCHANGED <<worker, released, tries, isEnded, devState, overlapped>>
    BY DEF end, history
<1>3. \A d \in Goroutines : d # c => call'[d] = call[d]
    BY OthersStay DEF Step
<1>4. CASE isEnded[e]
  <2>1. call'[c].pc \notin InEnd /\ UNCHANGED <<quit, endedMu, panicked>>
      BY <1>0, <1>4 DEF end, Ended, Goto, Return, Idle, InEnd, Typed, Calls, Call
  <2>2. ASSUME NEW x \in Txs \ overlapped PROVE Alone(x)'
      BY <1>2, <1>3, <2>1, AloneKept DEF AloneInv, Ends
  <2> QED
      BY <1>2, <2>1, <2>2, TriedKept, AloneMade DEF AloneInv
<1>5. CASE ~isEnded[e]
  <2>1. /\ endedMu' = [endedMu EXCEPT ![e] = c] /\ call'[c].ending = e
        /\ call'[c].pc = IF devState[e] = "Verifying" THEN "wait" ELSE "giveEnd"
        /\ devState[e] = "Verifying" => call'[c].try = tries[e]
      BY <1>0, <1>1, <1>5 DEF end, Goto, Typed, Calls, Call
  <2>2. /\ devState[e] = "Verifying" => /\ tries[e] \in 1..MaxAttempts
                                        /\ quit' = quit \cup {<<e, tries[e]>>}
                                        /\ panicked' = (panicked \/ <<e, tries[e]>> \in quit)
        /\ devState[e] # "Verifying" => UNCHANGED <<quit, panicked>>
      BY <1>0, <1>1, <1>5, AttemptsAre DEF end, Typed, FactorsTyped
  <2>3. Tried'
    <3>1. ASSUME NEW x \in Txs, NEW i \in 1..MaxAttempts, <<x, i>> \in quit' \cup released
          PROVE  i <= tries[x]
      <4>1. <<x, i>> \in quit \cup released \/ (x = e /\ i = tries[e])
          BY <2>2, <3>1
      <4> QED
          BY <4>1, AttemptsAre DEF AloneInv, Tried
    <3> QED
        BY <1>2, <3>1 DEF AloneInv, Tried
  <2>4. \A x \in Txs : x # e => ~Ends(call'[c], x) /\ endedMu'[x] = endedMu[x]
      BY <1>1, <2>1 DEF Ends, Typed, FactorsTyped
  <2>5. \A x \in Txs : Over(x)' <=> Over(x)
      BY <1>2 DEF Over
  <2>6. ASSUME NEW x \in Txs \ overlapped, x # e PROVE Alone(x)'
    <3>1. \A i \in 1..MaxAttempts : <<x, i>> \in quit' <=> <<x, i>> \in quit
        BY <2>2, <2>6
    <3>2. tries[x] > 0 => (<<x, tries[x]>> \in quit' <=> <<x, tries[x]>> \in quit)
        BY <3>1, AttemptsAre
    <3>3. \A d \in Goroutines : Ends(call'[d], x) => call'[d] = call[d]
        BY <1>3, <2>4, <2>6
    <3> QED
        BY <1>2, <2>4, <2>5, <2>6, <3>2, <3>3 DEF AloneInv, Alone, Sole, Quits, Ceased, Ender, Ends
  <2>7. ASSUME e \notin overlapped PROVE Alone(e)'
    <3>1. Alone(e)
        BY <1>1, <2>7 DEF AloneInv
    <3>2. endedMu'[e] # None
        BY <1>1, <2>1, FingerprintTxAssumption DEF Typed, FactorsTyped
    <3>3. \A d \in Goroutines : Ends(call'[d], e) => d = c
        BY <1>1, <1>3, FingerprintTxAssumption DEF Typed, Mutexes
    <3>4. devState[e] # "Verifying" => Over(e)
        BY <3>1 DEF Alone, Sole, Quits, Ceased, Ender
    <3>5. Sole(e)' /\ Ceased(e)'
        BY <1>2, <2>5, <3>1 DEF Alone, Sole, Ceased
    <3>6. Quits(e)'
        BY <3>2 DEF Quits
    <3>7. Ender(call[c], e)'
        BY <1>2, <1>5, <2>1, <2>2, <2>5, <3>4, AttemptsAre DEF Ender
    <3>8. \A d \in Goroutines : Ender(call[d], e)'
        BY <3>3, <3>7 DEF Ender, Ends
    <3> QED
        BY <3>5, <3>6, <3>8 DEF Alone
  <2>8. panicked' => overlapped # {}
    <3> SUFFICES ASSUME devState[e] = "Verifying", <<e, tries[e]>> \in quit, e \notin overlapped
                 PROVE  FALSE
        BY <2>2 DEF AloneInv
    <3> QED
        BY <1>1, <1>5, <2>2 DEF AloneInv, Alone, Sole, Quits, Ceased, Ender
  <2> QED
      BY <1>2, <2>3, <2>6, <2>7, <2>8, AloneMade
<1> QED
    BY <1>4, <1>5

(* end goes on when the attempt has given the device back, and marks the   *)
(* factor as ended.                                                        *)
LEMMA EndsAlone ==
    ASSUME Typed, AloneInv, NEW c \in Goroutines, waitRelease(c) \/ giveEnd(c) \/ markEnd(c)
    PROVE  AloneInv'
<1>0. PICK e \in Txs : e = call[c].ending
    BY CallIs DEF waitRelease, giveEnd, markEnd, At, Shape, InEnd
<1>1. Ends(call[c], e) /\ call[c] \in Call
    BY <1>0, CallIs DEF waitRelease, giveEnd, markEnd, At, Ends, InEnd
<1>2. /\ UNCHANGED <<worker, quit, released, tries, overlapped, panicked>>
      /\ \A x \in Txs : x # e => /\ isEnded'[x] = isEnded[x] /\ devState'[x] = devState[x]
                                 /\ endedMu'[x] = endedMu[x]
    BY <1>0 DEF waitRelease, giveEnd, markEnd, txVars, workVars, history, Typed, FactorsTyped
<1>3. \A d \in Goroutines : d # c => call'[d] = call[d]
    BY OthersStay DEF Step
<1>4. \A d \in Goroutines : Ends(call[d], e) => d = c
    BY <1>1 DEF Typed, Mutexes
<1>5. \A x \in Txs : Ends(call'[c], x) => x = e
    BY <1>0, <1>1 DEF waitRelease, giveEnd, markEnd, Ended, Goto, Return, Idle, Ends, InEnd, Typed, Calls,
                Call
<1>6. \A x \in Txs : Over(x)' <=> Over(x)
    BY <1>2 DEF Over
<1>7. ASSUME NEW x \in Txs \ overlapped, x # e PROVE Alone(x)'
  <2>1. \A d \in Goroutines : Ends(call'[d], x) => call'[d] = call[d]
      BY <1>3, <1>5, <1>7
  <2> QED
      BY <1>2, <1>7, <2>1, AloneKept DEF AloneInv
<1>8. ASSUME e \notin overlapped PROVE Alone(e)'
  <2>1. Alone(e) /\ Tried
      BY <1>1, <1>8 DEF AloneInv
  <2>2. Over(e) /\ ~isEnded[e]
    <3>1. CASE waitRelease(c)
      <4>1. call[c].pc = "wait" /\ <<e, call[c].try>> \in released
          BY <1>0, <3>1 DEF waitRelease, At
      <4> QED
          BY <1>1, <2>1, <4>1, AttemptsAre DEF Alone, Sole, Ender, Over
    <3>2. CASE giveEnd(c) \/ markEnd(c)
        BY <1>1, <2>1, <3>2 DEF giveEnd, markEnd, At, Alone, Ender
    <3> QED BY <3>1, <3>2
  <2>3. \A d \in Goroutines : Ends(call'[d], e) => d = c
      BY <1>3, <1>4
  <2>4. Sole(e)' /\ Ceased(e)'
      BY <1>2, <1>6, <2>1, <2>2 DEF Alone, Sole, Ceased
  <2>5. CASE waitRelease(c) \/ giveEnd(c)
    <3>1. isEnded' = isEnded /\ endedMu' = endedMu /\ call'[c].pc # "wait"
        BY <1>1, <2>5 DEF waitRelease, giveEnd, txVars, Goto, Typed, Calls, Call
    <3>2. Quits(e)'
        BY <1>2, <2>1, <3>1 DEF Alone, Quits
    <3>3. \A d \in Goroutines : Ender(call[d], e)'
        BY <1>6, <2>2, <2>3, <3>1 DEF Ender, Ends
    <3> QED
        BY <2>4, <3>2, <3>3 DEF Alone
  <2>6. CASE markEnd(c)
    <3>1. isEnded'[e] /\ call'[c].pc \notin InEnd
        BY <1>0, <1>1, <2>6 DEF markEnd, Ended, Goto, Return, Idle, InEnd, Typed, Calls, Call,
                                FactorsTyped
    <3>2. Quits(e)'
        BY <3>1 DEF Quits
    <3>3. \A d \in Goroutines : Ender(call[d], e)'
        BY <2>3, <3>1 DEF Ender, Ends
    <3> QED
        BY <2>4, <3>2, <3>3 DEF Alone
  <2> QED BY <2>5, <2>6
<1> QED
    BY <1>2, <1>7, <1>8, TriedKept, AloneMade DEF AloneInv

(* A factor starts anew, alone when its last attempt is over and nobody    *)
(* ends it.                                                                *)
LEMMA StartAlone == ASSUME Typed, AloneInv, NEW c \in Goroutines, start(c) PROVE AloneInv'
<1>1. PICK y \in Txs : y = call[c].tx
    BY CallIs DEF start, At, Shape
<1>2. PICK n \in 1..MaxAttempts : n = tries[y] + 1
  <2>1. tries[y] \in Nat /\ tries[y] < MaxAttempts /\ MaxAttempts \in Nat
      BY <1>1, AttemptsAre, FingerprintTxAssumption DEF start
  <2> QED BY <2>1
<1>3. /\ tries' = [tries EXCEPT ![y] = n] /\ worker' = [worker EXCEPT ![<<y, n>>].pc = "verify"]
      /\ isEnded' = [isEnded EXCEPT ![y] = FALSE]
      /\ devState' = [devState EXCEPT ![y] = "Verifying"]
      /\ UNCHANGED <<quit, released, endedMu, panicked>> /\ call' = [call EXCEPT ![c] = Idle]
      /\ Overlaps(y, UnderWay(y) \/ endedMu[y] # None)
  <2>1. tries' = [tries EXCEPT ![y] = tries[y] + 1]
      BY <1>1 DEF start
  <2> QED
      BY <1>1, <1>2, <2>1 DEF start, Return
<1>4. overlapped \subseteq overlapped'
    BY <1>3 DEF Overlaps
<1>5. /\ tries'[y] = n /\ \A x \in Txs : x # y => tries'[x] = tries[x]
      /\ worker'[<<y, n>>].pc = "verify"
      /\ \A x \in Txs, i \in 1..MaxAttempts :
            <<x, i>> # <<y, n>> => worker'[<<x, i>>] = worker[<<x, i>>]
    BY <1>3, AttemptsAre DEF Typed, FactorsTyped, AttemptsTyped
<1>6. Tried'
  <2>1. Tried /\ tries[y] \in Nat
      BY AttemptsAre DEF AloneInv
  <2>2. ASSUME NEW x \in Txs, NEW i \in 1..MaxAttempts, x # y
        PROVE  /\ worker'[<<x, i>>].pc = "new" <=> i > tries'[x]
               /\ <<x, i>> \in quit' \cup released' => i <= tries'[x]
      BY <1>3, <1>5, <2>1, <2>2 DEF Tried
  <2>3. ASSUME NEW i \in 1..MaxAttempts
        PROVE  /\ worker'[<<y, i>>].pc = "new" <=> i > tries'[y]
               /\ <<y, i>> \in quit' \cup released' => i <= tries'[y]
    <3>1. i = n \/ worker'[<<y, i>>] = worker[<<y, i>>]
        BY <1>5
    <3>2. i > n <=> i > tries[y] /\ i # n
        BY <1>2, <2>1
    <3> QED
        BY <1>2, <1>3, <1>5, <2>1, <3>1, <3>2 DEF Tried
  <2> QED
      BY <2>2, <2>3 DEF Tried
<1>7. ASSUME NEW x \in Txs \ overlapped', x # y PROVE Alone(x)'
  <2>1. Alone(x)
      BY <1>4 DEF AloneInv
  <2>2. Over(x)' <=> Over(x)
      BY <1>5, <1>7, AttemptsAre DEF Over
  <2>3. \A d \in Goroutines : Ends(call'[d], x) => call'[d] = call[d]
      BY <1>3 DEF Typed, Calls, Ends, Idle, InEnd
  <2> QED
      BY <1>3, <1>5, <1>7, <2>1, <2>2, <2>3 DEF Alone, Sole, Quits, Ceased, Ender, Ends, Typed, FactorsTyped
<1>8. ASSUME y \notin overlapped' PROVE Alone(y)'
  <2>1. ~UnderWay(y) /\ endedMu[y] = None
      BY <1>3, <1>8 DEF Overlaps
  <2>2. \A i \in 1..MaxAttempts : i < n => worker[<<y, i>>].pc = "done"
      BY <1>2, <2>1, NotUnderWay, AttemptsAre DEF AloneInv
  <2>3. <<y, n>> \notin quit /\ <<y, n>> \notin released
      BY <1>2, AttemptsAre DEF AloneInv, Tried
  <2>4. \A d \in Goroutines : ~Ends(call'[d], y)
      BY <1>3, <2>1, FingerprintTxAssumption DEF Typed, Calls, Mutexes, Ends, Idle, InEnd
  <2>5. \A i \in 1..MaxAttempts : <<y, i>> \in released => worker[<<y, i>>].pc \in {"report", "done"}
      BY <1>4, <1>8 DEF AloneInv, Alone, Sole, Quits, Ceased, Ender
  <2>6. \A i \in 1..MaxAttempts : <<y, i>> = <<y, n>> => i = n
      OBVIOUS
  <2>7. ~isEnded'[y] /\ devState'[y] = "Verifying"
      BY <1>3 DEF Typed, FactorsTyped
  <2> QED
      BY <1>3, <1>5, <2>2, <2>3, <2>4, <2>5, <2>6, <2>7 DEF Alone, Sole, Quits, Ceased, Ender
<1> QED
    BY <1>3, <1>4, <1>6, <1>7, <1>8 DEF AloneInv

(* An attempt that is under way is the last one of its factor, unless the  *)
(* attempts overlapped; only it closes release.                            *)
LEMMA WorkAlone == ASSUME Typed, AloneInv, NEW w \in Attempts, Work(w) PROVE AloneInv'
<1>1. PICK y \in Txs, n \in 1..MaxAttempts : w = <<y, n>>
    BY AttemptsAre
<1>2. /\ UNCHANGED <<tries, isEnded, endedMu, call, quit, overlapped>>
      /\ worker[w].pc \notin {"new", "done"} /\ worker'[w].pc # "new"
      /\ \A v \in Attempts : v # w => worker'[v] = worker[v]
      /\ worker[w].pc = "report" => worker'[w].pc = "done"
      /\ worker[w].pc # "report" => devState' = devState
      /\ devState' \in {devState, [devState EXCEPT ![y] = "Ended"]}
    BY <1>1 DEF Work, verify, leaveLoop, stopVerify, unclaim, releaseWaiters, report, Worker,
                txVars, history, Typed, AttemptsTyped
<1>3. /\ \A x \in Txs, i \in 1..MaxAttempts :
            <<x, i>> # <<y, n>> => worker'[<<x, i>>] = worker[<<x, i>>]
      /\ n <= tries[y] /\ tries[y] \in 1..MaxAttempts
    BY <1>1, <1>2, AttemptsAre DEF AloneInv, Tried
<1>4. y \notin overlapped => n = tries[y]
  <2>1. SUFFICES ASSUME y \notin overlapped PROVE n = tries[y]
      OBVIOUS
  <2>2. worker[w].pc # "done" /\ (n < tries[y] => worker[<<y, n>>].pc = "done")
      BY <1>2, <2>1 DEF AloneInv, Alone, Sole
  <2> QED
      BY <1>1, <1>3, <2>2
<1>5. /\ released' \in {released, released \cup {<<y, tries[y]>>}}
      /\ y \notin overlapped /\ released' # released => worker'[w].pc = "report"
      /\ panicked' # panicked => y \in overlapped
  <2>1. CASE releaseWaiters(w)
    <3>1. /\ worker[w].pc = "release" /\ worker'[w].pc = "report"
          /\ released' = released \cup {<<y, tries[y]>>}
          /\ panicked' = (panicked \/ <<y, tries[y]>> \in released)
        BY <1>1, <2>1 DEF releaseWaiters, Worker, Typed, AttemptsTyped
    <3>2. y \notin overlapped => <<y, tries[y]>> \notin released
        BY <1>1, <1>3, <1>4, <3>1 DEF AloneInv, Alone, Sole, Quits, Ceased, Ender
    <3> QED BY <3>1, <3>2 DEF Typed, AttemptsTyped
  <2>2. CASE ~releaseWaiters(w)
      BY <2>2 DEF Work, verify, leaveLoop, stopVerify, unclaim, report
  <2> QED BY <2>1, <2>2
<1>6. Tried'
  <2>1. ASSUME NEW x \in Txs, NEW i \in 1..MaxAttempts
        PROVE  worker'[<<x, i>>].pc = "new" <=> worker[<<x, i>>].pc = "new"
      BY <1>1, <1>2, <1>3
  <2>2. ASSUME NEW x \in Txs, NEW i \in 1..MaxAttempts, <<x, i>> \in released'
        PROVE  <<x, i>> \in released \/ (x = y /\ i = tries[y])
      BY <1>5, <2>2
  <2>3. ASSUME NEW x \in Txs, NEW i \in 1..MaxAttempts, <<x, i>> \in quit' \cup released'
        PROVE  i <= tries[x]
    <3>1. <<x, i>> \in quit \cup released \/ (x = y /\ i = tries[y])
        BY <1>2, <2>2, <2>3
    <3> QED
        BY <3>1, AttemptsAre DEF AloneInv, Tried
  <2> QED
      BY <1>2, <2>1, <2>3 DEF AloneInv, Tried
<1>7. ASSUME NEW x \in Txs \ overlapped, x # y PROVE Alone(x)'
  <2>1. Alone(x)
      BY DEF AloneInv
  <2>2. Over(x)' <=> Over(x)
      BY <1>2, <1>3, <1>7, AttemptsAre DEF Over
  <2>3. devState'[x] = devState[x]
      BY <1>2, <1>7 DEF Typed, FactorsTyped
  <2>4. \A i \in 1..MaxAttempts : <<x, i>> \in released' => <<x, i>> \in released
      BY <1>5, <1>7
  <2> QED
      BY <1>2, <1>3, <1>7, <2>1, <2>2, <2>3, <2>4 DEF Alone, Sole, Quits, Ceased, Ender, Ends
<1>8. ASSUME y \notin overlapped PROVE Alone(y)'
  <2>1. Alone(y) /\ n = tries[y]
      BY <1>4, <1>8 DEF AloneInv
  <2>2. Over(y) => Over(y)'
    <3>1. worker[w].pc = "report" => worker'[w].pc = "done"
        BY <1>2
    <3> QED
        BY <1>1, <1>2, <1>3, <2>1, <3>1 DEF Over
  <2>3. devState'[y] # devState[y] => Over(y)'
      BY <1>1, <1>2, <2>1 DEF Over
  <2>4. <<y, n>> \in released' => worker'[<<y, n>>].pc \in {"report", "done"}
    <3>1. CASE <<y, n>> \in released
        BY <1>1, <1>2, <2>1, <3>1 DEF Alone, Sole, Quits, Ceased, Ender
    <3>2. CASE <<y, n>> \notin released
        BY <1>1, <1>5, <1>8, <3>2
    <3> QED BY <3>1, <3>2
  <2>5. \A i \in 1..MaxAttempts : i # n => (<<y, i>> \in released' <=> <<y, i>> \in released)
                                           /\ worker'[<<y, i>>] = worker[<<y, i>>]
      BY <1>3, <1>5, <2>1
  <2> QED
      BY <1>2, <2>1, <2>2, <2>3, <2>4, <2>5 DEF Alone, Sole, Quits, Ceased, Ender, Ends
<1> QED
    BY <1>2, <1>5, <1>6, <1>7, <1>8 DEF AloneInv

(* Every step keeps it.                                                    *)
LEMMA AloneStep == Typed /\ AloneInv /\ [Next]_vars => AloneInv'
<1> SUFFICES ASSUME Typed, AloneInv, [Next]_vars PROVE AloneInv'
    OBVIOUS
<1>1. ASSUME NEW c \in Goroutines, Begin(c) PROVE AloneInv'
    BY <1>1, OtherAlone
<1>2. ASSUME NEW c \in Goroutines, Step(c) PROVE AloneInv'
    BY <1>2, OtherAlone, EndAlone, EndsAlone, StartAlone DEF Step
<1>3. ASSUME NEW w \in Attempts, Work(w) PROVE AloneInv'
    BY <1>3, WorkAlone
<1>4. CASE UNCHANGED vars
    BY <1>4 DEF AloneInv, Tried, Alone, Sole, Quits, Ceased, Ender, Over, Ends, vars, txVars, workVars, history
<1> QED
    BY <1>1, <1>2, <1>3, <1>4 DEF Next

(* The types and the invariant hold always.                                *)
LEMMA AlwaysAlone == Spec => [](Typed /\ AloneInv)
    BY TypedInit, TypedStep, AloneInit, AloneStep, PTL DEF Spec

(* A channel is closed twice only when the attempts of a factor overlapped, *)
(* whoever ends them at once: calls, timers, other factors or the TTY      *)
(* watcher (fingerprint_tx.go).                                            *)
THEOREM ChannelsClosedOnce == Spec => []NoDoubleClose
<1>1. AloneInv => NoDoubleClose
    BY DEF AloneInv, NoDoubleClose
<1> QED
    BY <1>1, AlwaysAlone, PTL

(* The attempt that uses the device is one that is not over.               *)
LEMMA UsesNotOver ==
    ASSUME Typed, AloneInv, NEW x \in Txs \ overlapped, x \in UsedBy
    PROVE  ~Over(x) /\ worker[<<x, tries[x]>>].pc \in {"loop", "stop"}
<1>1. PICK i \in 1..MaxAttempts : worker[<<x, i>>].pc \in {"loop", "stop"}
    BY DEF UsedBy, Using
<1>2. i = tries[x]
  <2>1. Tried /\ Sole(x) /\ tries[x] \in Nat
      BY AttemptsAre DEF AloneInv, Alone
  <2> QED
      BY <1>1, <2>1 DEF Tried, Sole
<1> QED
    BY <1>1, <1>2 DEF Over

(* A factor that was ended and not started again does not verify, unless   *)
(* its attempts overlapped: however often it is started and ended, by      *)
(* however many calls at once (fingerprint_tx.go).                         *)
THEOREM EndedIsQuiet == Spec => []EndStopsVerify
<1>1. Typed /\ AloneInv => EndStopsVerify
  <2> SUFFICES ASSUME Typed, AloneInv, NEW x \in Txs \ overlapped, isEnded[x], x \in UsedBy
               PROVE  FALSE
      BY DEF EndStopsVerify
  <2> QED
      BY UsesNotOver DEF AloneInv, Alone, Sole, Quits, Ceased, Ender
<1> QED
    BY <1>1, AlwaysAlone, PTL

-----------------------------------------------------------------------------
(* A factor that was started and is not ended, and one whose attempt may   *)
(* have the device.                                                        *)
Live(x) == tries[x] > 0 /\ ~isEnded[x]
Has(x) == tries[x] > 0 /\ worker[<<x, tries[x]>>].pc \in {"verify", "loop", "stop", "unclaim"}

(* Who holds claimedMu has ended every factor but itself, or is ending the *)
(* last one; who has just claimed the device has it.                       *)
Good(k) ==
    /\ Claims(k) => \A x \in Txs : Live(x) => IF k.pc \in {"end"} \cup InEnd THEN x = k.ending
                                              ELSE k.op = "Start" /\ x = k.tx
    /\ k.pc = "start" => claimed = k.tx /\ user = k.tx /\ ~Has(k.tx)

(* The service has the device claimed for the factor that uses it or is    *)
(* about to.                                                               *)
UserInv ==
    \A x \in Txs : /\ Has(x) => user = x
                   /\ user = x => \/ Has(x)
                                  \/ \E c \in Goroutines : call[c].pc = "start" /\ call[c].tx = x

Lent ==
    /\ \A x \in Txs : Live(x) => claimed = x
    /\ \A c \in Goroutines : Good(call[c])
    /\ UserInv

LeaseInv == Orderly => Lent

(* The invariant holds before the first call.                              *)
LEMMA LeaseInit == Init => LeaseInv
<1> SUFFICES ASSUME Init PROVE Lent
    BY DEF LeaseInv
<1>1. \A x \in Txs : ~Live(x) /\ ~Has(x) /\ user # x
    BY FingerprintTxAssumption DEF Init, Live, Has
<1>2. \A c \in Goroutines : Good(call[c])
    BY DEF Init, Good, Idle, Claims, Claimers
<1> QED
    BY <1>1, <1>2 DEF Lent, UserInv

(* An attempt that may have the device is the last one, of a live factor.  *)
LEMMA HasIs ==
    ASSUME Typed, AloneInv, Orderly, NEW x \in Txs
    PROVE  /\ Has(x) => Live(x)
           /\ \A i \in 1..MaxAttempts : 
                 /\ worker[<<x, i>>].pc \notin {"new", "done"} => i = tries[x] /\ tries[x] > 0
                 /\ worker[<<x, i>>].pc \in {"verify", "loop", "stop", "unclaim"} => Has(x)
<1>1. Tried /\ Sole(x) /\ Ceased(x)
    BY DEF Orderly, AloneInv, Alone
<1>2. Has(x) => Live(x)
    BY <1>1 DEF Has, Live, Ceased, Over
<1>3. ASSUME NEW i \in 1..MaxAttempts, worker[<<x, i>>].pc \notin {"new", "done"}
      PROVE  i = tries[x] /\ tries[x] > 0
  <2>1. i <= tries[x] /\ ~(i < tries[x])
      BY <1>1, <1>3, AttemptsAre DEF Tried, Sole
  <2> QED
      BY <2>1, AttemptsAre
<1> QED
    BY <1>2, <1>3 DEF Has

(* Only one call claims.                                                   *)
LEMMA OneClaims ==
    ASSUME Typed, NEW c \in Goroutines, Claims(call[c]), NEW d \in Goroutines, d # c
    PROVE  ~Claims(call[d]) /\ call[d].pc # "start"
<1>1. ~Claims(call[d])
    BY DEF Typed, Mutexes
<1> QED
    BY <1>1, CallIs DEF Claims, Claimers, Shape

(* A step of a call that leaves the factors and the claim alone.           *)
LEMMA LentKept ==
    ASSUME Lent, NEW c \in Goroutines,
           UNCHANGED <<tries, isEnded, worker, claimed, user>>,
           \A d \in Goroutines : d # c => call'[d] = call[d],
           call[c].pc # "start", Good(call[c])'
    PROVE  Lent'
<1>1. \A x \in Txs : (Live(x)' <=> Live(x)) /\ (Has(x)' <=> Has(x))
    BY DEF Live, Has
<1>2. ASSUME NEW d \in Goroutines, d # c PROVE Good(call[d])'
  <2>1. call'[d] = call[d] /\ Good(call[d])
      BY <1>2 DEF Lent
  <2> QED
      BY <1>1, <2>1 DEF Good, Claims, Has
<1>3. UserInv'
    BY <1>1 DEF Lent, UserInv
<1> QED
    BY <1>1, <1>2, <1>3 DEF Lent

(* A call that does not claim promises nothing.                            *)
LEMMA IdlyGood ==
    ASSUME NEW c \in Goroutines, ~Claims(call'[c]), call'[c].pc # "start" PROVE Good(call[c])'
    BY DEF Good, Claims

(* What follows end: the factor is ended, and so are all others.           *)
LEMMA EndedMoves ==
    ASSUME Typed, NEW c \in Goroutines, Ended(c), call[c].pc \in {"end"} \cup InEnd
    PROVE  \/ ~Claims(call'[c]) /\ call'[c].pc # "start"
           \/ /\ call'[c].pc = "claim" /\ call'[c].op = call[c].op /\ call'[c].tx = call[c].tx
              /\ Claims(call[c])
<1>1. call[c] \in Call
    BY CallIs
<1> QED
    BY <1>1 DEF Ended, Goto, Return, Idle, Typed, Calls, Call, Claims, Claimers, InEnd

(* A call that begins, waits for claimedMu, or sets a lock.                *)
LEMMA LockLent ==
    ASSUME Typed, Lent, NEW c \in Goroutines,
           Begin(c) \/ lockClaimed(c) \/ giveLock(c) \/ checkState(c) \/ setLock(c)
    PROVE  Lent'
<1>1. UNCHANGED <<tries, isEnded, worker, claimed, user>>
    BY DEF Begin, lockClaimed, giveLock, checkState, setLock, txVars, claimVars, workVars
<1>2. \A d \in Goroutines : d # c => call'[d] = call[d]
    BY OthersStay DEF Step
<1>3. call[c] \in Call /\ Shape(call[c])
    BY CallIs
<1>4. call[c].pc # "start"
    BY DEF Begin, lockClaimed, giveLock, checkState, setLock, At
<1>5. CASE Begin(c)
  <2>1. PICK op \in Methods, x \in Txs : call'[c].op = op /\ call'[c].pc = FirstStep(op)
      BY <1>5 DEF Begin, Typed, Calls
  <2>2. FirstStep(op) = "lockClaimed" \/ op \notin Claimers
      BY DEF FirstStep, Claimers
  <2>3. FirstStep(op) # "start"
      BY DEF FirstStep
  <2>4. Good(call[c])'
      BY <2>1, <2>2, <2>3, IdlyGood DEF Claims
  <2> QED
      BY <1>1, <1>2, <1>4, <2>4, LentKept
<1>6. CASE giveLock(c) \/ checkState(c) \/ setLock(c)
  <2>1. call[c].op \in Lockers
      BY <1>3, <1>6 DEF giveLock, checkState, setLock, At, Shape, InLock
  <2>2. call'[c].op \in Lockers \cup {"none"} /\ call'[c].pc # "start"
      BY <1>3, <1>6, <2>1 DEF giveLock, checkState, setLock, Goto, Return, Idle, Typed, Calls, Call
  <2>3. Good(call[c])'
      BY <2>2, IdlyGood DEF Claims, Claimers, Lockers
  <2> QED
      BY <1>1, <1>2, <1>4, <2>3, LentKept
<1>7. CASE lockClaimed(c)
  <2>1. /\ call'[c].op = call[c].op /\ call'[c].tx = call[c].tx
        /\ \/ call'[c].pc = "end" /\ call'[c].ending = claimed
           \/ /\ call'[c].pc = "claim"
              /\ claimed = None \/ (call[c].op = "Start" /\ claimed = call[c].tx)
      BY <1>3, <1>7 DEF lockClaimed, Goto, GotoEnd, Typed, Calls, Call
  <2>2. \A x \in Txs : Live(x) => x = claimed
      BY DEF Lent
  <2>3. \A x \in Txs : Live(x)' <=> Live(x)
      BY <1>1 DEF Live
  <2>4. Good(call[c])'
      BY <2>1, <2>2, <2>3, FingerprintTxAssumption DEF Good, InEnd
  <2> QED
      BY <1>1, <1>2, <1>4, <2>4, LentKept
<1> QED
    BY <1>5, <1>6, <1>7

(* end until the factor is marked: whoever claims ends the only live one.  *)
LEMMA EndLent ==
    ASSUME Typed, Lent, NEW c \in Goroutines, end(c) \/ waitRelease(c) \/ giveEnd(c)
    PROVE  Lent'
<1>1. UNCHANGED <<tries, isEnded, worker, claimed, user>>
    BY DEF end, waitRelease, giveEnd, txVars, claimVars, workVars
<1>2. \A d \in Goroutines : d # c => call'[d] = call[d]
    BY OthersStay DEF Step
<1>3. /\ call[c] \in Call /\ call[c].pc \in {"end"} \cup InEnd /\ call[c].pc # "start"
      /\ Good(call[c])
    BY CallIs DEF end, waitRelease, giveEnd, At, InEnd, Lent
<1>4. \A x \in Txs : Live(x)' <=> Live(x)
    BY <1>1 DEF Live
<1>5. CASE end(c) /\ isEnded[call[c].ending]
  <2>1. Ended(c)
      BY <1>5 DEF end
  <2>2. CASE ~Claims(call'[c]) /\ call'[c].pc # "start"
      BY <1>1, <1>2, <1>3, <2>2, IdlyGood, LentKept
  <2>3. CASE /\ call'[c].pc = "claim" /\ call'[c].op = call[c].op /\ call'[c].tx = call[c].tx
             /\ Claims(call[c])
    <3>1. \A x \in Txs : ~Live(x)
        BY <1>3, <1>5, <2>3 DEF Good, Live
    <3>2. Good(call[c])'
        BY <1>4, <2>3, <3>1 DEF Good
    <3> QED
        BY <1>1, <1>2, <1>3, <3>2, LentKept
  <2> QED
      BY <1>3, <2>1, <2>2, <2>3, EndedMoves
<1>6. CASE ~(end(c) /\ isEnded[call[c].ending])
  <2>1. /\ call'[c].op = call[c].op /\ call'[c].ending = call[c].ending
        /\ call'[c].pc \in InEnd
      BY <1>3, <1>6 DEF end, waitRelease, giveEnd, Goto, InEnd, Typed, Calls, Call
  <2>2. Claims(call'[c]) => Claims(call[c])
      BY <1>3, <2>1 DEF Claims, InEnd
  <2>3. Good(call[c])'
      BY <1>3, <1>4, <2>1, <2>2 DEF Good, InEnd, Claims
  <2> QED
      BY <1>1, <1>2, <1>3, <2>3, LentKept
<1> QED
    BY <1>5, <1>6

(* The factor is no longer live; only its own claim is forgotten.          *)
LEMMA MarkEndLent ==
    ASSUME Typed, Lent, Orderly', NEW c \in Goroutines, markEnd(c) PROVE Lent'
<1>1. PICK e \in Txs : e = call[c].ending
    BY CallIs DEF markEnd, At, Shape, InEnd
<1>2. /\ UNCHANGED <<tries, worker, user>> /\ isEnded' = [isEnded EXCEPT ![e] = TRUE]
      /\ call[c].pc = "markEnd" /\ call[c] \in Call /\ Ended(c) /\ Good(call[c])
    BY <1>1, CallIs DEF markEnd, At, Lent
<1>3. \A d \in Goroutines : d # c => call'[d] = call[d]
    BY OthersStay DEF Step
<1>4. \A x \in Txs : (Live(x)' <=> Live(x) /\ x # e) /\ (Has(x)' <=> Has(x))
    BY <1>2 DEF Live, Has, Typed, FactorsTyped
<1>5. \/ claimed' = claimed
      \/ claimed \in {None, e} /\ \A d \in Goroutines : call[d].pc # "start"
    BY <1>1 DEF markEnd, Orderly, OwnClaim, At
<1>6. \A x \in Txs : Live(x)' => claimed' = x
    BY <1>4, <1>5, FingerprintTxAssumption DEF Lent
<1>7. ASSUME NEW d \in Goroutines, d # c PROVE Good(call[d])'
  <2>1. call'[d] = call[d] /\ Good(call[d])
      BY <1>3, <1>7 DEF Lent
  <2>2. call[d].pc = "start" => claimed' = claimed
      BY <1>5
  <2> QED
      BY <1>2, <1>4, <2>1, <2>2 DEF Good, Claims, Has
<1>8. Good(call[c])'
  <2>1. CASE ~Claims(call'[c]) /\ call'[c].pc # "start"
      BY <2>1, IdlyGood
  <2>2. CASE call'[c].pc = "claim" /\ Claims(call[c])
      BY <1>1, <1>2, <1>4, <2>2 DEF Good, InEnd
  <2> QED
      BY <1>2, <2>1, <2>2, EndedMoves DEF InEnd
<1>9. UserInv'
    BY <1>2, <1>3, <1>4 DEF Lent, UserInv
<1> QED
    BY <1>6, <1>7, <1>8, <1>9 DEF Lent

(* Who holds claimedMu and has ended the others finds no live factor but   *)
(* its own, and nobody else who has just claimed.                          *)
LEMMA ClaimLive ==
    ASSUME Typed, AloneInv, Orderly, Lent, NEW c \in Goroutines,
           Claims(call[c]), call[c].pc \in {"claim", "start"}
    PROVE  /\ \A x \in Txs : Live(x) => call[c].op = "Start" /\ x = call[c].tx
           /\ \A x \in Txs : Has(x) => call[c].op = "Start" /\ x = call[c].tx
           /\ \A d \in Goroutines : d # c => ~Claims(call[d]) /\ call[d].pc # "start"
<1>1. \A x \in Txs : Live(x) => call[c].op = "Start" /\ x = call[c].tx
    BY DEF Lent, Good, InEnd
<1> QED
    BY <1>1, HasIs, OneClaims

(* The TTY watcher has ended the factor in claimed.                        *)
LEMMA CancelledLent ==
    ASSUME Typed, AloneInv, Orderly, Lent, NEW c \in Goroutines, cancelled(c) PROVE Lent'
<1>1. /\ UNCHANGED <<tries, isEnded, worker, user>> /\ call[c].op = "TTYChanged"
      /\ call[c].pc = "claim" /\ Claims(call[c]) /\ call'[c] = Idle
    BY DEF cancelled, At, txVars, workVars, Claims, Claimers, Return, Typed, Calls
<1>2. \A d \in Goroutines : d # c => call'[d] = call[d]
    BY OthersStay DEF Step
<1>3. \A x \in Txs : ~Live(x) /\ (Live(x)' <=> Live(x)) /\ (Has(x)' <=> Has(x))
    BY <1>1, ClaimLive DEF Live, Has
<1>4. ASSUME NEW d \in Goroutines PROVE ~Claims(call'[d]) /\ call'[d].pc # "start"
    BY <1>1, <1>2, ClaimLive DEF Idle, Claims, Claimers
<1>5. \A d \in Goroutines : Good(call[d])'
    BY <1>4, IdlyGood
<1>6. UserInv'
    BY <1>1, <1>2, <1>3 DEF Lent, UserInv
<1> QED
    BY <1>3, <1>5, <1>6 DEF Lent

(* The device is free when it is claimed, unless an attempt of the factor  *)
(* is still under way.                                                     *)
LEMMA ClaimFree ==
    ASSUME Typed, AloneInv, Orderly, Orderly', Lent, NEW c \in Goroutines, claim(c)
    PROVE  user = None /\ call[c].tx \in Txs /\ \A x \in Txs : ~Has(x)
<1>1. call[c].op = "Start" /\ call[c].pc = "claim" /\ Claims(call[c]) /\ call[c].tx \in Txs
    BY CallIs DEF claim, At, Claims, Claimers, Shape
<1>2. ~UnderWay(call[c].tx)
    BY DEF claim, Overlaps, Orderly
<1>3. ~Has(call[c].tx)
    BY <1>1, <1>2, AttemptsAre DEF Has, UnderWay
<1>4. \A x \in Txs : ~Has(x)
    BY <1>1, <1>3, ClaimLive
<1>5. \A x \in Txs : user # x
    BY <1>1, <1>4, ClaimLive DEF Lent, UserInv
<1> QED
    BY <1>1, <1>4, <1>5 DEF Typed, FactorsTyped

(* A claim, made or refused.                                               *)
LEMMA ClaimLent ==
    ASSUME Typed, AloneInv, Orderly, Orderly', Lent, NEW c \in Goroutines, claim(c) PROVE Lent'
<1>1. PICK t \in Txs : t = call[c].tx
    BY ClaimFree
<1>2. /\ UNCHANGED <<tries, isEnded, worker>> /\ claimed' = t /\ call[c].op = "Start"
      /\ call[c].pc = "claim" /\ Claims(call[c]) /\ call[c] \in Call
    BY <1>1, CallIs DEF claim, At, txVars, workVars, Claims, Claimers
<1>3. \A d \in Goroutines : d # c => call'[d] = call[d]
    BY OthersStay DEF Step
<1>4. \/ user' = t /\ call'[c].pc = "start" /\ call'[c].tx = t /\ call'[c].op = "Start"
      \/ user' = None /\ call'[c] = Idle
    BY <1>1, <1>2, ClaimFree DEF claim, Goto, Return, Typed, Calls, Call
<1>5. \A x \in Txs : (Live(x)' <=> Live(x)) /\ (Has(x)' <=> Has(x)) /\ ~Has(x) /\ (Live(x) => x = t)
    BY <1>1, <1>2, ClaimFree, ClaimLive DEF Live, Has
<1>6. ASSUME NEW d \in Goroutines, d # c PROVE Good(call[d])' /\ call'[d].pc # "start"
    BY <1>2, <1>3, <1>6, ClaimLive, IdlyGood
<1>7. Good(call[c])'
  <2>1. CASE call'[c] = Idle
      BY <2>1, IdlyGood DEF Idle, Claims, Claimers
  <2>2. CASE user' = t /\ call'[c].pc = "start" /\ call'[c].tx = t /\ call'[c].op = "Start"
    <3>1. ~Has(t)' /\ \A x \in Txs : Live(x)' => x = t
        BY <1>5
    <3> QED
        BY <1>2, <2>2, <3>1 DEF Good, InEnd, Has
  <2> QED
      BY <1>4, <2>1, <2>2
<1>8. UserInv'
    BY <1>4, <1>5, FingerprintTxAssumption DEF UserInv
<1> QED
    BY <1>2, <1>5, <1>6, <1>7, <1>8 DEF Lent

(* What a start changes, by the attempt that it makes.                     *)
LEMMA StartIs ==
    ASSUME Typed, Tried, NEW c \in Goroutines, start(c)
    PROVE  \E y \in Txs, n \in 1..MaxAttempts :
              /\ y = call[c].tx /\ n = tries[y] + 1
              /\ tries' = [tries EXCEPT ![y] = n] /\ tries'[y] = n
              /\ worker[<<y, n>>].pc = "new" /\ worker'[<<y, n>>].pc = "verify"
              /\ \A x \in Txs, i \in 1..MaxAttempts :
                    <<x, i>> # <<y, n>> => worker'[<<x, i>>] = worker[<<x, i>>]
              /\ isEnded' = [isEnded EXCEPT ![y] = FALSE]
<1>1. PICK y \in Txs : y = call[c].tx
    BY CallIs DEF start, At, Shape
<1>2. PICK n \in 1..MaxAttempts : n = tries[y] + 1
  <2>1. tries[y] \in Nat /\ tries[y] < MaxAttempts /\ MaxAttempts \in Nat
      BY <1>1, AttemptsAre, FingerprintTxAssumption DEF start
  <2> QED BY <2>1
<1>3. /\ tries' = [tries EXCEPT ![y] = n] /\ worker' = [worker EXCEPT ![<<y, n>>].pc = "verify"]
      /\ isEnded' = [isEnded EXCEPT ![y] = FALSE]
  <2>1. tries' = [tries EXCEPT ![y] = tries[y] + 1]
      BY <1>1 DEF start
  <2> QED
      BY <1>1, <1>2, <2>1 DEF start
<1>4. tries'[y] = n /\ n > tries[y]
    BY <1>2, <1>3, AttemptsAre DEF Typed, FactorsTyped
<1>5. worker[<<y, n>>].pc = "new"
    BY <1>4 DEF Tried
<1>6. \A x \in Txs, i \in 1..MaxAttempts : <<x, i>> \in Attempts
    BY AttemptsAre
<1>7. /\ worker'[<<y, n>>].pc = "verify"
      /\ \A x \in Txs, i \in 1..MaxAttempts :
            <<x, i>> # <<y, n>> => worker'[<<x, i>>] = worker[<<x, i>>]
    BY <1>3, <1>6 DEF Typed, AttemptsTyped
<1> QED
    BY <1>1, <1>2, <1>3, <1>4, <1>5, <1>7

(* The factor that starts is the only live one, and has the device.        *)
LEMMA StartLent ==
    ASSUME Typed, AloneInv, Orderly, Lent, NEW c \in Goroutines, start(c) PROVE Lent'
<1>1. PICK y \in Txs, n \in 1..MaxAttempts :
          /\ y = call[c].tx /\ n = tries[y] + 1
          /\ tries' = [tries EXCEPT ![y] = n] /\ tries'[y] = n
          /\ worker[<<y, n>>].pc = "new" /\ worker'[<<y, n>>].pc = "verify"
          /\ \A x \in Txs, i \in 1..MaxAttempts :
                <<x, i>> # <<y, n>> => worker'[<<x, i>>] = worker[<<x, i>>]
          /\ isEnded' = [isEnded EXCEPT ![y] = FALSE]
    BY StartIs DEF AloneInv
<1>2. /\ UNCHANGED <<claimed, user>> /\ call'[c] = Idle /\ call[c].pc = "start"
      /\ Claims(call[c]) /\ \A d \in Goroutines : d # c => call'[d] = call[d]
    BY CallIs, OthersStay DEF start, At, Return, Shape, InClaim, Claims, Typed, Calls, Step
<1>3. claimed = y /\ user = y
    BY <1>1, <1>2 DEF Lent, Good
<1>4. \A x \in Txs : Live(x)' => x = y
  <2>1. \A x \in Txs : x # y => (Live(x)' <=> Live(x))
      BY <1>1 DEF Live, Typed, FactorsTyped
  <2> QED
      BY <1>1, <1>2, <2>1, ClaimLive
<1>5. \A x \in Txs : Has(x)' <=> x = y
  <2>1. Has(y)'
      BY <1>1 DEF Has
  <2>2. \A x \in Txs : x # y => (Has(x)' <=> Has(x))
      BY <1>1, AttemptsAre DEF Has, Typed, FactorsTyped
  <2> QED
      BY <1>1, <1>2, <2>1, <2>2, ClaimLive
<1>6. \A d \in Goroutines : ~Claims(call'[d]) /\ call'[d].pc # "start"
    BY <1>2, ClaimLive DEF Idle, Claims, Claimers
<1>7. \A d \in Goroutines : Good(call[d])'
    BY <1>6, IdlyGood
<1>8. UserInv'
    BY <1>2, <1>3, <1>5 DEF UserInv
<1> QED
    BY <1>2, <1>3, <1>4, <1>7, <1>8 DEF Lent

(* What an attempt does: it has the device until it gives it back.         *)
LEMMA WorkIs ==
    ASSUME Typed, AloneInv, Orderly, Lent, NEW w \in Attempts, Work(w)
    PROVE  \E y \in Txs, n \in 1..MaxAttempts :
              /\ w = <<y, n>> /\ n = tries[y] /\ tries[y] > 0
              /\ UNCHANGED <<tries, isEnded, claimed, call>>
              /\ \A x \in Txs, i \in 1..MaxAttempts :
                    <<x, i>> # <<y, n>> => worker'[<<x, i>>] = worker[<<x, i>>]
              /\ \/ /\ worker[w].pc \in {"verify", "loop", "stop"} /\ user' = user
                    /\ worker'[w].pc \in {"loop", "stop", "unclaim"}
                    /\ worker[w].pc = "loop" => worker'[w].pc = "stop"
                    /\ worker[w].pc = "stop" => worker'[w].pc = "unclaim"
                    /\ worker[w].pc = "verify" => worker'[w].pc \in {"loop", "unclaim"}
                 \/ worker[w].pc = "unclaim" /\ worker'[w].pc = "release" /\ user' = None
                 \/ /\ worker[w].pc \in {"release", "report"} /\ user' = user
                    /\ worker'[w].pc \in {"report", "done"}
<1>1. PICK y \in Txs, n \in 1..MaxAttempts : w = <<y, n>>
    BY AttemptsAre
<1>2. worker[w].pc \notin {"new", "done"} /\ UNCHANGED <<tries, isEnded, claimed, call>>
    BY DEF Work, verify, leaveLoop, stopVerify, unclaim, releaseWaiters, report, txVars, claimVars
<1>3. n = tries[y] /\ tries[y] > 0
    BY <1>1, <1>2, HasIs
<1>4. \A v \in Attempts : v # w => worker'[v] = worker[v]
    BY DEF Work, verify, leaveLoop, stopVerify, unclaim, releaseWaiters, report, Worker,
           Typed, AttemptsTyped
<1>5. \A x \in Txs, i \in 1..MaxAttempts :
          <<x, i>> # <<y, n>> => worker'[<<x, i>>] = worker[<<x, i>>]
    BY <1>1, <1>4, AttemptsAre
<1>6. \/ /\ worker[w].pc \in {"verify", "loop", "stop"} /\ user' = user
         /\ worker'[w].pc \in {"loop", "stop", "unclaim"}
         /\ worker[w].pc = "loop" => worker'[w].pc = "stop"
         /\ worker[w].pc = "stop" => worker'[w].pc = "unclaim"
         /\ worker[w].pc = "verify" => worker'[w].pc \in {"loop", "unclaim"}
      \/ worker[w].pc = "unclaim" /\ worker'[w].pc = "release" /\ user' = None
      \/ /\ worker[w].pc \in {"release", "report"} /\ user' = user
         /\ worker'[w].pc \in {"report", "done"}
    BY DEF Work, verify, leaveLoop, stopVerify, unclaim, releaseWaiters, report, Worker,
           Typed, AttemptsTyped
<1> QED
    BY <1>1, <1>2, <1>3, <1>5, <1>6

(* Steps of an attempt that leave it with the device, and give it back.    *)
LEMMA WorkLent ==
    ASSUME Typed, AloneInv, Orderly, Lent, NEW w \in Attempts, Work(w) PROVE Lent'
<1>1. PICK y \in Txs, n \in 1..MaxAttempts :
          /\ w = <<y, n>> /\ n = tries[y] /\ tries[y] > 0
          /\ UNCHANGED <<tries, isEnded, claimed, call>>
          /\ \A x \in Txs, i \in 1..MaxAttempts :
                <<x, i>> # <<y, n>> => worker'[<<x, i>>] = worker[<<x, i>>]
          /\ \/ /\ worker[w].pc \in {"verify", "loop", "stop"} /\ user' = user
                /\ worker'[w].pc \in {"loop", "stop", "unclaim"}
             \/ worker[w].pc = "unclaim" /\ worker'[w].pc = "release" /\ user' = None
             \/ /\ worker[w].pc \in {"release", "report"} /\ user' = user
                /\ worker'[w].pc \in {"report", "done"}
    BY WorkIs
<1>2. \A x \in Txs : /\ Live(x)' <=> Live(x)
                     /\ x # y => (Has(x)' <=> Has(x))
    BY <1>1, AttemptsAre DEF Live, Has
<1>3. /\ Has(y) <=> worker[w].pc \in {"verify", "loop", "stop", "unclaim"}
      /\ Has(y)' <=> worker'[w].pc \in {"verify", "loop", "stop", "unclaim"}
    BY <1>1 DEF Has
<1>4. Has(y) => user = y
    BY DEF Lent, UserInv
<1>5. ASSUME NEW d \in Goroutines PROVE Good(call[d])'
  <2>1. call'[d] = call[d] /\ Good(call[d]) /\ call[d] \in Call /\ Shape(call[d])
      BY <1>1, CallIs DEF Lent
  <2>2. call[d].pc = "start" => user' = user /\ ~Has(call[d].tx)' /\ claimed' = claimed
    <3> SUFFICES ASSUME call[d].pc = "start" PROVE user' = user /\ ~Has(call[d].tx)'
        BY <1>1
    <3>1. Claims(call[d]) /\ call[d].tx \in Txs /\ ~Has(call[d].tx)
        BY <2>1 DEF Claims, Claimers, Shape, Good, InClaim
    <3>2. ~Has(y)
        BY <3>1, ClaimLive
    <3> QED
        BY <1>1, <1>2, <1>3, <3>1, <3>2
  <2> QED
      BY <1>2, <2>1, <2>2 DEF Good, Claims, Has
<1>6. UserInv'
  <2>1. CASE worker[w].pc = "unclaim"
    <3>1. Has(y) /\ ~Has(y)' /\ user' = None /\ user = y
        BY <1>1, <1>3, <1>4, <2>1
    <3>2. \A x \in Txs : x # y => ~Has(x)
        BY <3>1 DEF Lent, UserInv
    <3> QED
        BY <1>2, <3>1, <3>2, FingerprintTxAssumption DEF UserInv
  <2>2. CASE worker[w].pc # "unclaim"
    <3>1. user' = user /\ \A x \in Txs : Has(x)' <=> Has(x)
        BY <1>1, <1>2, <1>3, <2>2
    <3> QED
        BY <1>1, <3>1 DEF Lent, UserInv
  <2> QED
      BY <2>1, <2>2
<1>7. \A x \in Txs : Live(x)' => claimed' = x
    BY <1>1, <1>2 DEF Lent
<1> QED
    BY <1>5, <1>6, <1>7 DEF Lent

(* Disorder is remembered.                                                 *)
LEMMA OrderlyBefore == ASSUME [Next]_vars, Orderly' PROVE Orderly
<1>1. \A c \in Goroutines : Begin(c) => overlapped \subseteq overlapped' /\ (forgotten => forgotten')
    BY DEF Begin, history
<1>2. ASSUME NEW c \in Goroutines, Step(c)
      PROVE  overlapped \subseteq overlapped' /\ (forgotten => forgotten')
  <2>1. CASE markEnd(c)
      BY <2>1 DEF markEnd
  <2>2. CASE claim(c) \/ start(c) \/ giveLock(c)
      BY <2>2 DEF claim, start, giveLock, Overlaps
  <2>3. CASE ~markEnd(c) /\ ~claim(c) /\ ~start(c) /\ ~giveLock(c)
    <3>1. UNCHANGED history
        BY <1>2, <2>3 DEF Step, lockClaimed, end, waitRelease, giveEnd, cancelled, checkState,
                          setLock
    <3> QED BY <3>1 DEF history
  <2> QED
      BY <2>1, <2>2, <2>3
<1>3. \A w \in Attempts : Work(w) => overlapped \subseteq overlapped' /\ (forgotten => forgotten')
    BY DEF Work, verify, leaveLoop, stopVerify, unclaim, releaseWaiters, report, history
<1> QED
    BY <1>1, <1>2, <1>3 DEF Next, vars, history, Orderly

(* Every step keeps the invariant.                                         *)
LEMMA LeaseStep == Typed /\ AloneInv /\ LeaseInv /\ [Next]_vars => LeaseInv'
<1> SUFFICES ASSUME Typed, AloneInv, LeaseInv, [Next]_vars, Orderly' PROVE Lent'
    BY DEF LeaseInv
<1>1. Orderly /\ Lent
    BY OrderlyBefore DEF LeaseInv
<1>2. ASSUME NEW c \in Goroutines, Begin(c) PROVE Lent'
    BY <1>1, <1>2, LockLent
<1>3. ASSUME NEW c \in Goroutines, Step(c) PROVE Lent'
    BY <1>1, <1>3, LockLent, EndLent, MarkEndLent, CancelledLent, ClaimLent, StartLent DEF Step
<1>4. ASSUME NEW w \in Attempts, Work(w) PROVE Lent'
    BY <1>1, <1>4, WorkLent
<1>5. CASE UNCHANGED vars
    BY <1>1, <1>5 DEF vars, txVars, claimVars, workVars, Lent, UserInv, Good, Live, Has, Claims
<1> QED
    BY <1>2, <1>3, <1>4, <1>5 DEF Next

(* The users of the device before and after a step of an attempt.          *)
LEMMA WorkUses ==
    ASSUME Typed, AloneInv, Orderly, Lent, NEW w \in Attempts, Work(w)
    PROVE  L!Next \/ UNCHANGED L!lease
<1>1. PICK y \in Txs, n \in 1..MaxAttempts :
          /\ w = <<y, n>> /\ n = tries[y] /\ tries[y] > 0
          /\ \A x \in Txs, i \in 1..MaxAttempts :
                <<x, i>> # <<y, n>> => worker'[<<x, i>>] = worker[<<x, i>>]
          /\ \/ /\ worker[w].pc \in {"verify", "loop", "stop"} /\ user' = user
                /\ worker[w].pc = "loop" => worker'[w].pc = "stop"
                /\ worker[w].pc = "stop" => worker'[w].pc = "unclaim"
                /\ worker[w].pc = "verify" => worker'[w].pc \in {"loop", "unclaim"}
             \/ worker[w].pc = "unclaim" /\ worker'[w].pc = "release" /\ user' = None
             \/ /\ worker[w].pc \in {"release", "report"} /\ user' = user
                /\ worker'[w].pc \in {"report", "done"}
    BY WorkIs
<1>2. \A x \in UsedBy : x = user /\ worker[<<x, tries[x]>>].pc \in {"loop", "stop"}
  <2> SUFFICES ASSUME NEW x \in Txs, NEW i \in 1..MaxAttempts,
                      worker[<<x, i>>].pc \in {"loop", "stop"}
               PROVE  x = user /\ worker[<<x, tries[x]>>].pc \in {"loop", "stop"}
      BY DEF UsedBy, Using
  <2>1. i = tries[x] /\ Has(x)
      BY HasIs
  <2> QED
      BY <2>1 DEF Lent, UserInv
<1>3. \A x \in Txs : x # y => (x \in UsedBy' <=> x \in UsedBy)
    BY <1>1 DEF UsedBy, Using
<1>4. /\ worker[w].pc \in {"loop", "stop"} => y \in UsedBy
      /\ y \in UsedBy => worker[w].pc \in {"loop", "stop"}
    BY <1>1, <1>2 DEF UsedBy, Using
<1>5. y \in UsedBy' <=> worker'[w].pc \in {"loop", "stop"}
  <2>1. \A i \in 1..MaxAttempts : i # n => worker'[<<y, i>>].pc \notin {"loop", "stop"}
      BY <1>1, HasIs
  <2> QED
      BY <1>1, <2>1 DEF UsedBy, Using
<1>6. UsedBy \subseteq Txs /\ UsedBy' \subseteq Txs
    BY DEF UsedBy
<1>7. worker[w].pc \in {"verify", "loop", "stop", "unclaim"} => user = y
    BY <1>1 DEF Lent, UserInv, Has
<1>8. CASE worker[w].pc = "verify"
  <2>1. UsedBy = {} /\ UsedBy' \in {{}, {y}}
      BY <1>2, <1>3, <1>4, <1>6, <1>7, <1>8
  <2> QED
      BY <1>1, <1>7, <1>8, <2>1 DEF L!Next, L!Use, L!lease
<1>9. CASE worker[w].pc = "loop"
  <2>1. UsedBy' = UsedBy
      BY <1>1, <1>3, <1>4, <1>5, <1>6, <1>9
  <2> QED
      BY <1>1, <1>9, <2>1 DEF L!lease
<1>10. CASE worker[w].pc = "stop"
  <2>1. UsedBy' = {}
      BY <1>1, <1>2, <1>3, <1>5, <1>6, <1>7, <1>10
  <2> QED
      BY <1>1, <1>10, <2>1 DEF L!Next, L!Stop
<1>11. CASE worker[w].pc = "unclaim"
  <2>1. UsedBy = {} /\ UsedBy' = {} /\ user' = None
      BY <1>1, <1>2, <1>3, <1>4, <1>5, <1>6, <1>7, <1>11
  <2> QED
      BY <2>1 DEF L!Next, L!Return
<1>12. CASE worker[w].pc \in {"release", "report"}
  <2>1. UsedBy' = UsedBy
      BY <1>1, <1>3, <1>4, <1>5, <1>6, <1>12
  <2> QED
      BY <1>1, <1>12, <2>1 DEF L!lease
<1> QED
    BY <1>1, <1>8, <1>9, <1>10, <1>11, <1>12

(* A step of a call.                                                       *)
LEMMA CallUses ==
    ASSUME Typed, AloneInv, Orderly, Orderly', Lent, NEW c \in Goroutines, Begin(c) \/ Step(c)
    PROVE  L!Next \/ UNCHANGED L!lease
<1>1. CASE worker' = worker /\ user' = user
    BY <1>1 DEF L!lease, UsedBy, Using
<1>2. CASE start(c)
  <2>1. PICK y \in Txs, n \in 1..MaxAttempts :
            /\ worker[<<y, n>>].pc = "new" /\ worker'[<<y, n>>].pc = "verify"
            /\ \A x \in Txs, i \in 1..MaxAttempts :
                  <<x, i>> # <<y, n>> => worker'[<<x, i>>] = worker[<<x, i>>]
      BY <1>2, StartIs DEF AloneInv
  <2>2. UsedBy' = UsedBy
    <3>1. \A x \in Txs, i \in 1..MaxAttempts : Using(<<x, i>>)' <=> Using(<<x, i>>)
        BY <2>1 DEF Using
    <3> QED
        BY <3>1 DEF UsedBy
  <2> QED
      BY <1>2, <2>2 DEF start, L!lease
<1>3. CASE claim(c)
  <2>1. user = None /\ call[c].tx \in Txs /\ UsedBy = {} /\ worker' = worker
      BY <1>3, ClaimFree, HasIs DEF claim, workVars, UsedBy, Using
  <2>2. UsedBy' = {}
      BY <2>1 DEF UsedBy, Using
  <2>3. user' = call[c].tx \/ user' = user
      BY <1>3, <2>1 DEF claim
  <2> QED
      BY <2>1, <2>2, <2>3 DEF L!Next, L!Acquire, L!lease
<1>4. CASE ~start(c) /\ ~claim(c)
    BY <1>1, <1>4
       DEF Begin, Step, lockClaimed, end, waitRelease, giveEnd, markEnd, cancelled, giveLock,
           checkState, setLock, workVars
<1> QED
    BY <1>2, <1>3, <1>4

(* The device is lent to one factor at a time, whatever calls, timers,     *)
(* locks and other factors do, until the attempts of a factor overlap or   *)
(* the claim of another factor is forgotten (fingerprint_tx.go).           *)
THEOREM DeviceIsLent == Spec => LentToOne
<1>1. Init => L!Init
  <2> SUFFICES ASSUME Init PROVE L!Init
      OBVIOUS
  <2>1. UsedBy = {}
      BY DEF Init, UsedBy, Using, Attempts
  <2> QED BY <2>1 DEF Init, L!Init
<1>2. Typed /\ AloneInv /\ LeaseInv /\ [Next]_vars
      => [Orderly' => L!Next \/ UNCHANGED L!lease]_vars
  <2> SUFFICES ASSUME Typed, AloneInv, LeaseInv, Next, Orderly'
               PROVE  L!Next \/ UNCHANGED L!lease
      OBVIOUS
  <2>1. Orderly /\ Lent
      BY OrderlyBefore DEF LeaseInv
  <2> QED
      BY <2>1, WorkUses, CallUses DEF Next
<1> QED
    BY <1>1, <1>2, TypedInit, TypedStep, AloneInit, AloneStep, LeaseInit, LeaseStep, PTL
       DEF Spec, LentToOne
=============================================================================
