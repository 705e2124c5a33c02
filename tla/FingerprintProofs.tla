------------------------- MODULE FingerprintProofs -------------------------
(***************************************************************************)
(* Proofs about Fingerprint: the types, with the mutexes (Typed), and what *)
(* the service and the daemon agree on about a device (AgreeInv).          *)
(***************************************************************************)
EXTENDS Fingerprint, SequenceTheorems, TLAPS

InSet == {"checkNew", "checkOld", "select"}
InMutex == {"claiming", "releasing"}
OfDevice == {"Claim", "Release", "Verify", "StopVerify"}

Call == [op : Methods \cup {"none"}, pc : Steps, sender : Senders \cup {None},
         user : Users \cup {None}, dev : Devices \cup {None}, releaser : Senders \cup {None}]

(* Where a call may be, by what it does.                                   *)
Shape(k) ==
    /\ k.op \in OfDevice => k.sender \in Senders
    /\ k.op = "Claim" => k.user \in Users
    /\ k.pc # "idle" => k.op # "none"
    /\ k.pc \notin {"idle", "getDefault"} => k.dev \in Devices
    /\ k.pc = "getDefault" => k.op \in OfDevice
    /\ k.pc \in {"isClaimed", "claimInfo", "claim", "claiming", "note"} => k.op = "Claim"
    /\ k.pc = "release" => k.op \in {"Claim", "Release"}
    /\ k.pc \in {"checkClaimed", "use"} => k.op \in {"Verify", "StopVerify"}
    /\ k.pc = "starting" => k.op = "Verify"
    /\ k.pc = "stopping" => k.op = "StopVerify"

Claimant == [sender : Senders, user : Users]
Holds(k, d) == k.pc \in InMutex /\ k.dev = d

Calls == call \in [Goroutines -> Call] /\ \A c \in Goroutines : Shape(call[c])

Mutexes ==
    /\ mu \in [Devices -> Goroutines \cup {None}] /\ props \in Goroutines \cup {None}
    /\ \A c \in Goroutines : /\ \A d \in Devices : mu[d] = c <=> Holds(call[c], d)
                             /\ props = c <=> call[c].pc \in InSet

Replies == {"none", "ok", "claimed", "error"}

DataTyped ==
    /\ defaultDevice \in Devices
    /\ claimInfo \in Client
    /\ owner \in [Devices -> Claimant \cup {Nobody}]
    /\ DOMAIN queue = Devices /\ \A d \in Devices : queue[d] \in Seq(Requests)
    /\ reply \in [Goroutines -> Replies]
    /\ hardware \in [Devices -> Users \cup {None}]
    /\ verifying \in [Devices -> BOOLEAN]
    /\ stray \in [Devices -> BOOLEAN]

Typed == Calls /\ Mutexes /\ DataTyped

(* What a goroutine waits for, and the place at which it does.             *)
Place(op) == CASE op = "claim" -> "claiming" [] op = "release" -> "releasing"
               [] op = "Verify" -> "starting" [] OTHER -> "stopping"

Ownership == {"claim", "release"}

(* A request that is not given up is the only one of a goroutine that      *)
(* waits for it, and the last of its device to change who has the device.  *)
Awaited ==
    \A d \in Devices : \A i \in DOMAIN queue[d] :
        LET r == queue[d][i] IN
        r.call # None =>
            /\ call[r.call].dev = d /\ call[r.call].pc = Place(r.op) /\ reply[r.call] = "none"
            /\ r.op = "claim" => r.user = call[r.call].user
            /\ \A j \in DOMAIN queue[d] :
                  /\ queue[d][j].call = r.call => j = i
                  /\ r.op \in Ownership /\ queue[d][j].op \in Ownership => j <= i

(* Nobody has the device in the service, but for a stray claim.            *)
Unheld(d) == stray[d] \/ hardware[d] = None

(* A claim finds the device so, or a release is performed before it.       *)
ClaimsFree ==
    \A d \in Devices : \A i \in DOMAIN queue[d] :
        queue[d][i].op = "claim" =>
            Unheld(d) \/ \E j \in DOMAIN queue[d] : j < i /\ queue[d][j].op = "release"

(* What the answer to a claim or to a release tells about the device.      *)
Answered ==
    \A c \in Goroutines :
        LET d == call[c].dev IN
        /\ At(c, "claiming") =>
              /\ owner[d] = Nobody
              /\ reply[c] = "ok" => hardware[d] = call[c].user
              /\ reply[c] = "claimed" => hardware[d] # None /\ stray[d]
              /\ reply[c] = "error" => Unheld(d)
        /\ At(c, "releasing") /\ reply[c] # "none" => Unheld(d)
        /\ call[c].pc \in InMutex =>
              IF reply[c] = "none" THEN \E i \in DOMAIN queue[d] : queue[d][i].call = c
                                   ELSE ~Pending(d)

Agree ==
    \A d \in Devices : mu[d] = None =>
        /\ isClaimed(d) => hardware[d] # None /\ ~Pending(d)
        /\ stray[d] \/ Pending(d) \/ hardware[d] = owner[d].user

AgreeInv == Awaited /\ ClaimsFree /\ Answered /\ Agree

Inv == Typed /\ AgreeInv

-----------------------------------------------------------------------------
(* The parts make up the two properties.                                   *)
LEMMA InvTypeOK == Typed => TypeOK
<1> SUFFICES ASSUME Typed PROVE TypeOK
    OBVIOUS
<1>1. \A c \in Goroutines, d \in Devices :
          mu[d] = c <=> call[c].pc \in {"claiming", "releasing"} /\ call[c].dev = d
    BY DEF Typed, Mutexes, Holds, InMutex
<1>2. \A c \in Goroutines : props = c <=> call[c].pc \in {"checkNew", "checkOld", "select"}
    BY DEF Typed, Mutexes, InSet
<1> QED
    BY <1>1, <1>2 DEF Typed, Calls, Call, Mutexes, DataTyped, Claimant, Replies, TypeOK

LEMMA InvAgrees == Inv => HardwareAgrees
    BY DEF Inv, AgreeInv, Agree, HardwareAgrees

LEMMA IdleShape ==
    Idle \in Call /\ Shape(Idle) /\ Idle.pc \notin InSet /\ \A d \in Devices : ~Holds(Idle, d)
    BY FingerprintAssumption DEF Idle, Call, Steps, Shape, OfDevice, InSet, Holds, InMutex

LEMMA InvInit == Init => Inv
<1> SUFFICES ASSUME Init PROVE Inv
    OBVIOUS
<1>1. Calls /\ Mutexes
    BY IdleShape, FingerprintAssumption DEF Init, Calls, Mutexes
<1>2. DataTyped
    BY DEF Init, DataTyped, Client, Nobody, Replies
<1>3. Idle.pc = "idle" /\ Nobody.user = None
    BY DEF Idle, Nobody
<1>4. Awaited /\ ClaimsFree /\ Answered /\ Agree
    BY <1>3 DEF Init, Awaited, ClaimsFree, Answered, Agree, At, InMutex, isClaimed, Nobody
<1> QED
    BY <1>1, <1>2, <1>4 DEF Inv, Typed, AgreeInv

-----------------------------------------------------------------------------
(* A goroutine that goes on to k, and takes or gives back a mutex as k     *)
(* says.                                                                   *)
Moves(c, k) == call' = [call EXCEPT ![c] = k] /\ k \in Call /\ Shape(k)

DeviceMutex(c, k) ==
    \/ mu' = mu /\ \A d \in Devices : Holds(k, d) <=> Holds(call[c], d)
    \/ \E e \in Devices : /\ mu[e] = None /\ mu' = [mu EXCEPT ![e] = c]
                          /\ \A d \in Devices : ~Holds(call[c], d) /\ (Holds(k, d) <=> d = e)
    \/ \E e \in Devices : /\ mu[e] = c /\ mu' = [mu EXCEPT ![e] = None]
                          /\ \A d \in Devices : ~Holds(k, d)

PropsMutex(c, k) ==
    \/ props' = props /\ (k.pc \in InSet <=> call[c].pc \in InSet)
    \/ props = None /\ props' = c /\ k.pc \in InSet
    \/ props = c /\ props' = None /\ k.pc \notin InSet

(* Then the calls and the mutexes agree as before.                         *)
LEMMA MoveTyped ==
    ASSUME Typed, NEW c \in Goroutines, NEW k, Moves(c, k), DeviceMutex(c, k), PropsMutex(c, k)
    PROVE  Calls' /\ Mutexes'
<1>1. /\ call' \in [Goroutines -> Call]
      /\ \A g \in Goroutines : call'[g] = IF g = c THEN k ELSE call[g]
    BY DEF Typed, Calls, Moves
<1>2. Calls'
    BY <1>1 DEF Typed, Calls, Moves
<1>3. None \notin Goroutines
    BY FingerprintAssumption
<1>4. ASSUME NEW g \in Goroutines PROVE props' = g <=> call'[g].pc \in InSet
    BY <1>1, <1>3, <1>4 DEF Typed, Mutexes, PropsMutex
<1>5. ASSUME NEW g \in Goroutines, NEW d \in Devices PROVE mu'[d] = g <=> Holds(call'[g], d)
  <2>1. CASE mu' = mu /\ \A y \in Devices : Holds(k, y) <=> Holds(call[c], y)
      BY <1>1, <1>3, <2>1 DEF Typed, Mutexes
  <2>2. ASSUME NEW e \in Devices, mu[e] = None, mu' = [mu EXCEPT ![e] = c],
               \A y \in Devices : ~Holds(call[c], y) /\ (Holds(k, y) <=> y = e)
        PROVE  mu'[d] = g <=> Holds(call'[g], d)
      BY <1>1, <1>3, <2>2 DEF Typed, Mutexes
  <2>3. ASSUME NEW e \in Devices, mu[e] = c, mu' = [mu EXCEPT ![e] = None],
               \A y \in Devices : ~Holds(k, y)
        PROVE  mu'[d] = g <=> Holds(call'[g], d)
    <3>1. g = c => \A y \in Devices : y # e => mu[y] # c
        BY <2>3 DEF Typed, Mutexes, Holds
    <3> QED
        BY <1>1, <1>3, <2>3, <3>1 DEF Typed, Mutexes
  <2> QED
      BY <2>1, <2>2, <2>3 DEF DeviceMutex
<1>6. mu' \in [Devices -> Goroutines \cup {None}] /\ props' \in Goroutines \cup {None}
    BY DEF Typed, Mutexes, DeviceMutex, PropsMutex
<1> QED
    BY <1>2, <1>4, <1>5, <1>6 DEF Mutexes

LEMMA StillTyped ==
    ASSUME Typed, call' = call, mu' = mu, props' = props
    PROVE  Calls' /\ Mutexes'
    BY DEF Typed, Calls, Mutexes

(* Only the device that it has can be given back.                          *)
LEMMA HeldIsMine ==
    ASSUME Typed, NEW c \in Goroutines, call[c].pc \in InMutex
    PROVE  call[c].dev \in Devices /\ mu[call[c].dev] = c
    BY DEF Typed, Calls, Shape, InMutex, Mutexes, Holds

(* Where the goroutine of a request is.                                    *)
Waiting == {"claiming", "releasing", "starting", "stopping"}

LEMMA QueueTyped ==
    ASSUME Typed, NEW d \in Devices, NEW i \in DOMAIN queue[d]
    PROVE  queue[d][i] \in Requests /\ queue[d][i].call \in Goroutines \cup {None}
<1>1. queue[d] \in Seq(Requests)
    BY DEF Typed, DataTyped
<1>2. queue[d][i] \in Requests
    BY <1>1, LenProperties, ElementOfSeq
<1> QED
    BY <1>2 DEF Requests

LEMMA PlaceWaits ==
    /\ \A op : Place(op) \in Waiting
    /\ \A op : (Place(op) \in InMutex) <=> (op \in {"claim", "release"})
    /\ Place("claim") = "claiming" /\ Place("release") = "releasing"
    /\ Place("Verify") = "starting" /\ Place("StopVerify") = "stopping"
    BY DEF Place, Waiting, InMutex

-----------------------------------------------------------------------------
(* Steps that neither end nor begin to wait for the service.               *)
Still == <<mu, owner, queue, reply, hardware, stray>>

LEMMA QuietAgree ==
    ASSUME Inv, NEW c \in Goroutines, NEW k, Moves(c, k), call[c].pc \notin Waiting,
           k.pc \notin Waiting, UNCHANGED Still
    PROVE  AgreeInv'
<1>1. Awaited /\ ClaimsFree /\ Answered /\ Agree
    BY DEF Inv, AgreeInv
<1>2. \A g \in Goroutines : call'[g] = IF g = c THEN k ELSE call[g]
    BY DEF Inv, Typed, Calls, Moves
<1>3. Awaited'
  <2>1. \A d \in Devices : \A i \in DOMAIN queue[d] :
            queue[d][i].call # None => queue[d][i].call \in Goroutines \ {c}
      BY <1>1, QueueTyped, PlaceWaits DEF Inv, Awaited
  <2> QED
      BY <1>1, <1>2, <2>1 DEF Awaited, Still
<1>4. Answered'
  <2> SUFFICES ASSUME NEW g \in Goroutines, NEW d, d = call'[g].dev
               PROVE  /\ call'[g].pc = "claiming" =>
                            /\ owner[d] = Nobody
                            /\ reply[g] = "ok" => hardware[d] = call'[g].user
                            /\ reply[g] = "claimed" => hardware[d] # None /\ stray[d]
                            /\ reply[g] = "error" => Unheld(d)
                      /\ call'[g].pc = "releasing" /\ reply[g] # "none" => Unheld(d)
                      /\ call'[g].pc \in InMutex =>
                            IF reply[g] = "none"
                            THEN \E i \in DOMAIN queue[d] : queue[d][i].call = g
                            ELSE ~Pending(d)
      BY DEF Answered, Still, At, Unheld, Pending
  <2>1. CASE g = c
      BY <1>2, <2>1 DEF Waiting, InMutex
  <2>2. CASE g # c
      BY <1>1, <1>2, <2>2 DEF Answered, At
  <2> QED
      BY <2>1, <2>2
<1>5. Agree' /\ ClaimsFree'
    BY <1>1 DEF Agree, ClaimsFree, Still, Pending, isClaimed, Unheld
<1> QED
    BY <1>3, <1>4, <1>5 DEF AgreeInv

(* A goroutine sends a request to the service and waits.                   *)
Asks(c, k, r) ==
    /\ queue' = [queue EXCEPT ![k.dev] = Append(@, r)] /\ reply' = [reply EXCEPT ![c] = "none"]
    /\ r \in Requests /\ r.call = c /\ k.pc = Place(r.op) /\ k.dev \in Devices
    /\ UNCHANGED <<owner, hardware, stray>>

LEMMA AskTyped ==
    ASSUME Typed, NEW c \in Goroutines, NEW k, NEW r, Asks(c, k, r),
           UNCHANGED <<defaultDevice, claimInfo, verifying>>
    PROVE  DataTyped'
<1>1. DataTyped
    BY DEF Typed
<1>2. \A d \in Devices : queue'[d] \in Seq(Requests)
    BY <1>1, AppendProperties DEF DataTyped, Asks
<1>3. DOMAIN queue' = Devices /\ reply' \in [Goroutines -> Replies]
    BY <1>1 DEF DataTyped, Asks, Replies
<1> QED
    BY <1>1, <1>2, <1>3 DEF DataTyped, Asks

LEMMA AskAgree ==
    ASSUME Inv, NEW c \in Goroutines, NEW k, NEW r, Moves(c, k), Asks(c, k, r),
           call[c].pc \notin Waiting,
           mu' = IF r.op \in Ownership THEN [mu EXCEPT ![k.dev] = c] ELSE mu,
           r.op \in Ownership => mu[k.dev] = None,
           r.op = "claim" => owner[k.dev] = Nobody /\ r.user = k.user
    PROVE  AgreeInv'
<1>1. Awaited /\ ClaimsFree /\ Answered /\ Agree
    BY DEF Inv, AgreeInv
<1>2. \A g \in Goroutines : call'[g] = IF g = c THEN k ELSE call[g]
    BY DEF Inv, Typed, Calls, Moves
<1>3. /\ reply' \in [Goroutines -> Replies] /\ reply'[c] = "none"
      /\ \A g \in Goroutines : g # c => reply'[g] = reply[g]
    BY DEF Inv, Typed, DataTyped, Asks, Replies
<1>4. /\ \A d \in Devices : d # k.dev => queue'[d] = queue[d]
      /\ queue'[k.dev] = Append(queue[k.dev], r) /\ k.dev \in Devices /\ r.call = c
      /\ DOMAIN queue'[k.dev] = 1..(Len(queue[k.dev]) + 1)
      /\ DOMAIN queue[k.dev] = 1..Len(queue[k.dev]) /\ Len(queue[k.dev]) \in Nat
      /\ \A j \in DOMAIN queue[k.dev] : queue'[k.dev][j] = queue[k.dev][j]
      /\ queue'[k.dev][Len(queue[k.dev]) + 1] = r
  <2>1. /\ queue[k.dev] \in Seq(Requests) /\ queue'[k.dev] = Append(queue[k.dev], r)
        /\ r \in Requests /\ k.dev \in Devices /\ r.call = c
        /\ \A d \in Devices : d # k.dev => queue'[d] = queue[d]
      BY DEF Inv, Typed, DataTyped, Asks
  <2> QED
      BY <2>1, AppendProperties, LenProperties
<1>5. ASSUME NEW d \in Devices, NEW i \in DOMAIN queue[d]
      PROVE  /\ queue[d][i].call # None => queue[d][i].call \in Goroutines \ {c}
             /\ queue[d][i].call # None /\ queue[d][i].op \in Ownership
                  => mu[d] = queue[d][i].call
  <2>1. queue[d][i].call # None => queue[d][i].call \in Goroutines \ {c}
      BY <1>1, QueueTyped, PlaceWaits DEF Inv, Awaited
  <2>2. queue[d][i].call # None /\ queue[d][i].op \in Ownership
           => call[queue[d][i].call].pc \in InMutex /\ call[queue[d][i].call].dev = d
      BY <1>1, PlaceWaits DEF Awaited, Ownership, InMutex
  <2> QED
      BY <2>1, <2>2, HeldIsMine DEF Inv
<1>6. Awaited'
  <2> SUFFICES ASSUME NEW d \in Devices, NEW i \in DOMAIN queue'[d], queue'[d][i].call # None
               PROVE  LET q == queue'[d][i] IN
                      /\ call'[q.call].dev = d /\ call'[q.call].pc = Place(q.op)
                      /\ reply'[q.call] = "none"
                      /\ q.op = "claim" => q.user = call'[q.call].user
                      /\ \A j \in DOMAIN queue'[d] :
                            /\ queue'[d][j].call = q.call => j = i
                            /\ q.op \in Ownership /\ queue'[d][j].op \in Ownership => j <= i
      BY DEF Awaited
  <2>1. CASE d # k.dev
      BY <1>1, <1>2, <1>3, <1>4, <1>5, <2>1 DEF Awaited
  <2>2. CASE d = k.dev
    <3>1. CASE i \in DOMAIN queue[d]
      <4>1. queue'[d][i] = queue[d][i] /\ queue[d][i].call # None
          BY <1>4, <2>2, <3>1
      <4>2. \A j \in DOMAIN queue'[d] : j \in DOMAIN queue[d] \/ queue'[d][j] = r
          BY <1>4, <2>2
      <4>3. queue[d][i].op \in Ownership => r.op \notin Ownership
          BY <1>5, <2>2, <3>1, <4>1, FingerprintAssumption
      <4>4. /\ \A j \in DOMAIN queue[d] :
                    /\ queue[d][j].call = queue[d][i].call => j = i
                    /\ queue[d][i].op \in Ownership /\ queue[d][j].op \in Ownership => j <= i
            /\ call[queue[d][i].call].dev = d /\ call[queue[d][i].call].pc = Place(queue[d][i].op)
            /\ reply[queue[d][i].call] = "none"
            /\ queue[d][i].op = "claim" => queue[d][i].user = call[queue[d][i].call].user
          BY <1>1, <3>1, <4>1 DEF Awaited
      <4>5. queue[d][i].call \in Goroutines \ {c}
          BY <1>5, <3>1, <4>1
      <4>6. \A j \in DOMAIN queue'[d] :
                /\ queue'[d][j].call = queue[d][i].call => j = i
                /\ queue[d][i].op \in Ownership /\ queue'[d][j].op \in Ownership => j <= i
          BY <1>4, <2>2, <4>2, <4>3, <4>4, <4>5
      <4> QED
          BY <1>2, <1>3, <4>1, <4>4, <4>5, <4>6
    <3>2. CASE i \notin DOMAIN queue[d]
      <4>1. i = Len(queue[d]) + 1 /\ queue'[d][i] = r
          BY <1>4, <2>2, <3>2
      <4>2. \A j \in DOMAIN queue'[d] : queue'[d][j].call = c => j = i
        <5>1. \A j \in DOMAIN queue'[d] : j # i => j \in DOMAIN queue[d]
            BY <1>4, <2>2, <4>1
        <5> QED
            BY <1>4, <1>5, <2>2, <5>1, FingerprintAssumption
      <4>3. \A j \in DOMAIN queue'[d] : j <= i
          BY <1>4, <2>2, <4>1
      <4> QED
          BY <1>2, <1>3, <1>4, <2>2, <4>1, <4>2, <4>3 DEF Asks
    <3> QED
        BY <3>1, <3>2
  <2> QED
      BY <2>1, <2>2
<1>7. ClaimsFree'
  <2> SUFFICES ASSUME NEW d \in Devices, NEW i \in DOMAIN queue'[d], queue'[d][i].op = "claim"
               PROVE  \/ Unheld(d)
                      \/ \E j \in DOMAIN queue'[d] : j < i /\ queue'[d][j].op = "release"
      BY DEF ClaimsFree, Asks, Unheld
  <2>1. CASE d # k.dev
      BY <1>1, <1>4, <2>1 DEF ClaimsFree
  <2>2. CASE d = k.dev /\ i \in DOMAIN queue[d]
    <3>1. queue[d][i].op = "claim" /\ \A j \in DOMAIN queue[d] : j \in DOMAIN queue'[d]
        BY <1>4, <2>2
    <3> QED
        BY <1>1, <1>4, <2>2, <3>1 DEF ClaimsFree
  <2>3. CASE d = k.dev /\ i \notin DOMAIN queue[d]
    <3>1. i = Len(queue[d]) + 1 /\ r.op = "claim"
        BY <1>4, <2>3
    <3>2. owner[d] = Nobody /\ mu[d] = None
        BY <2>3, <3>1 DEF Ownership
    <3>3. Unheld(d) \/ Pending(d)
        BY <1>1, <3>2 DEF Agree, Unheld, Nobody
    <3>4. ASSUME Pending(d)
          PROVE  Unheld(d) \/ \E j \in DOMAIN queue[d] : queue[d][j].op = "release"
        BY <1>1, <3>4 DEF Pending, ClaimsFree
    <3>5. \A j \in DOMAIN queue[d] : /\ j \in DOMAIN queue'[d] /\ j < i
                                     /\ queue'[d][j] = queue[d][j]
        BY <1>4, <2>3, <3>1
    <3> QED
        BY <3>3, <3>4, <3>5
  <2> QED
      BY <2>1, <2>2, <2>3
<1>8. k.pc \in InMutex <=> r.op \in Ownership
    BY PlaceWaits DEF Asks, Ownership
<1>9. \A d \in Devices : d # k.dev \/ r.op \notin Ownership => (Pending(d)' <=> Pending(d))
  <2>1. \A d \in Devices : d # k.dev => (Pending(d)' <=> Pending(d))
      BY <1>4 DEF Pending
  <2>2. ASSUME r.op \notin Ownership PROVE Pending(k.dev)' <=> Pending(k.dev)
    <3>1. \A j \in DOMAIN queue'[k.dev] : j \in DOMAIN queue[k.dev] \/ queue'[k.dev][j] = r
        BY <1>4
    <3>2. \A j \in DOMAIN queue[k.dev] : j \in DOMAIN queue'[k.dev]
        BY <1>4
    <3> QED
        BY <1>4, <2>2, <3>1, <3>2 DEF Pending, Ownership
  <2> QED
      BY <2>1, <2>2
<1>10. Answered'
  <2> SUFFICES ASSUME NEW g \in Goroutines, NEW d, d = call'[g].dev
               PROVE  /\ call'[g].pc = "claiming" =>
                            /\ owner[d] = Nobody
                            /\ reply'[g] = "ok" => hardware[d] = call'[g].user
                            /\ reply'[g] = "claimed" => hardware[d] # None /\ stray[d]
                            /\ reply'[g] = "error" => Unheld(d)
                      /\ call'[g].pc = "releasing" /\ reply'[g] # "none" => Unheld(d)
                      /\ call'[g].pc \in InMutex =>
                            IF reply'[g] = "none"
                            THEN \E i \in DOMAIN queue'[d] : queue'[d][i].call = g
                            ELSE ~Pending(d)'
      BY DEF Answered, At, Asks, Unheld
  <2>1. CASE g = c
    <3>1. call'[g] = k /\ reply'[g] = "none" /\ Len(queue[k.dev]) + 1 \in DOMAIN queue'[k.dev]
        BY <1>2, <1>3, <1>4, <2>1
    <3>2. k.pc = "claiming" => r.op = "claim"
        BY PlaceWaits DEF Asks, Place
    <3> QED
        BY <1>4, <2>1, <3>1, <3>2
  <2>2. CASE g # c
    <3>1. call'[g] = call[g] /\ reply'[g] = reply[g] /\ d = call[g].dev
        BY <1>2, <1>3, <2>2
    <3>2. /\ call[g].pc = "claiming" =>
                /\ owner[d] = Nobody
                /\ reply[g] = "ok" => hardware[d] = call[g].user
                /\ reply[g] = "claimed" => hardware[d] # None /\ stray[d]
                /\ reply[g] = "error" => Unheld(d)
          /\ call[g].pc = "releasing" /\ reply[g] # "none" => Unheld(d)
          /\ call[g].pc \in InMutex =>
                IF reply[g] = "none" THEN \E i \in DOMAIN queue[d] : queue[d][i].call = g
                                     ELSE ~Pending(d)
        BY <1>1, <3>1 DEF Answered, At
    <3>3. ASSUME call[g].pc \in InMutex
          PROVE  IF reply[g] = "none" THEN \E i \in DOMAIN queue'[d] : queue'[d][i].call = g
                                      ELSE ~Pending(d)'
      <4>1. d \in Devices /\ mu[d] = g
          BY <3>1, <3>3, HeldIsMine DEF Inv
      <4>2. d # k.dev \/ r.op \notin Ownership
          BY <4>1, FingerprintAssumption
      <4>3. \A i \in DOMAIN queue[d] : i \in DOMAIN queue'[d] /\ queue'[d][i] = queue[d][i]
          BY <1>4, <4>1
      <4> QED
          BY <1>9, <3>2, <3>3, <4>1, <4>2, <4>3
    <3> QED
        BY <3>1, <3>2, <3>3
  <2> QED
      BY <2>1, <2>2
<1>11. Agree'
  <2> SUFFICES ASSUME NEW d \in Devices, mu'[d] = None
               PROVE  /\ isClaimed(d) => hardware[d] # None /\ ~Pending(d)'
                      /\ stray[d] \/ Pending(d)' \/ hardware[d] = owner[d].user
      BY DEF Agree, Asks, isClaimed
  <2>1. (d # k.dev \/ r.op \notin Ownership) /\ mu[d] = None
      BY FingerprintAssumption DEF Inv, Typed, Mutexes
  <2> QED
      BY <1>1, <1>9, <2>1 DEF Agree
<1> QED
    BY <1>6, <1>7, <1>10, <1>11 DEF AgreeInv

(* What the daemon says of a device once it has an answer.                 *)
Settled(d) ==
    /\ owner'[d] # Nobody => hardware[d] # None /\ ~Pending(d)
    /\ stray[d] \/ Pending(d) \/ hardware[d] = owner'[d].user

(* A goroutine goes on with the answer; if it holds the mutex of its       *)
(* device it gives it back.                                                *)
LEMMA AnswerAgree ==
    ASSUME Inv, NEW c \in Goroutines, NEW k, Moves(c, k), call[c].pc \in Waiting,
           reply[c] # "none", k.pc \notin Waiting, Received(c),
           UNCHANGED <<queue, hardware, stray>>,
           IF call[c].pc \in InMutex
           THEN /\ mu' = [mu EXCEPT ![call[c].dev] = None]
                /\ \A d \in Devices : d # call[c].dev => owner'[d] = owner[d]
                /\ Settled(call[c].dev)
           ELSE UNCHANGED <<mu, owner>>
    PROVE  AgreeInv'
<1>1. Awaited /\ ClaimsFree /\ Answered /\ Agree
    BY DEF Inv, AgreeInv
<1>2. \A g \in Goroutines : /\ call'[g] = IF g = c THEN k ELSE call[g]
                            /\ g # c => reply'[g] = reply[g]
    BY DEF Inv, Typed, Calls, DataTyped, Moves, Received
<1>3. Awaited' /\ ClaimsFree'
  <2>1. \A d \in Devices : \A i \in DOMAIN queue[d] :
            queue[d][i].call # None => queue[d][i].call \in Goroutines \ {c}
      BY <1>1, QueueTyped DEF Inv, Awaited
  <2> QED
      BY <1>1, <1>2, <2>1 DEF Awaited, ClaimsFree, Unheld
<1>4. \A d \in Devices : Pending(d)' <=> Pending(d)
    BY DEF Pending
<1>5. Answered'
  <2> SUFFICES ASSUME NEW g \in Goroutines, g # c, NEW d, d = call[g].dev
               PROVE  /\ call[g].pc = "claiming" =>
                            /\ owner'[d] = Nobody
                            /\ reply[g] = "ok" => hardware[d] = call[g].user
                            /\ reply[g] = "claimed" => hardware[d] # None /\ stray[d]
                            /\ reply[g] = "error" => Unheld(d)
                      /\ call[g].pc = "releasing" /\ reply[g] # "none" => Unheld(d)
                      /\ call[g].pc \in InMutex =>
                            IF reply[g] = "none"
                            THEN \E i \in DOMAIN queue[d] : queue[d][i].call = g
                            ELSE ~Pending(d)
      BY <1>2 DEF Answered, At, Waiting, InMutex, Unheld, Pending
  <2>1. call[g].pc = "claiming" => owner'[call[g].dev] = owner[call[g].dev]
    <3>1. call[g].pc \in InMutex => call[g].dev \in Devices /\ mu[call[g].dev] = g
        BY HeldIsMine DEF Inv
    <3>2. call[c].pc \in InMutex => mu[call[c].dev] = c
        BY HeldIsMine DEF Inv
    <3> QED
        BY <3>1, <3>2 DEF InMutex
  <2> QED
      BY <1>1, <2>1 DEF Answered, At
<1>6. Agree'
  <2> SUFFICES ASSUME NEW d \in Devices, mu'[d] = None
               PROVE  Settled(d)
      BY <1>4 DEF Agree, isClaimed, Settled
  <2>1. CASE call[c].pc \in InMutex /\ d = call[c].dev
      BY <2>1
  <2>2. CASE ~(call[c].pc \in InMutex /\ d = call[c].dev)
    <3>1. mu[d] = None /\ owner'[d] = owner[d]
        BY <2>2 DEF Inv, Typed, Mutexes
    <3> QED
        BY <1>1, <3>1 DEF Agree, isClaimed, Settled
  <2> QED
      BY <2>1, <2>2
<1> QED
    BY <1>3, <1>5, <1>6 DEF AgreeInv

-----------------------------------------------------------------------------
LEMMA QuietInv ==
    ASSUME Inv, NEW c \in Goroutines, NEW k, Moves(c, k), call[c].pc \notin Waiting,
           k.pc \notin Waiting, PropsMutex(c, k), defaultDevice' \in Devices,
           claimInfo' \in Client, UNCHANGED <<devVars, hwVars, reply>>
    PROVE  Inv'
<1>1. AgreeInv'
    BY QuietAgree DEF Still, devVars, hwVars
<1>2. DeviceMutex(c, k)
    BY DEF DeviceMutex, Holds, InMutex, Waiting, devVars
<1>3. DataTyped'
    BY DEF Inv, Typed, DataTyped, devVars, hwVars
<1> QED
    BY <1>1, <1>2, <1>3, MoveTyped DEF Inv, Typed

LEMMA AskInv ==
    ASSUME Inv, NEW c \in Goroutines, NEW k, NEW r, Moves(c, k), Asks(c, k, r),
           call[c].pc \notin Waiting, call[c].pc \notin InSet,
           mu' = IF r.op \in Ownership THEN [mu EXCEPT ![k.dev] = c] ELSE mu,
           r.op \in Ownership => mu[k.dev] = None,
           r.op = "claim" => owner[k.dev] = Nobody /\ r.user = k.user,
           UNCHANGED <<defaultDevice, claimInfo, verifying, props>>
    PROVE  Inv'
<1>1. AgreeInv'
    BY AskAgree
<1>2. DataTyped'
    BY AskTyped DEF Inv
<1>3. k.pc \in InMutex <=> r.op \in Ownership
    BY PlaceWaits DEF Asks, Ownership
<1>4. DeviceMutex(c, k)
    BY <1>3 DEF DeviceMutex, Holds, InMutex, Waiting, Asks
<1>5. k.pc \notin InSet
    BY PlaceWaits DEF Asks, Waiting, InSet
<1>6. PropsMutex(c, k)
    BY <1>5 DEF PropsMutex
<1> QED
    BY <1>1, <1>2, <1>4, <1>6, MoveTyped DEF Inv, Typed

LEMMA AnswerInv ==
    ASSUME Inv, NEW c \in Goroutines, NEW k, Moves(c, k), call[c].pc \in Waiting,
           reply[c] # "none", k.pc \notin Waiting, k.pc \notin InSet, Received(c),
           UNCHANGED <<defaultDevice, claimInfo, props, hwVars>>,
           owner' \in [Devices -> Claimant \cup {Nobody}],
           IF call[c].pc \in InMutex
           THEN /\ mu' = [mu EXCEPT ![call[c].dev] = None]
                /\ \A d \in Devices : d # call[c].dev => owner'[d] = owner[d]
                /\ Settled(call[c].dev)
           ELSE UNCHANGED <<mu, owner>>
    PROVE  Inv'
<1>1. AgreeInv'
    BY AnswerAgree DEF hwVars
<1>2. DataTyped'
    BY DEF Inv, Typed, DataTyped, hwVars, Received, Replies
<1>3. DeviceMutex(c, k)
    BY HeldIsMine DEF Inv, DeviceMutex, Holds, InMutex, Waiting
<1>4. PropsMutex(c, k)
    BY DEF PropsMutex, Waiting, InSet
<1> QED
    BY <1>1, <1>2, <1>3, <1>4, MoveTyped DEF Inv, Typed

(* What a goroutine has, by where it is.                                   *)
LEMMA CallTyped ==
    ASSUME Inv, NEW c \in Goroutines
    PROVE  call[c] \in Call /\ Shape(call[c])
    BY DEF Inv, Typed, Calls

(* k is the goroutine r at p.                                              *)
After(k, r, p) == /\ k.pc = p /\ k.op = r.op /\ k.sender = r.sender /\ k.user = r.user
                  /\ k.dev = r.dev /\ k.releaser = r.releaser

LEMMA GotoShape ==
    ASSUME Inv, NEW c \in Goroutines, NEW p \in Steps, Goto(c, p)
    PROVE  \E k \in Call : call' = [call EXCEPT ![c] = k] /\ After(k, call[c], p)
<1> DEFINE k == [call[c] EXCEPT !.pc = p]
<1>1. k \in Call /\ After(k, call[c], p)
    BY CallTyped DEF Call, After
<1>2. call' = [call EXCEPT ![c] = k]
    BY DEF Goto
<1> QED
    BY <1>1, <1>2

(* A goroutine goes on to a step at which it does not wait.                *)
LEMMA GotoInv ==
    ASSUME Inv, NEW c \in Goroutines, NEW p \in Steps, Goto(c, p),
           \A k \in Call : After(k, call[c], p) => Shape(k),
           call[c].pc \notin Waiting, p \notin Waiting, p \in InSet <=> call[c].pc \in InSet,
           UNCHANGED <<defaultDevice, claimInfo, devVars, props, hwVars, reply>>
    PROVE  Inv'
<1>1. PICK k \in Call : call' = [call EXCEPT ![c] = k] /\ After(k, call[c], p)
    BY GotoShape
<1>2. Moves(c, k) /\ PropsMutex(c, k)
    BY <1>1 DEF After, Moves, PropsMutex
<1>3. defaultDevice' \in Devices /\ claimInfo' \in Client
    BY DEF Inv, Typed, DataTyped
<1> QED
    BY <1>1, <1>2, <1>3, QuietInv DEF After

(* It returns without having waited.                                       *)
LEMMA ReturnInv ==
    ASSUME Inv, NEW c \in Goroutines, Return(c), call[c].pc \notin Waiting,
           PropsMutex(c, Idle), defaultDevice' \in Devices, claimInfo' \in Client,
           UNCHANGED <<devVars, hwVars, reply>>
    PROVE  Inv'
<1>1. Idle.pc = "idle" /\ Moves(c, Idle)
    BY IdleShape DEF Idle, Return, Moves
<1> QED
    BY <1>1, QuietInv DEF Waiting

-----------------------------------------------------------------------------
(* One lemma for each step of a goroutine.                                 *)
LEMMA BeginStep ==
    ASSUME Inv, NEW c \in Goroutines, Begin(c)
    PROVE  Inv'
<1>1. PICK s \in Senders, u \in Users, m \in Methods \ {"NameLost", "SetDefaultDevice"} :
          call' = [call EXCEPT ![c] = [op |-> m, pc |-> "getDefault", sender |-> s,
                                       user |-> IF m \in {"Claim", "Release"} THEN u ELSE None,
                                       dev |-> None, releaser |-> s]]
    BY DEF Begin
<1> DEFINE k == [op |-> m, pc |-> "getDefault", sender |-> s,
                 user |-> IF m \in {"Claim", "Release"} THEN u ELSE None, dev |-> None,
                 releaser |-> s]
<1>2. m \in OfDevice
    BY FingerprintAssumption DEF OfDevice
<1>3. k \in Call /\ Shape(k) /\ k.pc = "getDefault"
    BY <1>2 DEF Call, Steps, Shape, OfDevice
<1>4. Moves(c, k)
    BY <1>1, <1>3 DEF Moves
<1>5. PropsMutex(c, k)
    BY <1>3 DEF Begin, At, PropsMutex, InSet
<1>6. defaultDevice' \in Devices /\ claimInfo' \in Client
    BY DEF Begin, Inv, Typed, DataTyped
<1>7. call[c].pc \notin Waiting /\ UNCHANGED <<devVars, hwVars, reply>>
    BY DEF Begin, At, Waiting
<1> HIDE DEF k
<1> QED
    BY <1>3, <1>4, <1>5, <1>6, <1>7, QuietInv DEF Waiting

LEMMA getDefaultDeviceStep ==
    ASSUME Inv, NEW c \in Goroutines, getDefaultDevice(c)
    PROVE  Inv'
<1> DEFINE k == [call[c] EXCEPT !.dev = defaultDevice, !.pc = FirstStep(call[c].op)]
<1>1. call[c] \in Call /\ Shape(call[c]) /\ call[c].pc = "getDefault" /\ defaultDevice \in Devices
    BY CallTyped DEF getDefaultDevice, At, Inv, Typed, DataTyped
<1>2. call[c].op \in OfDevice
    BY <1>1 DEF Shape
<1>3. FirstStep(call[c].op) \in Steps
    BY DEF FirstStep, Steps
<1>4. /\ k \in Call /\ k.pc = FirstStep(call[c].op) /\ k.op = call[c].op
      /\ k.sender = call[c].sender /\ k.user = call[c].user /\ k.dev = defaultDevice
    BY <1>1, <1>3 DEF Call
<1>5. call' = [call EXCEPT ![c] = k]
    BY <1>1 DEF getDefaultDevice, Inv, Typed, Calls, Call
<1> HIDE DEF k
<1>6. Shape(k)
    BY <1>1, <1>2, <1>4 DEF Shape, OfDevice, FirstStep
<1>7. k.pc \notin Waiting /\ k.pc \notin InSet
    BY <1>4 DEF FirstStep, Waiting, InSet
<1>8. Moves(c, k) /\ PropsMutex(c, k)
    BY <1>1, <1>4, <1>5, <1>6, <1>7 DEF Moves, PropsMutex, getDefaultDevice, InSet
<1>9. defaultDevice' \in Devices /\ claimInfo' \in Client
    BY DEF getDefaultDevice, Inv, Typed, DataTyped
<1> QED
    BY <1>1, <1>7, <1>8, <1>9, QuietInv DEF getDefaultDevice, Waiting

LEMMA checkFreeStep ==
    ASSUME Inv, NEW c \in Goroutines, checkFree(c)
    PROVE  Inv'
<1>1. call[c] \in Call /\ Shape(call[c]) /\ call[c].pc = "isClaimed"
    BY CallTyped DEF checkFree, At
<1>2. PICK p \in {"claimInfo", "claim"} : Goto(c, p)
    BY DEF checkFree
<1>3. \A k \in Call : After(k, call[c], p) => Shape(k)
  <2>1. /\ call[c].op = "Claim" /\ call[c].sender \in Senders /\ call[c].user \in Users
        /\ call[c].dev \in Devices
      BY <1>1 DEF After, Shape, OfDevice
  <2> QED
      BY <1>2, <2>1 DEF After, Shape, OfDevice
<1>4. p \in Steps /\ p \notin Waiting /\ p \notin InSet
    BY <1>2 DEF Steps, Waiting, InSet
<1> QED
    BY <1>1, <1>2, <1>3, <1>4, GotoInv DEF checkFree, Waiting, InSet

LEMMA readClaimInfoStep ==
    ASSUME Inv, NEW c \in Goroutines, readClaimInfo(c)
    PROVE  Inv'
<1> DEFINE k == [call[c] EXCEPT !.releaser = claimInfo.sender, !.pc = "release"]
<1>1. call[c] \in Call /\ Shape(call[c]) /\ call[c].pc = "claimInfo" /\ claimInfo \in Client
    BY CallTyped DEF readClaimInfo, At, Inv, Typed, DataTyped
<1>2. /\ k \in Call /\ k.pc = "release" /\ k.op = call[c].op /\ k.sender = call[c].sender
      /\ k.user = call[c].user /\ k.dev = call[c].dev
    BY <1>1 DEF Call, Client, Steps
<1>3. call' = [call EXCEPT ![c] = k]
    BY <1>1 DEF readClaimInfo, Inv, Typed, Calls, Call
<1> HIDE DEF k
<1>4. Shape(k)
    BY <1>1, <1>2 DEF Shape, OfDevice
<1>5. Moves(c, k) /\ PropsMutex(c, k)
    BY <1>1, <1>2, <1>3, <1>4 DEF Moves, PropsMutex, readClaimInfo, InSet
<1>6. defaultDevice' \in Devices /\ claimInfo' \in Client
    BY DEF readClaimInfo, Inv, Typed, DataTyped
<1> QED
    BY <1>1, <1>2, <1>5, <1>6, QuietInv DEF readClaimInfo, Waiting

LEMMA releaseStep ==
    ASSUME Inv, NEW c \in Goroutines, release(c)
    PROVE  Inv'
<1> DEFINE d == call[c].dev
           r == [op |-> "release", call |-> c, user |-> owner[d].user]
<1>1. call[c] \in Call /\ Shape(call[c]) /\ call[c].pc = "release" /\ d \in Devices
    BY CallTyped DEF release, At, Shape
<1>2. CASE Return(c) /\ UNCHANGED <<mu, queue, reply>>
  <2>1. PropsMutex(c, Idle)
      BY <1>1, IdleShape DEF PropsMutex, release, InSet
  <2>2. defaultDevice' \in Devices /\ claimInfo' \in Client
      BY DEF release, Inv, Typed, DataTyped
  <2> QED
      BY <1>1, <1>2, <2>1, <2>2, ReturnInv DEF release, Waiting, devVars, hwVars
<1>3. CASE Request(c, "release") /\ Goto(c, "releasing")
  <2>1. PICK k \in Call : call' = [call EXCEPT ![c] = k] /\ After(k, call[c], "releasing")
      BY <1>3, GotoShape DEF Steps
  <2>2. Moves(c, k)
      BY <1>1, <2>1 DEF After, Moves, Shape, OfDevice
  <2>3. owner[d].user \in Users \cup {None}
      BY <1>1 DEF Inv, Typed, DataTyped, Claimant, Nobody
  <2>4. r \in Requests
      BY <2>3 DEF Requests
  <2>5. Asks(c, k, r)
      BY <1>1, <1>3, <2>1, <2>4, PlaceWaits DEF After, Asks, Request, release
  <2> QED
      BY <1>1, <1>3, <2>1, <2>2, <2>5, AskInv DEF After, release, Request, Ownership, Waiting, InSet
<1> QED
    BY <1>2, <1>3 DEF release

LEMMA claimStep ==
    ASSUME Inv, NEW c \in Goroutines, claim(c)
    PROVE  Inv'
<1> DEFINE d == call[c].dev
           r == [op |-> "claim", call |-> c, user |-> call[c].user]
<1>1. call[c] \in Call /\ Shape(call[c]) /\ call[c].pc = "claim" /\ d \in Devices
    BY CallTyped DEF claim, At, Shape
<1>2. CASE Return(c) /\ UNCHANGED <<mu, queue, reply>>
  <2>1. PropsMutex(c, Idle)
      BY <1>1, IdleShape DEF PropsMutex, claim, InSet
  <2>2. defaultDevice' \in Devices /\ claimInfo' \in Client
      BY DEF claim, Inv, Typed, DataTyped
  <2> QED
      BY <1>1, <1>2, <2>1, <2>2, ReturnInv DEF claim, Waiting, devVars, hwVars
<1>3. CASE ~isClaimed(d) /\ Request(c, "claim") /\ Goto(c, "claiming")
  <2>1. PICK k \in Call : call' = [call EXCEPT ![c] = k] /\ After(k, call[c], "claiming")
      BY <1>3, GotoShape DEF Steps
  <2>2. Moves(c, k)
      BY <1>1, <2>1 DEF After, Moves, Shape, OfDevice
  <2>3. call[c].user \in Users \cup {None}
      BY <1>1 DEF Call
  <2>4. r \in Requests
      BY <2>3 DEF Requests
  <2>5. Asks(c, k, r)
      BY <1>1, <1>3, <2>1, <2>4, PlaceWaits DEF After, Asks, Request, claim
  <2>6. owner[d] = Nobody
      BY <1>3 DEF isClaimed
  <2> QED
      BY <1>1, <1>3, <2>1, <2>2, <2>5, <2>6, AskInv DEF After, claim, Request, Ownership, Waiting, InSet
<1> QED
    BY <1>2, <1>3 DEF claim

(* The release is over, whatever was answered: then the claim of the same  *)
(* call begins.                                                            *)
LEMMA ReleasedMoves ==
    ASSUME Inv, NEW c \in Goroutines, At(c, "releasing"), Released(c)
    PROVE  \E k : /\ Moves(c, k) /\ k.pc \notin Waiting /\ k.pc \notin InSet
                  /\ mu' = [mu EXCEPT ![call[c].dev] = None]
                  /\ owner' = [owner EXCEPT ![call[c].dev] = Nobody]
<1>1. call[c] \in Call /\ Shape(call[c]) /\ call[c].pc = "releasing"
    BY CallTyped DEF At
<1>2. CASE call[c].op = "Claim" /\ Goto(c, "claim")
  <2>1. PICK k \in Call : call' = [call EXCEPT ![c] = k] /\ After(k, call[c], "claim")
      BY <1>2, GotoShape DEF Steps
  <2>2. Moves(c, k)
      BY <1>1, <1>2, <2>1 DEF After, Moves, Shape, OfDevice
  <2> QED
      BY <2>1, <2>2 DEF After, Released, Unlock, Waiting, InSet
<1>3. CASE Return(c)
  <2>1. Moves(c, Idle) /\ Idle.pc = "idle"
      BY <1>3, IdleShape DEF Moves, Return, Idle
  <2> QED
      BY <2>1 DEF After, Released, Unlock, Waiting, InSet
<1> QED
    BY <1>2, <1>3 DEF Released

LEMMA NobodyOwns ==
    ASSUME Inv, NEW d, owner' = [owner EXCEPT ![d] = Nobody]
    PROVE  owner' \in [Devices -> Claimant \cup {Nobody}]
    BY DEF Inv, Typed, DataTyped

LEMMA releasedStep ==
    ASSUME Inv, NEW c \in Goroutines, released(c)
    PROVE  Inv'
<1>1. call[c].pc = "releasing" /\ reply[c] # "none" /\ call[c].dev \in Devices
    BY CallTyped DEF released, At, Shape
<1>2. PICK k : /\ Moves(c, k) /\ k.pc \notin Waiting /\ k.pc \notin InSet
               /\ mu' = [mu EXCEPT ![call[c].dev] = None]
               /\ owner' = [owner EXCEPT ![call[c].dev] = Nobody]
    BY ReleasedMoves DEF released
<1>3. owner' \in [Devices -> Claimant \cup {Nobody}]
    BY <1>2, NobodyOwns
<1>4. /\ \A d \in Devices : d # call[c].dev => owner'[d] = owner[d]
      /\ owner'[call[c].dev].user = None
    BY <1>1, <1>2 DEF Inv, Typed, DataTyped, Nobody
<1>5. Settled(call[c].dev)
  <2>1. Unheld(call[c].dev) /\ owner'[call[c].dev] = Nobody
      BY <1>1, <1>2 DEF Inv, AgreeInv, Answered, At, Typed, DataTyped
  <2> QED
      BY <1>4, <2>1 DEF Settled, Unheld
<1> QED
    BY <1>1, <1>2, <1>3, <1>4, <1>5, AnswerInv DEF released, Waiting, InMutex

LEMMA claimedStep ==
    ASSUME Inv, NEW c \in Goroutines, claimed(c)
    PROVE  Inv'
<1> DEFINE d == call[c].dev
           s == [sender |-> call[c].sender, user |-> call[c].user]
<1>1. /\ call[c] \in Call /\ Shape(call[c]) /\ call[c].pc = "claiming" /\ reply[c] # "none"
      /\ d \in Devices /\ mu' = [mu EXCEPT ![d] = None] /\ reply[c] \in Replies
    BY CallTyped DEF claimed, At, Shape, Unlock, Inv, Typed, DataTyped
<1>2. /\ owner[d] = Nobody /\ ~Pending(d)
      /\ reply[c] = "ok" => hardware[d] = call[c].user
      /\ reply[c] = "claimed" => hardware[d] # None /\ stray[d]
      /\ reply[c] = "error" => Unheld(d)
    BY <1>1 DEF Inv, AgreeInv, Answered, At, InMutex
<1>3. CASE reply[c] = "error"
  <2>1. Moves(c, Idle) /\ Idle.pc = "idle" /\ owner' = owner
      BY <1>3, IdleShape DEF claimed, Moves, Return, Idle
  <2>2. owner' \in [Devices -> Claimant \cup {Nobody}]
      BY <2>1 DEF Inv, Typed, DataTyped
  <2>3. Settled(d)
      BY <1>2, <1>3, <2>1 DEF Nobody, Settled, Unheld
  <2> QED
      BY <1>1, <2>1, <2>2, <2>3, AnswerInv DEF After, claimed, Waiting, InMutex, InSet
<1>4. CASE reply[c] # "error"
  <2>1. owner' = [owner EXCEPT ![d] = s] /\ Goto(c, "note")
      BY <1>4 DEF claimed
  <2>2. PICK k \in Call : call' = [call EXCEPT ![c] = k] /\ After(k, call[c], "note")
      BY <2>1, GotoShape DEF Steps
  <2>3. Moves(c, k)
      BY <1>1, <2>2 DEF After, Moves, Shape, OfDevice
  <2>4. s \in Claimant
      BY <1>1 DEF Shape, OfDevice, Claimant
  <2>5. owner' \in [Devices -> Claimant \cup {Nobody}]
      BY <2>1, <2>4 DEF Inv, Typed, DataTyped
  <2>6. /\ \A e \in Devices : e # d => owner'[e] = owner[e]
        /\ owner'[d].user = call[c].user
      BY <1>1, <2>1 DEF Inv, Typed, DataTyped
  <2>7. Settled(d)
    <3>1. reply[c] \in {"ok", "claimed"} /\ call[c].user \in Users
        BY <1>1, <1>4, <1>2 DEF Replies, Shape, OfDevice
    <3> QED
        BY <1>2, <2>6, <3>1, FingerprintAssumption DEF Settled
  <2> QED
      BY <1>1, <1>2, <2>2, <2>3, <2>5, <2>6, <2>7, AnswerInv
         DEF After, claimed, Waiting, InMutex, InSet
<1> QED
    BY <1>3, <1>4

LEMMA noteClaimStep ==
    ASSUME Inv, NEW c \in Goroutines, noteClaim(c)
    PROVE  Inv'
<1>1. call[c] \in Call /\ Shape(call[c]) /\ call[c].pc = "note"
    BY CallTyped DEF noteClaim, At
<1>2. claimInfo' \in Client
    BY <1>1 DEF noteClaim, Call, Client
<1>3. PropsMutex(c, Idle)
    BY <1>1, IdleShape DEF PropsMutex, noteClaim, InSet
<1>4. defaultDevice' \in Devices
    BY DEF noteClaim, Inv, Typed, DataTyped
<1> QED
    BY <1>1, <1>2, <1>3, <1>4, ReturnInv DEF noteClaim, Waiting

LEMMA checkClaimedStep ==
    ASSUME Inv, NEW c \in Goroutines, checkClaimed(c)
    PROVE  Inv'
<1>1. call[c] \in Call /\ Shape(call[c]) /\ call[c].pc = "checkClaimed"
    BY CallTyped DEF checkClaimed, At
<1>2. CASE Goto(c, "use")
  <2>1. \A k \in Call : After(k, call[c], "use") => Shape(k)
    <3> QED
        BY <1>1 DEF After, Shape, OfDevice
  <2> QED
      BY <1>1, <1>2, <2>1, GotoInv DEF checkClaimed, Waiting, InSet, Steps
<1>3. CASE Return(c)
  <2>1. PropsMutex(c, Idle)
      BY <1>1, IdleShape DEF PropsMutex, checkClaimed, InSet
  <2>2. defaultDevice' \in Devices /\ claimInfo' \in Client
      BY DEF checkClaimed, Inv, Typed, DataTyped
  <2> QED
      BY <1>1, <1>3, <2>1, <2>2, ReturnInv DEF checkClaimed, Waiting
<1> QED
    BY <1>2, <1>3 DEF checkClaimed

LEMMA useDeviceStep ==
    ASSUME Inv, NEW c \in Goroutines, useDevice(c)
    PROVE  Inv'
<1> DEFINE r == [op |-> call[c].op, call |-> c, user |-> None]
           p == IF call[c].op = "Verify" THEN "starting" ELSE "stopping"
<1>1. /\ call[c] \in Call /\ Shape(call[c]) /\ call[c].pc = "use" /\ call[c].dev \in Devices
      /\ call[c].op \in {"Verify", "StopVerify"}
    BY CallTyped DEF useDevice, At, Shape
<1>2. PICK k \in Call : call' = [call EXCEPT ![c] = k] /\ After(k, call[c], p)
  <2>1. Goto(c, p) /\ p \in Steps
      BY DEF useDevice, Steps
  <2> HIDE DEF p
  <2> QED
      BY <2>1, GotoShape
<1>3. Moves(c, k)
    BY <1>1, <1>2 DEF After, Moves, Shape, OfDevice
<1>4. r \in Requests
    BY <1>1 DEF Requests
<1>5. Asks(c, k, r)
  <2>1. /\ queue' = [queue EXCEPT ![k.dev] = Append(@, r)]
        /\ reply' = [reply EXCEPT ![c] = "none"] /\ UNCHANGED <<owner, hardware, stray>>
      BY <1>2 DEF After, useDevice, devVars
  <2>2. k.pc = Place(r.op)
      BY <1>1, <1>2, PlaceWaits DEF After
  <2> QED
      BY <1>1, <1>2, <1>4, <2>1, <2>2 DEF After, Asks
<1> QED
    BY <1>1, <1>2, <1>3, <1>5, AskInv DEF After, useDevice, Ownership, Waiting, InSet, devVars

LEMMA usedStep ==
    ASSUME Inv, NEW c \in Goroutines, used(c)
    PROVE  Inv'
<1>1. call[c].pc \in {"starting", "stopping"} /\ reply[c] # "none"
    BY DEF used, At
<1>2. Moves(c, Idle) /\ Idle.pc = "idle"
    BY IdleShape DEF used, Moves, Return, Idle
<1>3. owner' \in [Devices -> Claimant \cup {Nobody}]
    BY DEF used, devVars, Inv, Typed, DataTyped
<1> QED
    BY <1>1, <1>2, <1>3, AnswerInv DEF used, devVars, Waiting, InMutex, InSet

LEMMA NameLostStep ==
    ASSUME Inv, NEW c \in Goroutines, NameLost(c)
    PROVE  Inv'
<1>1. PICK s \in Senders, d \in Devices :
          /\ owner[d].sender = s /\ mu[d] = None
          /\ mu' = [mu EXCEPT ![d] = c]
          /\ queue' = [queue EXCEPT ![d] = Append(@, [op |-> "release", call |-> c,
                                                      user |-> owner[d].user])]
          /\ call' = [call EXCEPT ![c] = [op |-> "NameLost", pc |-> "releasing",
                                          sender |-> s, user |-> None, dev |-> d,
                                          releaser |-> s]]
    BY DEF NameLost
<1> DEFINE k == [op |-> "NameLost", pc |-> "releasing", sender |-> s, user |-> None, dev |-> d,
                 releaser |-> s]
           r == [op |-> "release", call |-> c, user |-> owner[d].user]
<1>2. "NameLost" \in Methods /\ call[c].pc = "idle"
    BY DEF NameLost, At
<1>3. k \in Call /\ Shape(k) /\ k.pc = "releasing" /\ k.dev = d
    BY <1>2 DEF Call, Steps, Shape, OfDevice
<1>4. owner[d].user \in Users \cup {None}
    BY DEF Inv, Typed, DataTyped, Claimant, Nobody
<1>5. r \in Requests /\ r.op = "release" /\ r.call = c
    BY <1>4 DEF Requests
<1>6. call' = [call EXCEPT ![c] = k] /\ queue' = [queue EXCEPT ![d] = Append(@, r)]
    BY <1>1
<1> HIDE DEF k, r
<1>7. Moves(c, k) /\ Asks(c, k, r)
    BY <1>3, <1>5, <1>6, PlaceWaits DEF Moves, Asks, NameLost
<1> QED
    BY <1>1, <1>2, <1>3, <1>5, <1>7, AskInv DEF NameLost, Ownership, Waiting, InSet

LEMMA SetDefaultDeviceStep ==
    ASSUME Inv, NEW c \in Goroutines, SetDefaultDevice(c)
    PROVE  Inv'
<1>1. PICK d \in Devices :
          call' = [call EXCEPT ![c] = [op |-> "SetDefaultDevice", pc |-> "checkNew",
                                       sender |-> None, user |-> None, dev |-> d,
                                       releaser |-> None]]
    BY DEF SetDefaultDevice
<1> DEFINE k == [op |-> "SetDefaultDevice", pc |-> "checkNew", sender |-> None, user |-> None,
                 dev |-> d, releaser |-> None]
<1>2. "SetDefaultDevice" \in Methods /\ call[c].pc = "idle" /\ props = None /\ props' = c
    BY DEF SetDefaultDevice, At
<1>3. k \in Call /\ Shape(k) /\ k.pc = "checkNew"
    BY <1>2 DEF Call, Steps, Shape, OfDevice
<1>4. Moves(c, k) /\ PropsMutex(c, k)
    BY <1>1, <1>2, <1>3 DEF Moves, PropsMutex, InSet
<1>5. defaultDevice' \in Devices /\ claimInfo' \in Client
    BY DEF SetDefaultDevice, Inv, Typed, DataTyped
<1> HIDE DEF k
<1> QED
    BY <1>2, <1>3, <1>4, <1>5, QuietInv DEF SetDefaultDevice, Waiting

LEMMA checkUnclaimedStep ==
    ASSUME Inv, NEW c \in Goroutines, checkUnclaimed(c)
    PROVE  Inv'
<1>1. PICK d \in Devices, next \in {"checkOld", "select"} :
          /\ \/ At(c, "checkNew") /\ d = call[c].dev /\ next = "checkOld"
             \/ At(c, "checkOld") /\ d = defaultDevice /\ next = "select"
          /\ IF isClaimed(d) THEN Return(c) /\ props' = None
                             ELSE Goto(c, next) /\ UNCHANGED props
    BY DEF checkUnclaimed
<1>2. /\ call[c] \in Call /\ Shape(call[c]) /\ call[c].pc \in {"checkNew", "checkOld"}
      /\ call[c].dev \in Devices
    BY <1>1, CallTyped DEF At, Shape
<1>3. CASE Return(c) /\ props' = None
  <2>1. props = c
      BY <1>2 DEF Inv, Typed, Mutexes, InSet
  <2>2. PropsMutex(c, Idle)
      BY <1>3, <2>1, IdleShape DEF PropsMutex
  <2>3. defaultDevice' \in Devices /\ claimInfo' \in Client
      BY DEF checkUnclaimed, Inv, Typed, DataTyped
  <2> QED
      BY <1>2, <1>3, <2>2, <2>3, ReturnInv DEF checkUnclaimed, Waiting
<1>4. CASE Goto(c, next) /\ UNCHANGED props
  <2>1. \A k \in Call : After(k, call[c], next) => Shape(k)
    <3> QED
        BY <1>2 DEF After, Shape, OfDevice
  <2>2. next \in Steps /\ next \notin Waiting /\ next \in InSet
      BY DEF Steps, Waiting, InSet
  <2> QED
      BY <1>2, <1>4, <2>1, <2>2, GotoInv DEF checkUnclaimed, Waiting, InSet
<1> QED
    BY <1>1, <1>3, <1>4

LEMMA selectStep ==
    ASSUME Inv, NEW c \in Goroutines, select(c)
    PROVE  Inv'
<1>1. call[c] \in Call /\ Shape(call[c]) /\ call[c].pc = "select" /\ call[c].dev \in Devices
    BY CallTyped DEF select, At, Shape
<1>2. props = c
    BY <1>1 DEF Inv, Typed, Mutexes, InSet
<1>3. PropsMutex(c, Idle)
    BY <1>2, IdleShape DEF PropsMutex, select
<1>4. defaultDevice' \in Devices /\ claimInfo' \in Client
    BY <1>1 DEF select, Inv, Typed, DataTyped
<1> QED
    BY <1>1, <1>3, <1>4, ReturnInv DEF select, Waiting

(* A goroutine that gives up leaves its request to the service.            *)
LEMMA TimeoutAgree ==
    ASSUME Inv, NEW c \in Goroutines, timeout(c), NEW k, Moves(c, k), k.pc \notin Waiting
    PROVE  AgreeInv'
<1> DEFINE b == call[c].dev
<1>1. Awaited /\ ClaimsFree /\ Answered /\ Agree
    BY DEF Inv, AgreeInv
<1>2. /\ \A g \in Goroutines : /\ call'[g] = IF g = c THEN k ELSE call[g]
                               /\ g # c => reply'[g] = reply[g]
      /\ hardware' = hardware
    BY DEF timeout, Inv, Typed, Calls, DataTyped, Moves, Received
<1>3. ASSUME NEW d \in Devices
      PROVE  /\ DOMAIN queue'[d] = DOMAIN queue[d]
             /\ \A i \in DOMAIN queue[d] :
                   /\ queue'[d][i].op = queue[d][i].op /\ queue'[d][i].user = queue[d][i].user
                   /\ queue'[d][i].call = IF queue[d][i].call = c THEN None ELSE queue[d][i].call
  <2>1. DOMAIN queue[d] = 1..Len(queue[d])
      BY LenProperties DEF Inv, Typed, DataTyped
  <2>2. \A i \in DOMAIN queue[d] : queue[d][i] \in Requests
      BY QueueTyped DEF Inv
  <2>3. queue'[d] = [i \in 1..Len(queue[d]) |->
                        IF queue[d][i].call = c THEN [queue[d][i] EXCEPT !.call = None]
                                                ELSE queue[d][i]]
      BY DEF timeout
  <2> QED
      BY <2>1, <2>2, <2>3 DEF Requests
<1>4. ASSUME NEW d \in Devices
      PROVE  /\ Pending(d)' <=> Pending(d)
             /\ stray[d] => stray'[d]
             /\ Unheld(d) => Unheld(d)'
             /\ d # b => owner'[d] = owner[d] /\ mu'[d] = mu[d]
  <2>1. Pending(d)' <=> Pending(d)
      BY <1>3 DEF Pending
  <2>2. stray[d] => stray'[d]
      BY DEF timeout
  <2>3. d # b => owner'[d] = owner[d] /\ mu'[d] = mu[d]
      BY DEF timeout, Released, Unlock, devVars, Inv, Typed, DataTyped, Mutexes
  <2> QED
      BY <1>2, <2>1, <2>2, <2>3 DEF Unheld
<1>5. Awaited'
  <2> SUFFICES ASSUME NEW d \in Devices, NEW i \in DOMAIN queue[d], queue'[d][i].call # None
               PROVE  LET q == queue'[d][i] IN
                      /\ call'[q.call].dev = d /\ call'[q.call].pc = Place(q.op)
                      /\ reply'[q.call] = "none"
                      /\ q.op = "claim" => q.user = call'[q.call].user
                      /\ \A j \in DOMAIN queue[d] :
                            /\ queue'[d][j].call = q.call => j = i
                            /\ q.op \in Ownership /\ queue'[d][j].op \in Ownership => j <= i
      BY <1>3 DEF Awaited
  <2>1. queue'[d][i].call = queue[d][i].call /\ queue[d][i].call \in Goroutines \ {c}
      BY <1>3, QueueTyped DEF Inv
  <2>2. \A j \in DOMAIN queue[d] : queue'[d][j].call = queue[d][i].call
                                      => queue[d][j].call = queue[d][i].call
      BY <1>3, <2>1, FingerprintAssumption
  <2> QED
      BY <1>1, <1>2, <1>3, <2>1, <2>2 DEF Awaited
<1>6. ClaimsFree'
  <2> SUFFICES ASSUME NEW d \in Devices, NEW i \in DOMAIN queue[d], queue[d][i].op = "claim"
               PROVE  \/ Unheld(d)'
                      \/ \E j \in DOMAIN queue[d] : j < i /\ queue[d][j].op = "release"
      BY <1>3 DEF ClaimsFree
  <2> QED
      BY <1>1, <1>4 DEF ClaimsFree
<1>7. call[c].pc \in {"claiming", "releasing", "stopping"} /\ b \in Devices
    BY CallTyped DEF timeout, At, Shape
<1>8. Answered'
  <2> SUFFICES ASSUME NEW g \in Goroutines, g # c, NEW d, d = call[g].dev
               PROVE  /\ call[g].pc = "claiming" =>
                            /\ owner'[d] = Nobody
                            /\ reply[g] = "ok" => hardware[d] = call[g].user
                            /\ reply[g] = "claimed" => hardware[d] # None /\ stray'[d]
                            /\ reply[g] = "error" => Unheld(d)'
                      /\ call[g].pc = "releasing" /\ reply[g] # "none" => Unheld(d)'
                      /\ call[g].pc \in InMutex =>
                            IF reply[g] = "none"
                            THEN \E i \in DOMAIN queue'[d] : queue'[d][i].call = g
                            ELSE ~Pending(d)'
      BY <1>2 DEF Answered, At, Waiting, InMutex
  <2>1. CASE call[g].pc \in InMutex
    <3>1. d \in Devices /\ mu[d] = g
        BY <2>1, HeldIsMine DEF Inv
    <3>2. owner'[d] = owner[d]
      <4>1. CASE call[c].pc = "stopping"
          BY <4>1 DEF timeout, At, devVars
      <4>2. CASE call[c].pc \in InMutex
        <5>1. mu[b] = c
            BY <4>2, HeldIsMine DEF Inv
        <5> QED
            BY <1>4, <3>1, <5>1
      <4> QED
          BY <1>7, <4>1, <4>2 DEF InMutex
    <3>3. \A i \in DOMAIN queue[d] : queue[d][i].call = g
              => i \in DOMAIN queue'[d] /\ queue'[d][i].call = g
        BY <1>3, <3>1
    <3>4. /\ Pending(d)' <=> Pending(d)
          /\ stray[d] => stray'[d]
          /\ Unheld(d) => Unheld(d)'
        BY <1>4, <3>1
    <3>5. /\ call[g].pc = "claiming" =>
                /\ owner[d] = Nobody
                /\ reply[g] = "ok" => hardware[d] = call[g].user
                /\ reply[g] = "claimed" => hardware[d] # None /\ stray[d]
                /\ reply[g] = "error" => Unheld(d)
          /\ call[g].pc = "releasing" /\ reply[g] # "none" => Unheld(d)
          /\ IF reply[g] = "none" THEN \E i \in DOMAIN queue[d] : queue[d][i].call = g
                                  ELSE ~Pending(d)
        BY <1>1, <2>1 DEF Answered, At
    <3> QED
        BY <2>1, <3>2, <3>3, <3>4, <3>5
  <2>2. CASE call[g].pc \notin InMutex
      BY <2>2 DEF InMutex
  <2> QED
      BY <2>1, <2>2
<1>9. Agree'
  <2> SUFFICES ASSUME NEW d \in Devices, mu'[d] = None
               PROVE  /\ owner'[d] # Nobody => hardware[d] # None /\ ~Pending(d)
                      /\ stray'[d] \/ Pending(d) \/ hardware[d] = owner'[d].user
      BY <1>2, <1>4 DEF Agree, isClaimed
  <2>1. CASE d # b
      BY <1>1, <1>4, <2>1 DEF Agree, isClaimed
  <2>2. CASE call[c].pc = "stopping"
    <3>1. mu[d] = None /\ owner' = owner
        BY <2>2 DEF timeout, At, devVars
    <3> QED
        BY <1>1, <1>4, <3>1 DEF Agree, isClaimed
  <2>3. CASE d = b /\ call[c].pc \in InMutex
    <3>1. owner'[d] = Nobody
        BY <1>1, <2>3 DEF timeout, Released, At, Answered, InMutex, Inv, Typed, DataTyped
    <3>2. CASE reply[c] = "none"
      <4>1. PICK i \in DOMAIN queue[d] : queue[d][i].call = c
          BY <1>1, <2>3, <3>2 DEF Answered
      <4>2. Place(queue[d][i].op) \in InMutex
          BY <1>1, <2>3, <4>1, FingerprintAssumption DEF Awaited
      <4>3. Pending(d)
          BY <4>1, <4>2, PlaceWaits DEF Pending
      <4> QED
          BY <3>1, <4>3
    <3>3. CASE reply[c] # "none"
      <4>1. stray'[d] \/ Unheld(d)
        <5>1. reply[c] \in {"ok", "claimed", "error"}
            BY <3>3 DEF Inv, Typed, DataTyped, Replies
        <5>2. CASE call[c].pc = "claiming" /\ reply[c] = "ok"
            BY <2>3, <5>2 DEF timeout, Unwanted, At
        <5>3. CASE ~(call[c].pc = "claiming" /\ reply[c] = "ok")
            BY <1>1, <2>3, <3>3, <5>1, <5>3 DEF Answered, At, InMutex, Unheld
        <5> QED
            BY <5>2, <5>3
      <4> QED
          BY <1>4, <3>1, <4>1 DEF Unheld, Nobody
    <3> QED
        BY <3>2, <3>3
  <2> QED
      BY <1>7, <2>1, <2>2, <2>3 DEF InMutex
<1> QED
    BY <1>5, <1>6, <1>8, <1>9 DEF AgreeInv

LEMMA timeoutStep ==
    ASSUME Inv, NEW c \in Goroutines, timeout(c)
    PROVE  Inv'
<1>1. /\ DataTyped /\ reply' \in [Goroutines -> Replies]
      /\ stray' \in [Devices -> BOOLEAN]
      /\ UNCHANGED <<defaultDevice, claimInfo, props, hardware, verifying>>
  <2>1. \A d \in Devices : stray[d] \/ Unwanted(c, d) \in BOOLEAN
      BY DEF Inv, Typed, DataTyped, Unwanted, At
  <2> QED
      BY <2>1 DEF timeout, Received, Inv, Typed, DataTyped, Replies
<1>3. ASSUME NEW d \in Devices PROVE queue'[d] \in Seq(Requests)
  <2> DEFINE R(i) == IF queue[d][i].call = c THEN [queue[d][i] EXCEPT !.call = None]
                                             ELSE queue[d][i]
  <2>1. queue'[d] = [i \in 1..Len(queue[d]) |-> R(i)]
      BY <1>3 DEF timeout
  <2>2. queue[d] \in Seq(Requests) /\ Len(queue[d]) \in Nat
      BY <1>1, <1>3, LenProperties DEF DataTyped
  <2>3. ASSUME NEW i \in 1..Len(queue[d]) PROVE R(i) \in Requests
    <3>1. queue[d][i] \in Requests
        BY <2>2, <2>3, ElementOfSeq
    <3> QED
        BY <3>1 DEF Requests
  <2> HIDE DEF R
  <2>4. queue'[d] \in [1..Len(queue[d]) -> Requests]
      BY <2>1, <2>3
  <2> QED
      BY <2>2, <2>4
<1>4. DOMAIN queue' = Devices
    BY DEF timeout
<1>5. /\ call[c] \in Call /\ Shape(call[c]) /\ call[c].pc \in {"claiming", "releasing", "stopping"}
    BY CallTyped DEF timeout, At
<1>6. call[c].pc \notin InSet /\ call[c].dev \in Devices
    BY <1>5 DEF InSet, Shape
<1>7. Moves(c, Idle) <=> Return(c)
    BY IdleShape DEF Moves, Return
<1>8. /\ Calls' /\ Mutexes' /\ owner' \in [Devices -> Claimant \cup {Nobody}]
      /\ \E k : Moves(c, k) /\ k.pc \notin Waiting
  <2>1. Idle.pc \notin Waiting
      BY DEF Idle, Waiting
  <2>2. CASE At(c, "claiming") /\ Return(c) /\ Unlock(c) /\ UNCHANGED owner
    <3>1. mu' = [mu EXCEPT ![call[c].dev] = None] /\ mu[call[c].dev] = c
        BY <2>2, HeldIsMine DEF Unlock, At, InMutex, Inv
    <3>2. DeviceMutex(c, Idle) /\ PropsMutex(c, Idle)
        BY <1>1, <1>6, <3>1, IdleShape DEF DeviceMutex, PropsMutex
    <3> QED
        BY <1>1, <1>7, <2>1, <2>2, <3>2, MoveTyped DEF Inv, DataTyped
  <2>3. CASE At(c, "releasing") /\ Released(c)
    <3>1. PICK k : /\ Moves(c, k) /\ k.pc \notin Waiting /\ k.pc \notin InSet
                   /\ mu' = [mu EXCEPT ![call[c].dev] = None]
                   /\ owner' = [owner EXCEPT ![call[c].dev] = Nobody]
        BY <2>3, ReleasedMoves
    <3>2. mu[call[c].dev] = c
        BY <2>3, HeldIsMine DEF At, InMutex, Inv
    <3>3. DeviceMutex(c, k) /\ PropsMutex(c, k)
        BY <1>1, <1>6, <3>1, <3>2 DEF DeviceMutex, PropsMutex, Holds, InMutex, Waiting
    <3> QED
        BY <3>1, <3>3, MoveTyped, NobodyOwns DEF Inv
  <2>4. CASE At(c, "stopping") /\ Return(c) /\ UNCHANGED devVars
    <3>1. DeviceMutex(c, Idle) /\ PropsMutex(c, Idle)
        BY <1>1, <1>6, <2>4, IdleShape DEF DeviceMutex, PropsMutex, devVars, At, Holds, InMutex
    <3> QED
        BY <1>1, <1>7, <2>1, <2>4, <3>1, MoveTyped DEF Inv, DataTyped, devVars
  <2> QED
      BY <2>2, <2>3, <2>4 DEF timeout
<1>9. DataTyped'
    BY <1>1, <1>3, <1>4, <1>8 DEF DataTyped
<1>10. AgreeInv'
    BY <1>8, TimeoutAgree
<1> QED
    BY <1>8, <1>9, <1>10 DEF Inv, Typed

-----------------------------------------------------------------------------
(* The service performs the oldest request of a device.                    *)
LEMMA performStep ==
    ASSUME Inv, NEW d \in Devices, perform(d)
    PROVE  Inv'
<1> DEFINE r == Head(queue[d])
<1>1. /\ Typed /\ DataTyped /\ queue[d] # <<>> /\ queue[d] \in Seq(Requests)
      /\ queue' = [queue EXCEPT ![d] = Tail(@)]
      /\ UNCHANGED <<defaultDevice, claimInfo, owner, mu, props, call>>
    BY DEF perform, devVars, Inv, Typed, DataTyped
<1>2. /\ r \in Requests /\ r = queue[d][1] /\ Tail(queue[d]) \in Seq(Requests)
      /\ Len(queue[d]) \in Nat \ {0} /\ Len(Tail(queue[d])) = Len(queue[d]) - 1
      /\ \A i \in 1..Len(Tail(queue[d])) : Tail(queue[d])[i] = queue[d][i + 1]
    BY <1>1, HeadTailProperties, LenProperties
<1>3. PICK a \in {"ok", "error", "claimed"} :
          /\ reply' = [g \in Goroutines |-> IF g = r.call THEN a ELSE reply[g]]
          /\ \/ /\ r.op = "claim" /\ hardware[d] = None /\ a = "ok"
                /\ hardware' = [hardware EXCEPT ![d] = r.user]
                /\ stray' = [stray EXCEPT ![d] = stray[d] \/ r.call = None]
                /\ UNCHANGED verifying
             \/ /\ r.op = "claim" /\ hardware[d] = None /\ a = "error"
                /\ UNCHANGED <<hardware, verifying, stray>>
             \/ /\ r.op = "claim" /\ hardware[d] # None /\ a = "claimed"
                /\ UNCHANGED <<hardware, verifying, stray>>
             \/ /\ r.op = "release" /\ hardware' = [hardware EXCEPT ![d] = None]
                /\ stray' = [stray EXCEPT ![d] = FALSE]
                /\ verifying' = [verifying EXCEPT ![d] = FALSE]
             \/ /\ r.op = "release" /\ stray' = [stray EXCEPT ![d] = hardware[d] # None]
                /\ UNCHANGED <<hardware, verifying>>
             \/ /\ r.op \in {"Verify", "StopVerify"} /\ UNCHANGED <<hardware, stray>>
                /\ \E b \in BOOLEAN : verifying' = [verifying EXCEPT ![d] = b]
  <2>1. (hardware[d] # None) \in BOOLEAN
      OBVIOUS
  <2> QED
      BY <2>1 DEF perform
<1>4. /\ r.user \in Users \cup {None} /\ r.op \in {"claim", "release", "Verify", "StopVerify"}
      /\ r.call \in Goroutines \cup {None}
    BY <1>2 DEF Requests
<1> DEFINE c == r.call
<1> HIDE DEF r
<1>5. DataTyped'
  <2>1. DOMAIN queue' = Devices /\ \A e \in Devices : queue'[e] \in Seq(Requests)
      BY <1>1, <1>2 DEF DataTyped
  <2>2. reply' \in [Goroutines -> Replies]
      BY <1>1, <1>3 DEF DataTyped, Replies
  <2>3. hardware' \in [Devices -> Users \cup {None}]
      BY <1>1, <1>3, <1>4 DEF DataTyped
  <2>4. verifying' \in [Devices -> BOOLEAN]
      BY <1>1, <1>3 DEF DataTyped
  <2>5. stray' \in [Devices -> BOOLEAN]
      BY <1>1, <1>3 DEF DataTyped
  <2> QED
      BY <1>1, <2>1, <2>2, <2>3, <2>4, <2>5 DEF DataTyped
<1>6. Typed'
    BY <1>1, <1>5, StillTyped DEF Typed
<1>7. Awaited /\ ClaimsFree /\ Answered /\ Agree
    BY DEF Inv, AgreeInv
<1>8. /\ \A e \in Devices : e # d => queue'[e] = queue[e]
      /\ DOMAIN queue[d] = 1..Len(queue[d]) /\ DOMAIN queue'[d] = 1..(Len(queue[d]) - 1)
      /\ \A i \in DOMAIN queue'[d] : /\ i \in Nat /\ i + 1 \in DOMAIN queue[d]
                                     /\ queue'[d][i] = queue[d][i + 1]
      /\ \A i \in DOMAIN queue[d] : i # 1 => i - 1 \in DOMAIN queue'[d] /\ i - 1 + 1 = i
      /\ 1 \in DOMAIN queue[d]
  <2>1. queue'[d] = Tail(queue[d]) /\ \A e \in Devices : e # d => queue'[e] = queue[e]
      BY <1>1 DEF DataTyped
  <2>2. DOMAIN queue[d] = 1..Len(queue[d]) /\ DOMAIN queue'[d] = 1..(Len(queue[d]) - 1)
      BY <1>1, <1>2, <2>1, LenProperties
  <2>3. \A i \in DOMAIN queue'[d] : /\ i \in Nat /\ i + 1 \in DOMAIN queue[d]
                                    /\ queue'[d][i] = queue[d][i + 1]
      BY <1>2, <2>1, <2>2
  <2>4. \A i \in DOMAIN queue[d] : i # 1 => i - 1 \in DOMAIN queue'[d] /\ i - 1 + 1 = i
      BY <1>2, <2>2
  <2>5. 1 \in DOMAIN queue[d]
      BY <1>2, <2>2
  <2> QED
      BY <2>1, <2>2, <2>3, <2>4, <2>5
<1>9. /\ \A e \in Devices : e # d => hardware'[e] = hardware[e] /\ stray'[e] = stray[e]
      /\ r.op \notin Ownership => hardware' = hardware /\ stray' = stray
      /\ \A g \in Goroutines : reply'[g] = IF g = c THEN a ELSE reply[g]
    BY <1>1, <1>3 DEF DataTyped, Ownership
<1>10. c # None => /\ c \in Goroutines /\ call[c].dev = d /\ call[c].pc = Place(r.op)
                   /\ reply[c] = "none"
                   /\ r.op = "claim" => r.user = call[c].user
                   /\ \A j \in DOMAIN queue[d] :
                         /\ queue[d][j].call = c => j = 1
                         /\ r.op \in Ownership /\ queue[d][j].op \in Ownership => j <= 1
    BY <1>2, <1>4, <1>7, <1>8 DEF Awaited
<1>11. r.op \in Ownership /\ c # None => mu[d] = c /\ ~Pending(d)'
  <2>1. r.op \in Ownership /\ c # None => mu[d] = c
      BY <1>1, <1>10, PlaceWaits, HeldIsMine DEF Ownership
  <2>2. ASSUME r.op \in Ownership, c # None, NEW i \in DOMAIN queue'[d],
               queue'[d][i].op \in Ownership
        PROVE  FALSE
    <3>1. i + 1 <= 1 /\ i \in 1..(Len(queue[d]) - 1)
        BY <1>8, <1>10, <2>2
    <3> QED
        BY <3>1
  <2> QED
      BY <2>1, <2>2 DEF Pending, Ownership
<1>12. Pending(d)' => Pending(d)
  <2> SUFFICES ASSUME NEW i \in DOMAIN queue'[d], queue'[d][i].op \in {"claim", "release"}
               PROVE  Pending(d)
      BY DEF Pending
  <2>1. i + 1 \in DOMAIN queue[d] /\ queue[d][i + 1] = queue'[d][i]
      BY <1>8
  <2> QED
      BY <2>1 DEF Pending
<1>13. Pending(d) /\ r.op \notin Ownership => Pending(d)'
  <2> SUFFICES ASSUME r.op \notin Ownership, NEW i \in DOMAIN queue[d],
                      queue[d][i].op \in Ownership
               PROVE  Pending(d)'
      BY DEF Pending, Ownership
  <2>1. i # 1
      BY <1>2
  <2>2. i - 1 \in DOMAIN queue'[d] /\ queue'[d][i - 1] = queue[d][i]
      BY <1>8, <2>1
  <2> QED
      BY <2>2 DEF Pending, Ownership
<1>14. r.op \in Ownership => Pending(d)
    BY <1>2, <1>8 DEF Pending, Ownership
<1>15. r.op = "claim" => Unheld(d)
  <2>1. \A j \in DOMAIN queue[d] : ~(j < 1)
      BY <1>8
  <2> QED
      BY <1>2, <1>7, <1>8, <2>1 DEF ClaimsFree
<1>16. r.op \in Ownership /\ (r.op = "release" \/ c = None \/ a # "ok") => Unheld(d)'
  <2>1. CASE r.op = "release"
      BY <1>1, <1>3, <2>1 DEF Unheld, DataTyped
  <2>2. CASE r.op = "claim"
      BY <1>1, <1>3, <1>15, <2>2 DEF Unheld, DataTyped
  <2> QED
      BY <2>1, <2>2 DEF Ownership
<1> HIDE DEF c
<1>17. Awaited'
  <2> SUFFICES ASSUME NEW e \in Devices, NEW i \in DOMAIN queue'[e], queue'[e][i].call # None
               PROVE  LET q == queue'[e][i] IN
                      /\ call[q.call].dev = e /\ call[q.call].pc = Place(q.op)
                      /\ reply'[q.call] = "none"
                      /\ q.op = "claim" => q.user = call[q.call].user
                      /\ \A j \in DOMAIN queue'[e] :
                            /\ queue'[e][j].call = q.call => j = i
                            /\ q.op \in Ownership /\ queue'[e][j].op \in Ownership => j <= i
      BY <1>1 DEF Awaited
  <2>1. CASE e # d
    <3>1. queue'[e] = queue[e] /\ queue[e][i].call \in Goroutines
        BY <1>1, <1>8, <2>1, QueueTyped
    <3>2. queue[e][i].call # c
        BY <1>7, <1>10, <2>1, <3>1, FingerprintAssumption DEF Awaited
    <3> QED
        BY <1>7, <1>9, <3>1, <3>2 DEF Awaited
  <2>2. CASE e = d
    <3>1. /\ i \in Nat /\ i + 1 \in DOMAIN queue[d] /\ queue'[e][i] = queue[d][i + 1]
          /\ i + 1 # 1
        BY <1>8, <2>2
    <3>2. queue[d][i + 1].call \in Goroutines /\ queue[d][i + 1].call # None
        BY <1>1, <3>1, QueueTyped
    <3>3. queue[d][i + 1].call # c
        BY <1>10, <3>1, <3>2
    <3>4. /\ call[queue'[e][i].call].dev = d
          /\ call[queue'[e][i].call].pc = Place(queue'[e][i].op)
          /\ reply[queue'[e][i].call] = "none"
          /\ queue'[e][i].op = "claim" => queue'[e][i].user = call[queue'[e][i].call].user
          /\ \A j \in DOMAIN queue[d] :
                /\ queue[d][j].call = queue'[e][i].call => j = i + 1
                /\ queue'[e][i].op \in Ownership /\ queue[d][j].op \in Ownership => j <= i + 1
        BY <1>7, <3>1, <3>2 DEF Awaited
    <3>5. \A j \in DOMAIN queue'[e] :
              /\ queue'[e][j].call = queue'[e][i].call => j = i
              /\ queue'[e][i].op \in Ownership /\ queue'[e][j].op \in Ownership => j <= i
      <4> SUFFICES ASSUME NEW j \in DOMAIN queue'[e]
                   PROVE  /\ queue'[e][j].call = queue'[e][i].call => j = i
                          /\ queue'[e][i].op \in Ownership /\ queue'[e][j].op \in Ownership
                               => j <= i
          OBVIOUS
      <4>1. j \in Nat /\ j + 1 \in DOMAIN queue[d] /\ queue'[e][j] = queue[d][j + 1]
          BY <1>8, <2>2
      <4>2. /\ queue[d][j + 1].call = queue'[e][i].call => j + 1 = i + 1
            /\ queue'[e][i].op \in Ownership /\ queue[d][j + 1].op \in Ownership
                 => j + 1 <= i + 1
          BY <3>4, <4>1
      <4>3. (j + 1 = i + 1 => j = i) /\ (j + 1 <= i + 1 => j <= i)
          BY <3>1, <4>1
      <4> QED
          BY <4>1, <4>2, <4>3
    <3> QED
        BY <1>9, <2>2, <3>1, <3>2, <3>3, <3>4, <3>5
  <2> QED
      BY <2>1, <2>2
<1>18. ClaimsFree'
  <2> SUFFICES ASSUME NEW e \in Devices, NEW i \in DOMAIN queue'[e], queue'[e][i].op = "claim"
               PROVE  \/ Unheld(e)'
                      \/ \E j \in DOMAIN queue'[e] : j < i /\ queue'[e][j].op = "release"
      BY DEF ClaimsFree, Unheld
  <2>1. CASE e # d
      BY <1>7, <1>8, <1>9, <2>1 DEF ClaimsFree, Unheld
  <2>2. CASE e = d /\ r.op \in Ownership
      BY <1>11, <1>16, <2>2 DEF Pending
  <2>3. CASE e = d /\ r.op \notin Ownership
    <3>1. i \in Nat /\ i + 1 \in DOMAIN queue[d] /\ queue[d][i + 1].op = "claim"
        BY <1>8, <2>3
    <3>2. Unheld(d) => Unheld(d)'
        BY <1>9, <2>3 DEF Unheld
    <3>3. ASSUME NEW j \in DOMAIN queue[d], j < i + 1, queue[d][j].op = "release"
          PROVE  j - 1 \in DOMAIN queue'[d] /\ j - 1 < i /\ queue'[d][j - 1].op = "release"
      <4>1. j # 1 /\ j \in Nat
          BY <1>2, <1>8, <2>3, <3>3 DEF Ownership
      <4> QED
          BY <1>8, <3>1, <3>3, <4>1
    <3> QED
        BY <1>7, <2>3, <3>1, <3>2, <3>3 DEF ClaimsFree
  <2> QED
      BY <2>1, <2>2, <2>3
<1>19. Answered'
  <2> SUFFICES ASSUME NEW g \in Goroutines, NEW e, e = call[g].dev
               PROVE  /\ call[g].pc = "claiming" =>
                            /\ owner[e] = Nobody
                            /\ reply'[g] = "ok" => hardware'[e] = call[g].user
                            /\ reply'[g] = "claimed" => hardware'[e] # None /\ stray'[e]
                            /\ reply'[g] = "error" => Unheld(e)'
                      /\ call[g].pc = "releasing" /\ reply'[g] # "none" => Unheld(e)'
                      /\ call[g].pc \in InMutex =>
                            IF reply'[g] = "none"
                            THEN \E i \in DOMAIN queue'[e] : queue'[e][i].call = g
                            ELSE ~Pending(e)'
      BY <1>1 DEF Answered, At, Unheld
  <2>1. /\ call[g].pc = "claiming" =>
              /\ owner[e] = Nobody
              /\ reply[g] = "ok" => hardware[e] = call[g].user
              /\ reply[g] = "claimed" => hardware[e] # None /\ stray[e]
              /\ reply[g] = "error" => Unheld(e)
        /\ call[g].pc = "releasing" /\ reply[g] # "none" => Unheld(e)
        /\ call[g].pc \in InMutex =>
              IF reply[g] = "none" THEN \E i \in DOMAIN queue[e] : queue[e][i].call = g
                                   ELSE ~Pending(e)
      BY <1>7 DEF Answered, At
  <2>2. call[g].pc \in InMutex => e \in Devices /\ mu[e] = g
      BY <1>1, HeldIsMine
  <2>3. CASE call[g].pc \notin InMutex
      BY <2>3 DEF InMutex
  <2>4. CASE call[g].pc \in InMutex /\ g = c
    <3>1. /\ c # None /\ e = d /\ reply'[g] = a /\ a # "none" /\ call[g].pc = Place(r.op)
        BY <1>9, <1>10, <2>4, FingerprintAssumption
    <3>2. r.op \in Ownership
        BY <1>4, <2>4, <3>1, PlaceWaits DEF Ownership
    <3>3. /\ call[g].pc = "claiming" => r.op = "claim"
          /\ call[g].pc = "releasing" => r.op = "release"
        BY <1>4, <3>1, PlaceWaits
    <3>4. call[g].pc = "claiming" /\ a = "ok" => hardware'[d] = call[g].user
      <4> SUFFICES ASSUME call[g].pc = "claiming", a = "ok"
                   PROVE  hardware'[d] = call[g].user
          OBVIOUS
      <4>1. r.op = "claim"
          BY <3>3
      <4>2. hardware' = [hardware EXCEPT ![d] = r.user]
          BY <1>3, <4>1
      <4>3. r.user = call[g].user
          BY <1>10, <2>4, <3>1, <4>1
      <4> QED
          BY <1>1, <4>2, <4>3 DEF DataTyped
    <3>5. call[g].pc = "claiming" /\ a = "claimed" => hardware'[d] # None /\ stray'[d]
        BY <1>3, <1>15, <3>3 DEF Unheld
    <3> QED
        BY <1>11, <1>16, <2>1, <3>1, <3>2, <3>3, <3>4, <3>5
  <2>5. CASE call[g].pc \in InMutex /\ g # c /\ e # d
    <3>1. reply'[g] = reply[g] /\ queue'[e] = queue[e]
        BY <1>8, <1>9, <2>2, <2>5
    <3>2. hardware'[e] = hardware[e] /\ stray'[e] = stray[e] /\ (Pending(e)' <=> Pending(e))
        BY <1>9, <2>2, <2>5, <3>1 DEF Pending
    <3> QED
        BY <2>1, <2>5, <3>1, <3>2 DEF Unheld
  <2>6. CASE call[g].pc \in InMutex /\ g # c /\ e = d
    <3>1. reply'[g] = reply[g]
        BY <1>9, <2>6
    <3>2. CASE reply[g] = "none"
      <4>1. PICK i \in DOMAIN queue[d] : queue[d][i].call = g
          BY <2>1, <2>6, <3>2
      <4>2. i # 1
          BY <1>2, <2>6, <4>1 DEF c
      <4>3. i - 1 \in DOMAIN queue'[d] /\ queue'[d][i - 1] = queue[d][i]
          BY <1>8, <4>2
      <4> QED
          BY <2>1, <2>6, <3>1, <3>2, <4>1, <4>3
    <3>3. CASE reply[g] # "none"
      <4>1. ~Pending(d)
          BY <2>1, <2>6, <3>3
      <4>2. r.op \notin Ownership
          BY <1>14, <4>1
      <4> QED
        <5>1. ~Pending(e)' /\ hardware'[e] = hardware[e] /\ stray'[e] = stray[e]
            BY <1>9, <1>12, <2>6, <4>1, <4>2 DEF Pending
        <5> QED
            BY <2>1, <3>1, <3>3, <5>1 DEF Unheld
    <3> QED
        BY <3>2, <3>3
  <2> QED
      BY <2>3, <2>4, <2>5, <2>6
<1>20. Agree'
  <2> SUFFICES ASSUME NEW e \in Devices, mu[e] = None
               PROVE  /\ isClaimed(e) => hardware'[e] # None /\ ~Pending(e)'
                      /\ stray'[e] \/ Pending(e)' \/ hardware'[e] = owner[e].user
      BY <1>1 DEF Agree, isClaimed
  <2>1. CASE e # d
      BY <1>7, <1>8, <1>9, <2>1 DEF Agree, Pending
  <2>2. CASE e = d /\ isClaimed(d)
      BY <1>7, <1>9, <1>12, <1>14, <2>2 DEF Agree
  <2>3. CASE e = d /\ ~isClaimed(d) /\ r.op \notin Ownership
      BY <1>7, <1>9, <1>13, <2>3 DEF Agree
  <2>4. CASE e = d /\ ~isClaimed(d) /\ r.op \in Ownership
    <3>1. Unheld(d)'
        BY <1>10, <1>11, <1>16, <2>4, FingerprintAssumption
    <3> QED
        BY <2>4, <3>1 DEF Unheld, isClaimed, Nobody
  <2> QED
      BY <2>1, <2>2, <2>3, <2>4
<1> QED
    BY <1>6, <1>17, <1>18, <1>19, <1>20 DEF Inv, AgreeInv

(* Fingers that are compared, and what is told of them, leave this alone.  *)
LEMMA OtherStep ==
    ASSUME Inv, UNCHANGED <<defaultDevice, claimInfo, owner, mu, props, call, queue, hardware,
                            stray, reply>>,
           verifying' \in [Devices -> BOOLEAN]
    PROVE  Inv'
<1>1. Typed'
    BY StillTyped DEF Inv, Typed, DataTyped
<1>2. AgreeInv'
    BY DEF Inv, AgreeInv, Awaited, ClaimsFree, Answered, Agree, At, Pending, Unheld, isClaimed
<1> QED
    BY <1>1, <1>2 DEF Inv

LEMMA InvNext == Inv /\ [Next]_vars => Inv'
<1> SUFFICES ASSUME Inv, [Next]_vars PROVE Inv'
    OBVIOUS
<1>1. verifying \in [Devices -> BOOLEAN]
    BY DEF Inv, Typed, DataTyped
<1>2. CASE UNCHANGED vars
    BY <1>1, <1>2, OtherStep DEF vars, devVars, hwVars
<1>3. ASSUME NEW c \in Goroutines, Step(c) PROVE Inv'
    BY <1>3, getDefaultDeviceStep, checkFreeStep, readClaimInfoStep, releaseStep, releasedStep, claimStep, claimedStep,
       noteClaimStep, checkClaimedStep, useDeviceStep, usedStep, checkUnclaimedStep, selectStep
       DEF Step
<1>4. ASSUME NEW d \in Devices, compare(d) PROVE Inv'
    BY <1>1, <1>4, OtherStep DEF compare, devVars
<1>5. CASE tellVerifyStatus
    BY <1>1, <1>5, OtherStep DEF tellVerifyStatus, devVars, hwVars
<1> QED
    BY <1>2, <1>3, <1>4, <1>5, BeginStep, NameLostStep, SetDefaultDeviceStep, timeoutStep,
       performStep DEF Next

LEMMA InvAlways == Spec => []Inv
<1> QED
    BY InvInit, InvNext, PTL DEF Spec

-----------------------------------------------------------------------------
(* A claimed device has a client and a user, and a goroutine holds the     *)
(* mutex of a device, or PropsMu, in exactly the steps that need it.       *)
THEOREM TypeCorrect == Spec => []TypeOK
<1>1. Inv => TypeOK
    BY InvTypeOK DEF Inv
<1> QED
    BY <1>1, InvAlways, PTL

(* For a device that no claim and no release is going on for: what the     *)
(* daemon gave to a client, the fprint service has claimed; and the two    *)
(* agree on the user, unless a request that timed out is on its way or a   *)
(* claim went astray by a timeout or a refused release and none was        *)
(* performed since, whichever calls, refusals, timeouts and lost clients   *)
(* interleave.                                                             *)
THEOREM ServiceAgrees == Spec => []HardwareAgrees
    BY InvAgrees, InvAlways, PTL
=============================================================================
