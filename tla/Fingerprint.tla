---------------------------- MODULE Fingerprint ----------------------------
(***************************************************************************)
(* The fingerprint service (service/fingerprint): who may use a device.    *)
(* The Manager gives a D-Bus client the default device (Claim), remembers  *)
(* the last client it gave one to (claimInfo), and releases the device of  *)
(* a client that leaves the bus. A device (baseDevice, with the methods of *)
(* FprintdDevice) keeps its client and user under a mutex, and forwards    *)
(* each claim and release to the fprint service, waiting three seconds for *)
(* the answer.                                                             *)
(*                                                                         *)
(* Every call, and the handler of a lost name, is a goroutine c. The       *)
(* fprint service is not in this repository: it performs the requests of a *)
(* device in the order they were sent, may refuse a claim or a release,    *)
(* and may be slower than the three seconds, or stop answering.            *)
(***************************************************************************)
EXTENDS Naturals, Sequences, FiniteSets

CONSTANTS
    Senders,      \* unique names of clients on the bus
    Users,        \* the users a device is claimed for
    Devices,      \* allDevices
    Goroutines,   \* goroutines for calls and for lost names
    Methods,      \* the calls made: "Claim", "Release", "Verify",
                  \* "StopVerify", "NameLost" and "SetDefaultDevice"
    MaxCalls,     \* bound on the calls
    MaxTimeouts,  \* bound on the answers that come too late
    MaxStatuses,  \* bound on the results of verifications
    None          \* no client, no user, no device

ASSUME FingerprintAssumption ==
    /\ None \notin Senders \cup Users \cup Devices \cup Goroutines
    /\ Devices # {}
    /\ Methods \subseteq {"Claim", "Release", "Verify", "StopVerify", "NameLost",
                          "SetDefaultDevice"}
    /\ MaxCalls \in Nat /\ MaxTimeouts \in Nat /\ MaxStatuses \in Nat

VARIABLES
    defaultDevice,  \* Manager.defaultDevice
    claimInfo,      \* Manager.claimInfo
    owner,          \* per device: sender and user of baseDevice
    mu,             \* per device: the goroutine that holds baseDevice.mu
    props,          \* the goroutine that holds PropsMu
    call,           \* per goroutine: the call it makes and where it is in it
    queue,          \* per device: requests that the service has not performed
    reply,          \* per goroutine: the answer to its request
    hardware,       \* per device: the user the service has claimed it for
    verifying,      \* per device: the service compares fingers
    stray,          \* history, per device: a claim nobody waited for was
                    \* performed, or a release was refused, and no release since
    found,          \* results of verifications, on their way to the handler
    told,           \* history: user compared, and user named in VerifyStatus
    calls, timeouts \* numbers of calls made and of answers that came too late

devVars == <<owner, mu>>
hwVars == <<queue, hardware, verifying, stray>>
statusVars == <<found, told>>
vars == <<defaultDevice, claimInfo, devVars, props, call, hwVars, reply,
          statusVars, calls, timeouts>>

Nobody == [sender |-> None, user |-> None]
(* A goroutine: its method, step, client, user and device, and the client  *)
(* in whose name it releases.                                              *)
Idle == [op |-> "none", pc |-> "idle", sender |-> None, user |-> None, dev |-> None,
         releaser |-> None]

Init ==
    /\ defaultDevice \in Devices
    /\ claimInfo = Nobody
    /\ owner = [d \in Devices |-> Nobody]
    /\ mu = [d \in Devices |-> None]
    /\ props = None
    /\ call = [c \in Goroutines |-> Idle]
    /\ queue = [d \in Devices |-> <<>>]
    /\ reply = [c \in Goroutines |-> "none"]
    /\ hardware = [d \in Devices |-> None]
    /\ verifying = [d \in Devices |-> FALSE]
    /\ stray = [d \in Devices |-> FALSE]
    /\ found = {}
    /\ told = {}
    /\ calls = 0
    /\ timeouts = 0

-----------------------------------------------------------------------------
At(c, pc) == call[c].pc = pc
Goto(c, pc) == call' = [call EXCEPT ![c].pc = pc]
Return(c) == call' = [call EXCEPT ![c] = Idle]
isClaimed(d) == owner[d] # Nobody

(* A client calls a method: getDefaultDevice waits for PropsMu.            *)
Begin(c) ==
    /\ At(c, "idle") /\ calls < MaxCalls
    /\ \E s \in Senders, u \in Users, m \in Methods \ {"NameLost", "SetDefaultDevice"} :
          call' = [call EXCEPT ![c] = [op |-> m, pc |-> "getDefault", sender |-> s,
                                       user |-> IF m \in {"Claim", "Release"} THEN u ELSE None,
                                       dev |-> None, releaser |-> s]]
    /\ calls' = calls + 1
    /\ UNCHANGED <<defaultDevice, claimInfo, devVars, props, hwVars, reply, statusVars,
                   timeouts>>

FirstStep(op) ==
    CASE op = "Claim" -> "isClaimed"
      [] op = "Release" -> "release"
      [] OTHER -> "checkClaimed"

getDefaultDevice(c) ==
    /\ At(c, "getDefault") /\ props = None
    /\ call' = [call EXCEPT ![c].dev = defaultDevice, ![c].pc = FirstStep(call[c].op)]
    /\ UNCHANGED <<defaultDevice, claimInfo, devVars, props, hwVars, reply, statusVars,
                   calls, timeouts>>

(* Claim(true): a device that is claimed is released first.                *)
checkFree(c) ==
    /\ At(c, "isClaimed") /\ mu[call[c].dev] = None
    /\ Goto(c, IF isClaimed(call[c].dev) THEN "claimInfo" ELSE "claim")
    /\ UNCHANGED <<defaultDevice, claimInfo, devVars, props, hwVars, reply, statusVars,
                   calls, timeouts>>

(* It is released in the name of the client in claimInfo.                  *)
readClaimInfo(c) ==
    /\ At(c, "claimInfo")
    /\ call' = [call EXCEPT ![c].releaser = claimInfo.sender, ![c].pc = "release"]
    /\ UNCHANGED <<defaultDevice, claimInfo, devVars, props, hwVars, reply, statusVars,
                   calls, timeouts>>

Request(c, op) ==
    LET d == call[c].dev
    IN  /\ mu' = [mu EXCEPT ![d] = c]
        /\ queue' = [queue EXCEPT ![d] = Append(@, [op |-> op, call |-> c,
                       user |-> IF op = "claim" THEN call[c].user ELSE owner[d].user])]
        /\ reply' = [reply EXCEPT ![c] = "none"]

(* baseDevice.claim with claimed false: only the client may release.       *)
release(c) ==
    /\ At(c, "release") /\ mu[call[c].dev] = None
    /\ IF isClaimed(call[c].dev) /\ owner[call[c].dev].sender = call[c].releaser
       THEN Request(c, "release") /\ Goto(c, "releasing")
       ELSE Return(c) /\ UNCHANGED <<mu, queue, reply>>
    /\ UNCHANGED <<defaultDevice, claimInfo, owner, props, hardware, verifying, stray, statusVars,
                   calls, timeouts>>

Unlock(c) == mu' = [mu EXCEPT ![call[c].dev] = None]
Received(c) == reply' = [reply EXCEPT ![c] = "none"]

(* Mutant: the mutex stays locked when a Claim goes on to claim.           *)
ReleasedHeld(c) ==
    /\ owner' = [owner EXCEPT ![call[c].dev] = Nobody]
    /\ IF call[c].op = "Claim" THEN Goto(c, "claim") /\ UNCHANGED mu
                               ELSE Return(c) /\ Unlock(c)

(* The device counts as released whatever the service answers.             *)
Released(c) ==
    /\ owner' = [owner EXCEPT ![call[c].dev] = Nobody]
    /\ Unlock(c)
    /\ IF call[c].op = "Claim" THEN Goto(c, "claim") ELSE Return(c)

released(c) ==
    /\ At(c, "releasing") /\ reply[c] # "none"
    /\ Released(c) /\ Received(c)
    /\ UNCHANGED <<defaultDevice, claimInfo, props, hwVars, statusVars, calls, timeouts>>

(* baseDevice.claim with claimed true.                                     *)
claim(c) ==
    /\ At(c, "claim") /\ mu[call[c].dev] = None
    /\ IF isClaimed(call[c].dev)
       THEN Return(c) /\ UNCHANGED <<mu, queue, reply>>
       ELSE Request(c, "claim") /\ Goto(c, "claiming")
    /\ UNCHANGED <<defaultDevice, claimInfo, owner, props, hardware, verifying, stray, statusVars,
                   calls, timeouts>>

(* Mutant: a claim that the service refused counts as a success.           *)
claimedAnyway(c) ==
    /\ At(c, "claiming") /\ reply[c] # "none"
    /\ owner' = [owner EXCEPT ![call[c].dev] =
                            [sender |-> call[c].sender, user |-> call[c].user]]
    /\ Goto(c, "note")
    /\ Unlock(c) /\ Received(c)
    /\ UNCHANGED <<defaultDevice, claimInfo, props, hwVars, statusVars, calls, timeouts>>

(* The answer that the device is claimed already counts as a success.      *)
claimed(c) ==
    /\ At(c, "claiming") /\ reply[c] # "none"
    /\ IF reply[c] = "error"
       THEN Return(c) /\ UNCHANGED owner
       ELSE /\ owner' = [owner EXCEPT ![call[c].dev] =
                            [sender |-> call[c].sender, user |-> call[c].user]]
            /\ Goto(c, "note")
    /\ Unlock(c) /\ Received(c)
    /\ UNCHANGED <<defaultDevice, claimInfo, props, hwVars, statusVars, calls, timeouts>>

(* The service has performed the claim of c, which gives up all the same.  *)
Unwanted(c, d) == At(c, "claiming") /\ call[c].dev = d /\ reply[c] = "ok"

(* Mutant: a release waits until the service answers.                      *)
timeoutClaimOnly(c) ==
    /\ timeouts < MaxTimeouts /\ Received(c)
    /\ \/ At(c, "claiming") /\ Return(c) /\ Unlock(c) /\ UNCHANGED owner
       \/ At(c, "stopping") /\ Return(c) /\ UNCHANGED devVars
    /\ queue' = [d \in Devices |-> SelectSeq(queue[d], LAMBDA r : r.call # c)]
    /\ timeouts' = timeouts + 1
    /\ stray' = [d \in Devices |-> stray[d] \/ Unwanted(c, d)]
    /\ UNCHANGED <<defaultDevice, claimInfo, props, hardware, verifying, statusVars, calls>>

(* Three seconds have passed: a claim has failed, a release is done. The   *)
(* service will still perform the request, or has done so just now.        *)
timeout(c) ==
    /\ timeouts < MaxTimeouts /\ Received(c)
    /\ \/ At(c, "claiming") /\ Return(c) /\ Unlock(c) /\ UNCHANGED owner
       \/ At(c, "releasing") /\ Released(c)
       \/ At(c, "stopping") /\ Return(c) /\ UNCHANGED devVars
    /\ queue' = [d \in Devices |-> [i \in 1..Len(queue[d]) |->
                    IF queue[d][i].call = c THEN [queue[d][i] EXCEPT !.call = None]
                                            ELSE queue[d][i]]]
    /\ timeouts' = timeouts + 1
    /\ stray' = [d \in Devices |-> stray[d] \/ Unwanted(c, d)]
    /\ UNCHANGED <<defaultDevice, claimInfo, props, hardware, verifying, statusVars, calls>>

(* Manager.Claim notes the client when the device is its own already.      *)
noteClaim(c) ==
    /\ At(c, "note")
    /\ claimInfo' = [sender |-> call[c].sender, user |-> call[c].user]
    /\ Return(c)
    /\ UNCHANGED <<defaultDevice, devVars, props, hwVars, reply, statusVars, calls, timeouts>>

-----------------------------------------------------------------------------
(* Verify and StopVerify: only the client of the device may.               *)
checkClaimed(c) ==
    /\ At(c, "checkClaimed") /\ mu[call[c].dev] = None
    /\ IF isClaimed(call[c].dev) /\ owner[call[c].dev].sender = call[c].sender
       THEN Goto(c, "use") ELSE Return(c)
    /\ UNCHANGED <<defaultDevice, claimInfo, devVars, props, hwVars, reply, statusVars,
                   calls, timeouts>>

(* Only StopVerify gives up after three seconds.                           *)
useDevice(c) ==
    /\ At(c, "use")
    /\ queue' = [queue EXCEPT ![call[c].dev] =
                    Append(@, [op |-> call[c].op, call |-> c, user |-> None])]
    /\ reply' = [reply EXCEPT ![c] = "none"]
    /\ Goto(c, IF call[c].op = "Verify" THEN "starting" ELSE "stopping")
    /\ UNCHANGED <<defaultDevice, claimInfo, devVars, props, hardware, verifying, stray, statusVars,
                   calls, timeouts>>

used(c) ==
    /\ At(c, "starting") \/ At(c, "stopping")
    /\ reply[c] # "none"
    /\ Return(c) /\ Received(c)
    /\ UNCHANGED <<defaultDevice, claimInfo, devVars, props, hwVars, statusVars, calls,
                   timeouts>>

(* handleNameLost of the device that the lost client has claimed.          *)
NameLost(c) ==
    /\ "NameLost" \in Methods /\ At(c, "idle") /\ calls < MaxCalls
    /\ \E s \in Senders, d \in Devices :
          /\ owner[d].sender = s /\ mu[d] = None
          /\ mu' = [mu EXCEPT ![d] = c]
          /\ queue' = [queue EXCEPT ![d] = Append(@, [op |-> "release", call |-> c,
                                                      user |-> owner[d].user])]
          /\ call' = [call EXCEPT ![c] = [op |-> "NameLost", pc |-> "releasing",
                                          sender |-> s, user |-> None, dev |-> d,
                                          releaser |-> s]]
    /\ reply' = [reply EXCEPT ![c] = "none"]
    /\ calls' = calls + 1
    /\ UNCHANGED <<defaultDevice, claimInfo, owner, props, hardware, verifying, stray, statusVars,
                   timeouts>>

(* SetDefaultDevice, all of it with PropsMu held.                          *)
SetDefaultDevice(c) ==
    /\ "SetDefaultDevice" \in Methods /\ At(c, "idle") /\ calls < MaxCalls /\ props = None
    /\ \E d \in Devices :
          call' = [call EXCEPT ![c] = [op |-> "SetDefaultDevice", pc |-> "checkNew",
                                       sender |-> None, user |-> None, dev |-> d,
                                       releaser |-> None]]
    /\ props' = c
    /\ calls' = calls + 1
    /\ UNCHANGED <<defaultDevice, claimInfo, devVars, hwVars, reply, statusVars, timeouts>>

(* Neither the new default device nor the old one may be claimed.          *)
checkUnclaimed(c) ==
    /\ \E d \in Devices, next \in {"checkOld", "select"} :
          /\ \/ At(c, "checkNew") /\ d = call[c].dev /\ next = "checkOld"
             \/ At(c, "checkOld") /\ d = defaultDevice /\ next = "select"
          /\ mu[d] = None
          /\ IF isClaimed(d) THEN Return(c) /\ props' = None
                             ELSE Goto(c, next) /\ UNCHANGED props
    /\ UNCHANGED <<defaultDevice, claimInfo, devVars, hwVars, reply, statusVars, calls,
                   timeouts>>

select(c) ==
    /\ At(c, "select")
    /\ defaultDevice' = call[c].dev
    /\ props' = None
    /\ Return(c)
    /\ UNCHANGED <<claimInfo, devVars, hwVars, reply, statusVars, calls, timeouts>>

-----------------------------------------------------------------------------
(* The fprint service performs the oldest request of the device, and       *)
(* answers the goroutine that still waits for it. Of a release it refuses  *)
(* it keeps the claim and the verification.                                *)
perform(d) ==
    /\ queue[d] # <<>>
    /\ LET r == Head(queue[d])
           Answer(a) == reply' = [c \in Goroutines |-> IF c = r.call THEN a ELSE reply[c]]
           Hold(u) == hardware' = [hardware EXCEPT ![d] = u]
           Compare(b) == verifying' = [verifying EXCEPT ![d] = b]
           Strays(b) == stray' = [stray EXCEPT ![d] = b]
       IN  \/ /\ r.op = "claim" /\ hardware[d] = None
              /\ Hold(r.user) /\ Answer("ok") /\ Strays(stray[d] \/ r.call = None)
              /\ UNCHANGED verifying
           \/ /\ r.op = "claim" /\ hardware[d] = None
              /\ Answer("error") /\ UNCHANGED <<hardware, verifying, stray>>
           \/ /\ r.op = "claim" /\ hardware[d] # None
              /\ Answer("claimed") /\ UNCHANGED <<hardware, verifying, stray>>
           \/ r.op = "release" /\ Hold(None) /\ Compare(FALSE) /\ Answer("ok") /\ Strays(FALSE)
           \/ /\ r.op = "release"
              /\ Answer("error") /\ Strays(hardware[d] # None) /\ UNCHANGED <<hardware, verifying>>
           \/ /\ r.op = "Verify"
              /\ Compare(hardware[d] # None) /\ Answer("ok") /\ UNCHANGED <<hardware, stray>>
           \/ /\ r.op = "StopVerify"
              /\ Compare(FALSE) /\ Answer("ok") /\ UNCHANGED <<hardware, stray>>
    /\ queue' = [queue EXCEPT ![d] = Tail(@)]
    /\ UNCHANGED <<defaultDevice, claimInfo, devVars, props, call, statusVars, calls, timeouts>>

(* A finger was compared with those of the user of the device.             *)
compare(d) ==
    /\ verifying[d] /\ Cardinality(found) + Cardinality(told) < MaxStatuses
    /\ verifying' = [verifying EXCEPT ![d] = FALSE]
    /\ found' = found \cup {[dev |-> d, user |-> hardware[d]]}
    /\ UNCHANGED <<defaultDevice, claimInfo, devVars, props, call, queue, hardware, stray,
                   reply, told, calls, timeouts>>

(* The handler names the user of the device; only that of the default      *)
(* device is connected.                                                    *)
tellVerifyStatus ==
    \E s \in found :
        /\ found' = found \ {s}
        /\ told' = IF s.dev = defaultDevice
                   THEN told \cup {[of |-> s.user, to |-> owner[s.dev].user]} ELSE told
        /\ UNCHANGED <<defaultDevice, claimInfo, devVars, props, call, hwVars, reply, calls,
                       timeouts>>

-----------------------------------------------------------------------------
Step(c) ==
    \/ getDefaultDevice(c) \/ checkFree(c) \/ readClaimInfo(c) \/ release(c) \/ released(c)
    \/ claim(c) \/ claimed(c) \/ noteClaim(c)
    \/ checkClaimed(c) \/ useDevice(c) \/ used(c)
    \/ checkUnclaimed(c) \/ select(c)

Next ==
    \/ \E c \in Goroutines : \/ Begin(c) \/ NameLost(c) \/ SetDefaultDevice(c)
                             \/ Step(c) \/ timeout(c)
    \/ \E d \in Devices : perform(d) \/ compare(d)
    \/ tellVerifyStatus

Spec == Init /\ [][Next]_vars

-----------------------------------------------------------------------------
(* An answer wakes the goroutine that waits for it, or the timer does; the *)
(* mutexes of Go hand over in the end.                                     *)
FairSpec ==
    /\ Spec
    /\ \A c \in Goroutines : SF_vars(Step(c)) /\ WF_vars(timeout(c))

-----------------------------------------------------------------------------
Client == [sender : Senders \cup {None}, user : Users \cup {None}]
Steps == {"idle", "getDefault", "isClaimed", "claimInfo", "release", "releasing", "claim", "claiming",
          "note", "checkClaimed", "use", "starting", "stopping", "checkNew", "checkOld",
          "select"}
Requests == [op : {"claim", "release", "Verify", "StopVerify"},
             call : Goroutines \cup {None}, user : Users \cup {None}]

(* Type invariant: a claimed device has a client and a user, a goroutine   *)
(* holds a mutex only in the steps that need it (device.go, manager.go).   *)
TypeOK ==
    /\ defaultDevice \in Devices
    /\ claimInfo \in Client
    /\ owner \in [Devices -> [sender : Senders, user : Users] \cup {Nobody}]
    /\ mu \in [Devices -> Goroutines \cup {None}]
    /\ props \in Goroutines \cup {None}
    /\ call \in [Goroutines -> [op : Methods \cup {"none"}, pc : Steps,
                                sender : Senders \cup {None}, user : Users \cup {None},
                                dev : Devices \cup {None}, releaser : Senders \cup {None}]]
    /\ \A d \in Devices : queue[d] \in Seq(Requests)
    /\ reply \in [Goroutines -> {"none", "ok", "claimed", "error"}]
    /\ hardware \in [Devices -> Users \cup {None}]
    /\ verifying \in [Devices -> BOOLEAN]
    /\ stray \in [Devices -> BOOLEAN]
    /\ \A c \in Goroutines, d \in Devices :
          mu[d] = c <=> call[c].pc \in {"claiming", "releasing"} /\ call[c].dev = d
    /\ \A c \in Goroutines : props = c <=> call[c].pc \in {"checkNew", "checkOld", "select"}

Pending(d) == \E i \in DOMAIN queue[d] : queue[d][i].op \in {"claim", "release"}

(* While no claim or release of a device is going on: a device that the    *)
(* daemon gave to a client is claimed in the service too; and the service  *)
(* has it for the user that the daemon names, or for nobody when nobody    *)
(* has it, unless a request that timed out is still on its way, or a       *)
(* stray claim was not released since (baseDevice.claim, release and       *)
(* handleNameLost).                                                        *)
HardwareAgrees ==
    \A d \in Devices : mu[d] = None =>
        /\ isClaimed(d) => hardware[d] # None
        /\ stray[d] \/ Pending(d) \/ hardware[d] = owner[d].user

(* A VerifyStatus signal names the user whose fingers were compared        *)
(* (FprintdDevice.listenSignals).                                          *)
StatusNamesUser == \A t \in told : t.of = t.to

(* A device that is claimed is the default device: it is never changed     *)
(* while in use (setDefaultDeviceWithInfo).                                *)
DefaultInUse == \A d \in Devices : isClaimed(d) => d = defaultDevice

(* Unless a Claim is going on, it can release the device from its client   *)
(* (Manager.Claim, which names claimInfo to the device).                   *)
TakeOver ==
    \A d \in Devices :
        isClaimed(d) /\ (\A c \in Goroutines : call[c].op # "Claim")
            => owner[d].sender = claimInfo.sender

(* A claim that succeeded means that the device can be used: the service   *)
(* has it claimed for the same user (baseDevice.claim).                    *)
ClaimUsable ==
    \A d \in Devices : mu[d] = None /\ isClaimed(d) => hardware[d] = owner[d].user

(* A claim, a release, the stop of a verification and a change of the      *)
(* default device come to an end, and so does the handler of a lost name,  *)
(* whatever the service does (the timeouts of device.go and StopVerify).   *)
Bounded(c) == call[c].op \notin {"none", "Verify"}
CallsReturn == \A c \in Goroutines : Bounded(c) ~> ~Bounded(c)
=============================================================================
