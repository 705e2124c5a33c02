-------------------------- MODULE AuthClientProofs --------------------------
(***************************************************************************)
(* Proofs about AuthClient: the types; the handle is sound, tokens are     *)
(* readable and statuses current for an application that keeps Discipline  *)
(* (SoundInv); the limits converge (LimitsInv); the texts are true.        *)
(***************************************************************************)
EXTENDS AuthClient, TLAPS

CounterNames == {"calls", "charges", "reports", "faults"}

(* What the state is typed by, in parts; DaemonTyped is about the state of *)
(* the daemon and the bus, UsedTyped about the bounds.                     *)
Returned == [text : Texts \cup Users \cup {"ok", "failed", "verification failed", "pass", "fail",
                                           "unavailable"},
           flag : Flags, left : Nat]

ClientTyped ==
    /\ at \in {"idle", "session", "encrypt", "setkey", "lockinfo"}
    /\ handle \in Handle /\ alive \subseteq DOMAIN sessions
    /\ connected \subseteq alive /\ paths \subseteq DOMAIN sessions
    /\ phase \in {"none", "created", "quit", "failed"} /\ broken \in BOOLEAN
    /\ heard \in [of : Ids \cup {None}, as : Ids \cup {None},
                  code : {"none", "Success", "Failure", "Ended"}]
    /\ told = <<>> \/ told \in [of : Users, limits : [Listed -> Limit]]
    /\ ret \in Returned

DaemonTyped ==
    /\ sessions \in Seq(Session) /\ bus \in Seq(Status \cup LimitUpdated)
    /\ limits \in [Users -> [Listed -> Limit]] /\ unsent \in [Users -> Nat]
    /\ Len(sessions) <= MaxSessions

UsedTyped ==
    used \in [CounterNames -> Nat] /\ \A c \in CounterNames : used[c] \in 0..Counters[c]

(* The pointers of the handle are those of sessions that were created.     *)
Pointers ==
    /\ handle.session_proxy \in DOMAIN sessions \cup {None}
    /\ handle.session_path \in DOMAIN sessions \cup {None}
    /\ at = "session" => sessions # <<>>
    /\ at \in {"encrypt", "setkey"} => handle.session_proxy \in alive
    /\ at = "lockinfo" => handle.username \in Users

Typed == ClientTyped /\ DaemonTyped /\ UsedTyped /\ Pointers

(* The bounds are numbers.                                                 *)
LEMMA BoundsAre == /\ MaxSessions \in Nat /\ MaxCalls \in Nat /\ MaxCharges \in Nat
                   /\ MaxReports \in Nat /\ MaxFaults \in Nat /\ MaxEvents \in Nat
    BY ClientAssumption
(* There is one counter of each kind of event.                             *)
LEMMA CountersNamed == DOMAIN Counters = CounterNames
    BY DEF Counters, CounterNames
(* Each counter has a bound.                                               *)
LEMMA CountersTyped == \A c \in CounterNames : Counters[c] \in Nat
    BY BoundsAre DEF Counters, CounterNames
(* The parts make up the type invariant.                                   *)
LEMMA TypedTypeOK == Typed => TypeOK
    BY CountersNamed DEF Typed, ClientTyped, DaemonTyped, UsedTyped, TypeOK, Returned

(* They hold before the application has a handle.                          *)
LEMMA TypedInit == Init => Typed
<1> SUFFICES ASSUME Init PROVE Typed
    OBVIOUS
<1>1. ClientTyped
  <2>1. handle \in Handle /\ heard \in [of : Ids \cup {None}, as : Ids \cup {None},
                  code : {"none", "Success", "Failure", "Ended"}]
      BY DEF Init, Handle
  <2>2. ret \in Returned
      BY ClientAssumption, BoundsAre DEF Init, Returned, Ok, Value
  <2> QED BY <2>1, <2>2 DEF Init, ClientTyped
<1>2. DaemonTyped
  <2>1. sessions = <<>>
      BY DEF Init
  <2>4. sessions \in Seq(Session) /\ Len(sessions) = 0
      BY <2>1
  <2>5. Len(sessions) <= MaxSessions
      BY <2>4, BoundsAre
  <2>2. bus \in Seq(Status \cup LimitUpdated)
      BY DEF Init
  <2>3. limits \in [Users -> [Listed -> Limit]] /\ unsent \in [Users -> Nat]
      BY DEF Init, Limit
  <2> QED BY <2>2, <2>3, <2>4, <2>5 DEF DaemonTyped
<1>3. UsedTyped
  <2>1. used = [c \in CounterNames |-> 0]
      BY CountersNamed DEF Init
  <2> QED BY <2>1, CountersTyped DEF UsedTyped
<1>4. Pointers
    BY DEF Init, Pointers
<1> QED
    BY <1>1, <1>2, <1>3, <1>4 DEF Typed

(* An event is counted within its bound.                                   *)
LEMMA SpendTyped ==
    ASSUME UsedTyped, NEW c \in CounterNames, Spend(c)
    PROVE  UsedTyped'
<1>1. used' \in [CounterNames -> Nat]
    BY DEF UsedTyped, Spend
<1>2. \A n \in CounterNames : n # c => used'[n] = used[n]
    BY DEF UsedTyped, Spend
<1>3. used'[c] \in 0..Counters[c]
    BY CountersTyped DEF UsedTyped, Spend
<1>4. \A n \in CounterNames : used'[n] \in 0..Counters[n]
    BY <1>2, <1>3 DEF UsedTyped
<1> QED
    BY <1>1, <1>4 DEF UsedTyped

(* So is a call of the bus that fails.                                     *)
LEMMA FaultTyped == UsedTyped /\ Fault => UsedTyped'
    BY SpendTyped DEF Fault, CounterNames

(* So is a call of the application, on which a call of the bus may fail.   *)
LEMMA CallTyped ==
    ASSUME UsedTyped, NEW n \in 0..1, Call(n)
    PROVE  UsedTyped'
<1>1. used["calls"] \in Nat /\ used["faults"] \in Nat
    BY DEF UsedTyped, CounterNames
<1>2. used'["calls"] = used["calls"] + 1 /\ used'["faults"] = used["faults"] + n
    BY DEF Call, UsedTyped, CounterNames
<1>3. \A c \in {"charges", "reports"} : used'[c] = used[c]
    BY DEF Call, UsedTyped, CounterNames
<1>4. used' \in [CounterNames -> Nat]
  <2>1. DOMAIN used' = CounterNames /\ used' = [k \in CounterNames |-> used'[k]]
      BY DEF Call, UsedTyped
  <2>2. \A k \in CounterNames : used'[k] \in Nat
      BY <1>1, <1>2, <1>3 DEF UsedTyped, CounterNames
  <2> QED BY <2>1, <2>2
<1>5. used["calls"] < Counters["calls"] /\ used["faults"] + n <= Counters["faults"]
    BY DEF Call, Counters
<1>6. \A c \in CounterNames : Counters[c] \in Nat
    BY CountersTyped
<1>7. \A c \in {"charges", "reports"} : used[c] \in 0..Counters[c]
    BY DEF UsedTyped, CounterNames
<1>8. used'["calls"] \in 0..Counters["calls"]
    BY <1>1, <1>2, <1>5, <1>6 DEF CounterNames
<1>9. used'["faults"] \in 0..Counters["faults"]
    BY <1>1, <1>2, <1>5, <1>6 DEF CounterNames
<1> QED
    BY <1>3, <1>4, <1>7, <1>8, <1>9 DEF UsedTyped, CounterNames

(* The daemon creates a session.                                           *)
LEMMA AuthenticateTyped ==
    ASSUME DaemonTyped, NEW u \in Users, Len(sessions) < MaxSessions, Authenticate(u)
    PROVE  /\ DaemonTyped'
           /\ sessions' \in Seq(Session) /\ Len(sessions') = Len(sessions) + 1
           /\ \A i \in DOMAIN sessions : i \in DOMAIN sessions' /\ sessions'[i] = sessions[i]
           /\ sessions'[Len(sessions) + 1] = NewSession(u)
<1>1. NewSession(u) \in Session
    BY DEF NewSession, Session
<1>2. sessions \in Seq(Session) /\ sessions' = Append(sessions, NewSession(u))
    BY DEF Authenticate, DaemonTyped
<1>3. sessions' \in Seq(Session) /\ Len(sessions') = Len(sessions) + 1
    BY <1>1, <1>2
<1>4. \A i \in DOMAIN sessions : i \in DOMAIN sessions' /\ sessions'[i] = sessions[i]
    BY <1>1, <1>2
<1>5. sessions'[Len(sessions) + 1] = NewSession(u)
    BY <1>1, <1>2
<1>6. Len(sessions') <= MaxSessions
    BY <1>2, <1>3, BoundsAre
<1> QED
    BY <1>3, <1>4, <1>5, <1>6 DEF Authenticate, DaemonTyped

(* An answer of the current session.                                       *)
Proper(r) == /\ r.session \in Session
             /\ r.emits \in {<<>>, <<"Ended">>}
             /\ r.value \in Returned 

(* A call that the daemon carries out leaves a session, and adds statuses. *)
LEMMA ServesTyped ==
    ASSUME DaemonTyped, NEW r, Proper(r), handle.session_proxy \in DOMAIN sessions, Serves(r)
    PROVE  /\ DaemonTyped'
           /\ Len(sessions') = Len(sessions) /\ DOMAIN sessions' = DOMAIN sessions
<1> DEFINE i == handle.session_proxy
           new == [k \in DOMAIN r.emits |-> [kind |-> "Status", of |-> i, code |-> r.emits[k]]]
<1>0. sessions \in Seq(Session) /\ Len(sessions) <= MaxSessions /\ Len(sessions) \in Nat
    BY DEF DaemonTyped
<1>1. i \in Ids
    BY <1>0, BoundsAre DEF Ids
<1>2. new \in Seq(Status)
  <2>1. CASE r.emits = <<>>
    <3>1. new = <<>>
        BY <2>1
    <3> QED BY <3>1
  <2>2. CASE r.emits = <<"Ended">>
    <3>1. new = <<[kind |-> "Status", of |-> i, code |-> "Ended"]>>
        BY <2>2
    <3>2. [kind |-> "Status", of |-> i, code |-> "Ended"] \in Status
        BY <1>1 DEF Status
    <3> HIDE DEF new
    <3> QED BY <3>1, <3>2
  <2> QED BY <2>1, <2>2 DEF Proper
<1>3. bus' \in Seq(Status \cup LimitUpdated)
    <2>1. bus' = bus \o new
        BY DEF Serves
    <2>2. new \in Seq(Status \cup LimitUpdated)
        BY <1>2
    <2> HIDE DEF new
    <2> QED BY <2>1, <2>2 DEF DaemonTyped
<1>4. sessions' \in Seq(Session) /\ Len(sessions') = Len(sessions)
    BY DEF Serves, DaemonTyped, Proper
<1> QED
    BY <1>3, <1>4 DEF Serves, DaemonTyped
-----------------------------------------------------------------------------
(* A session that is not exported any more refuses; otherwise it answers.  *)
LEMMA AnswerProper ==
    ASSUME NEW s \in Session, NEW r, Proper(r)
    PROVE  Proper(Answer(s, r))
<1>1. Failed \in Returned
    BY ClientAssumption DEF Failed, Value, Returned
<1>2. Proper(Refuse(s))
    BY <1>1 DEF Proper, Refuse
<1> QED
    BY <1>2 DEF Answer

(* An answer of a session is proper.                                       *)
LEMMA ReplyProper ==
    ASSUME NEW s \in Session, NEW v \in {"ok", "unavailable", "pass", "fail"} \cup Users
    PROVE  Proper(Reply(s, v))
<1>1. Value(v) \in Returned
    BY ClientAssumption DEF Value, Returned
<1> QED
    BY <1>1 DEF Proper, Reply

(* So is an error.                                                         *)
LEMMA RefuseProper ==
    ASSUME NEW s \in Session
    PROVE  Proper(Refuse(s))
<1>1. Failed \in Returned
    BY ClientAssumption DEF Failed, Value, Returned
<1> QED
    BY <1>1 DEF Proper, Refuse

(* Every method of a session (auth.c:623-781) keeps the type of the        *)
(* session and returns a value of the type.                                *)
LEMMA CallsProper ==
    ASSUME NEW s \in Session, DaemonTyped
    PROVE  /\ Proper(com_deepin_daemon_authenticate_session_call_start_sync(s))
           /\ \A k \in Ids \cup {None} :
                /\ Proper(com_deepin_daemon_authenticate_session_call_set_token_sync(s, k))
                /\ Proper(com_deepin_daemon_authenticate_session_call_set_symmetric_key_sync(s, k))
           /\ \A b \in BOOLEAN :
                /\ Proper(com_deepin_daemon_authenticate_session_call_end_sync(s, b))
                /\ Proper(com_deepin_daemon_authenticate_session_call_set_quit_flag_sync(s, b))
           /\ Proper(com_deepin_daemon_authenticate_session_call_get_result_sync(s))
           /\ Proper(com_deepin_daemon_authenticate_session_call_privileges_enable_sync(s))
           /\ Proper(com_deepin_daemon_authenticate_session_call_privileges_disable_sync(s))
           /\ Proper(da_dbus_prop_get(s))
<1>1. Proper(com_deepin_daemon_authenticate_session_call_start_sync(s))
  <2>1. [s EXCEPT !.verifying = TRUE] \in Session
      BY DEF Session
  <2>2. Proper(Reply(s, "ok")) /\ Proper(Reply([s EXCEPT !.verifying = TRUE], "ok"))
      BY <2>1, ReplyProper
  <2> QED BY <2>2, AnswerProper DEF com_deepin_daemon_authenticate_session_call_start_sync
<1>2. ASSUME NEW k \in Ids \cup {None}
      PROVE  Proper(com_deepin_daemon_authenticate_session_call_set_token_sync(s, k))
  <2> DEFINE t == [s EXCEPT !.token = IF k = s.key THEN "password" ELSE "garbled"]
  <2>1. t \in Session
      BY DEF Session
  <2>2. Proper(Reply(s, "ok")) /\ Proper(Reply(t, "ok"))
      BY <2>1, ReplyProper
  <2> QED BY <2>2, AnswerProper DEF com_deepin_daemon_authenticate_session_call_set_token_sync
<1>3. ASSUME NEW k \in Ids \cup {None}
      PROVE  Proper(com_deepin_daemon_authenticate_session_call_set_symmetric_key_sync(s, k))
  <2>1. [s EXCEPT !.key = k] \in Session
      BY DEF Session
  <2>2. Proper(Reply([s EXCEPT !.key = k], "ok")) /\ Proper(Refuse(s))
      BY <2>1, ReplyProper, RefuseProper
  <2> QED BY <2>2, AnswerProper DEF com_deepin_daemon_authenticate_session_call_set_symmetric_key_sync
<1>4. ASSUME NEW b \in BOOLEAN
      PROVE  Proper(com_deepin_daemon_authenticate_session_call_end_sync(s, b))
  <2> DEFINE over == [s EXCEPT !.verifying = FALSE]
             done == [over EXCEPT !.ended = TRUE, !.exported = s.ended \/ ~s.autoQuit,
                                  !.result = "Failure"]
  <2>1. over \in Session
      BY DEF Session
  <2>2. done \in Session
      BY <2>1 DEF Session
  <2> HIDE DEF over, done
  <2>3. Proper(Reply(done, "ok")) /\ Proper(Reply(over, "ok"))
      BY <2>1, <2>2, ReplyProper
  <2>4. Proper([Reply(done, "ok") EXCEPT !.emits = <<"Ended">>])
      BY <2>3 DEF Proper, Reply
  <2> QED BY <2>3, <2>4, AnswerProper DEF com_deepin_daemon_authenticate_session_call_end_sync, over, done
<1>5. ASSUME NEW b \in BOOLEAN
      PROVE  Proper(com_deepin_daemon_authenticate_session_call_set_quit_flag_sync(s, b))
  <2>1. [s EXCEPT !.autoQuit = b] \in Session
      BY DEF Session
  <2>2. Proper(Reply([s EXCEPT !.autoQuit = b], "ok"))
      BY <2>1, ReplyProper
  <2> QED BY <2>2, AnswerProper DEF com_deepin_daemon_authenticate_session_call_set_quit_flag_sync
<1>6. Proper(com_deepin_daemon_authenticate_session_call_get_result_sync(s))
  <2>1. \A v \in {"unavailable", "pass", "fail"} : Proper(Reply(s, v))
      BY ReplyProper
  <2> QED BY <2>1, AnswerProper DEF com_deepin_daemon_authenticate_session_call_get_result_sync
<1>7. Proper(com_deepin_daemon_authenticate_session_call_privileges_enable_sync(s))
  <2>1. [s EXCEPT !.privileged = TRUE] \in Session
      BY DEF Session
  <2>2. Proper(Reply([s EXCEPT !.privileged = TRUE], "ok")) /\ Proper(Refuse(s))
      BY <2>1, ReplyProper, RefuseProper
  <2> QED BY <2>2, AnswerProper DEF com_deepin_daemon_authenticate_session_call_privileges_enable_sync
<1>8. Proper(com_deepin_daemon_authenticate_session_call_privileges_disable_sync(s))
  <2>1. [s EXCEPT !.privileged = FALSE] \in Session
      BY DEF Session
  <2>2. Proper(Reply([s EXCEPT !.privileged = FALSE], "ok"))
      BY <2>1, ReplyProper
  <2> QED BY <2>2, AnswerProper DEF com_deepin_daemon_authenticate_session_call_privileges_disable_sync
<1>9. Proper(da_dbus_prop_get(s))
  <2>1. s.user \in Users
      BY DEF Session
  <2>2. Proper(Reply(s, s.user))
      BY <2>1, ReplyProper
  <2> QED BY <2>2, AnswerProper DEF da_dbus_prop_get
<1> QED
    BY <1>1, <1>2, <1>3, <1>4, <1>5, <1>6, <1>7, <1>8, <1>9
-----------------------------------------------------------------------------
(* What most calls return.                                                 *)
LEMMA ValuesTyped == Ok \in Returned /\ Failed \in Returned
    BY ClientAssumption DEF Ok, Failed, Value, Returned

(* A step without an event.                                                *)
LEMMA UnchangedUsed == UsedTyped /\ UNCHANGED used => UsedTyped'
    BY DEF UsedTyped

(* A step in which the daemon does nothing.                                *)
LEMMA UnchangedDaemon == DaemonTyped /\ UNCHANGED daemon => DaemonTyped' /\ sessions' = sessions
    BY DEF DaemonTyped, daemon

(* da_dbus_proxy_new (auth.c:193-229) keeps the types.                     *)
LEMMA NewTyped == Typed /\ da_dbus_proxy_new => Typed'
<1> SUFFICES ASSUME Typed, da_dbus_proxy_new PROVE Typed'
    OBVIOUS
<1>1. DaemonTyped' /\ sessions' = sessions
    BY UnchangedDaemon DEF Typed, da_dbus_proxy_new
<1>2. UsedTyped'
    BY FaultTyped, UnchangedUsed DEF Typed, da_dbus_proxy_new
<1>3. ret' \in Returned /\ at' = "idle"
    BY ValuesTyped DEF da_dbus_proxy_new, Returns
<1>4. handle' \in Handle /\ handle'.session_proxy = handle.session_proxy
      /\ handle'.session_path = handle.session_path
    BY DEF da_dbus_proxy_new, Typed, ClientTyped, Handle
<1>5. ClientTyped'
    BY <1>1, <1>3, <1>4 DEF da_dbus_proxy_new, Typed, ClientTyped
<1>6. Pointers'
    BY <1>1, <1>3, <1>4 DEF Typed, Pointers
<1> QED
    BY <1>1, <1>2, <1>5, <1>6 DEF Typed

(* So does connecting a callback.                                          *)
LEMMA ConnectTyped ==
    ASSUME Typed, NEW cb \in {"limit", "status"}, da_signal_connect(cb)
    PROVE  Typed'
<1>1. DaemonTyped' /\ sessions' = sessions
    BY UnchangedDaemon DEF Typed, da_signal_connect
<1>2. UsedTyped'
    BY UnchangedUsed DEF Typed, da_signal_connect
<1>4. handle' \in Handle /\ handle'.session_proxy = handle.session_proxy
      /\ handle'.session_path = handle.session_path /\ handle'.username = handle.username
    BY DEF da_signal_connect, Typed, ClientTyped, Handle
<1>5. ClientTyped'
    BY <1>1, <1>4 DEF da_signal_connect, Typed, ClientTyped
<1>6. Pointers'
    BY <1>1, <1>4 DEF da_signal_connect, Typed, Pointers
<1> QED
    BY <1>1, <1>2, <1>5, <1>6 DEF Typed

(* da_create_authenticate: the call of Authenticate.                       *)
LEMMA CreateTyped ==
    ASSUME Typed, NEW u \in Users, da_create_authenticate(u)
    PROVE  Typed'
<1>0. Len(sessions) < MaxSessions
    BY DEF da_create_authenticate, MayCreate
<1>1. DaemonTyped' /\ DOMAIN sessions \subseteq DOMAIN sessions'
    BY <1>0, AuthenticateTyped, UnchangedDaemon DEF Typed, da_create_authenticate
<1>2. UsedTyped'
    BY FaultTyped, UnchangedUsed DEF Typed, da_create_authenticate
<1>3. CASE Authenticate(u) /\ at' = "session" /\ UNCHANGED <<phase, ret, used>>
  <2>1. sessions' # <<>>
      BY <1>0, <1>3, AuthenticateTyped DEF Typed
  <2>2. ClientTyped'
      BY <1>1, <1>3 DEF da_create_authenticate, Typed, ClientTyped
  <2>3. Pointers'
      BY <1>1, <1>3, <2>1 DEF da_create_authenticate, Typed, Pointers
  <2> QED BY <1>1, <1>2, <2>2, <2>3 DEF Typed
<1>4. CASE GiveUp
  <2>1. at' = "idle" /\ ret' \in Returned /\ phase' = "failed"
      BY <1>4, ValuesTyped DEF GiveUp, Returns
  <2>2. ClientTyped'
      BY <1>1, <2>1 DEF da_create_authenticate, Typed, ClientTyped
  <2>3. Pointers'
      BY <1>1, <2>1 DEF da_create_authenticate, Typed, Pointers
  <2> QED BY <1>1, <1>2, <2>2, <2>3 DEF Typed
<1> QED
    BY <1>3, <1>4 DEF da_create_authenticate

(* Its next call: the proxy of the session.                                *)
LEMMA NewSessionProxyTyped == Typed /\ newSessionProxy => Typed'
<1> SUFFICES ASSUME Typed, newSessionProxy PROVE Typed'
    OBVIOUS
<1> DEFINE s == Len(sessions)
<1>1. DaemonTyped' /\ sessions' = sessions
    BY UnchangedDaemon DEF Typed, newSessionProxy
<1>2. UsedTyped'
    BY FaultTyped, UnchangedUsed DEF Typed, newSessionProxy
<1>0. sessions \in Seq(Session) /\ sessions # <<>> /\ s <= MaxSessions /\ s \in Nat
    BY DEF Typed, Pointers, DaemonTyped, newSessionProxy
<1>3. s \in DOMAIN sessions /\ s \in Ids /\ sessions[s].user \in Users
  <2>1. s \in DOMAIN sessions /\ s \in 1..MaxSessions
      BY <1>0, BoundsAre
  <2>2. sessions[s] \in Session
      BY <1>0, <2>1
  <2> QED BY <2>1, <2>2 DEF Ids, Session
<1>4. CASE /\ handle' = [handle EXCEPT !.session_proxy = s, !.session_path = s,
                                          !.username = sessions[s].user]
           /\ alive' = alive \cup {s} /\ paths' = paths \cup {s}
           /\ told' = <<>> /\ at' = "encrypt" /\ UNCHANGED <<phase, ret, used>>
  <2>1. handle' \in Handle
      BY <1>3, <1>4 DEF Typed, ClientTyped, Handle
  <2>2. ClientTyped'
      BY <1>1, <1>3, <1>4, <2>1 DEF newSessionProxy, Typed, ClientTyped
  <2>3. Pointers'
      BY <1>1, <1>3, <1>4 DEF newSessionProxy, Typed, ClientTyped, Handle, Pointers
  <2> QED BY <1>1, <1>2, <2>2, <2>3 DEF Typed
<1>5. CASE /\ Fault /\ GiveUp
           /\ handle' = [handle EXCEPT !.session_proxy = None]
           /\ UNCHANGED <<alive, paths, told>>
  <2>1. handle' \in Handle
      BY <1>5 DEF Typed, ClientTyped, Handle
  <2>2. at' = "idle" /\ ret' \in Returned /\ phase' = "failed"
      BY <1>5, ValuesTyped DEF GiveUp, Returns
  <2>3. ClientTyped'
      BY <1>1, <1>5, <2>1, <2>2 DEF newSessionProxy, Typed, ClientTyped
  <2>4. Pointers'
      BY <1>1, <1>5, <2>2 DEF newSessionProxy, Typed, ClientTyped, Handle, Pointers
  <2> QED BY <1>1, <1>2, <2>3, <2>4 DEF Typed
<1> QED
    BY <1>4, <1>5 DEF newSessionProxy

(* Its next call: the key of the session.                                  *)
LEMMA EncryptKeyTyped == Typed /\ encryptKey => Typed'
<1> SUFFICES ASSUME Typed, encryptKey PROVE Typed'
    OBVIOUS
<1>1. DaemonTyped' /\ sessions' = sessions
    BY UnchangedDaemon DEF Typed, encryptKey
<1>2. UsedTyped'
    BY FaultTyped, UnchangedUsed DEF Typed, encryptKey
<1>3. handle' \in Handle /\ handle'.session_proxy = handle.session_proxy
      /\ handle'.session_path = handle.session_path
    BY DEF encryptKey, gen_rsa_pubkey, Typed, ClientTyped, Handle
<1>4. at' \in {"idle", "setkey"} /\ ret' \in Returned /\ phase' \in {phase, "failed"}
    BY ValuesTyped DEF encryptKey, GiveUp, Returns, Typed, ClientTyped
<1>5. paths' \subseteq paths
    BY DEF encryptKey
<1>6. ClientTyped'
    BY <1>1, <1>3, <1>4, <1>5 DEF encryptKey, Typed, ClientTyped
<1>7. Pointers'
    BY <1>1, <1>3, <1>4 DEF encryptKey, Typed, Pointers
<1> QED
    BY <1>1, <1>2, <1>6, <1>7 DEF Typed

(* Its last call: the key of the handle.                                   *)
LEMMA SetSymmetricKeyTyped == Typed /\ setSymmetricKey => Typed'
<1> SUFFICES ASSUME Typed, setSymmetricKey PROVE Typed'
    OBVIOUS
<1> DEFINE r == com_deepin_daemon_authenticate_session_call_set_symmetric_key_sync(
                 sessions[handle.session_proxy], handle.symmetricKey)
<1>1. handle.session_proxy \in DOMAIN sessions /\ sessions[handle.session_proxy] \in Session
    BY DEF setSymmetricKey, Typed, Pointers, DaemonTyped, ClientTyped
<1>2. Proper(r)
    BY <1>1, CallsProper DEF Typed, ClientTyped, Handle
<1>3. DaemonTyped' /\ DOMAIN sessions' = DOMAIN sessions
    BY <1>1, <1>2, ServesTyped, UnchangedDaemon DEF setSymmetricKey, Typed
<1>4. UsedTyped'
    BY FaultTyped, UnchangedUsed DEF Typed, setSymmetricKey, CreateFails
<1>5. at' = "idle" /\ ret' \in Returned /\ phase' \in {"created", "failed"} /\ paths' \subseteq paths
    BY ValuesTyped DEF setSymmetricKey, GiveUp, Returns, CreateFails
<1>8. connected' \subseteq alive
    BY DEF setSymmetricKey, CreateFails, Typed, Pointers, ClientTyped
<1>6. ClientTyped'
    BY <1>3, <1>5, <1>8 DEF setSymmetricKey, Typed, ClientTyped
<1>7. Pointers'
    BY <1>3, <1>5 DEF setSymmetricKey, Typed, Pointers
<1> QED
    BY <1>3, <1>4, <1>6, <1>7 DEF Typed
-----------------------------------------------------------------------------
(* The session of a handle that may be used.                               *)
LEMMA MayUseCurrent ==
    ASSUME Typed, MayUse
    PROVE  handle.session_proxy \in DOMAIN sessions /\ Current \in Session
<1>1. handle.session_proxy \in DOMAIN sessions /\ sessions \in Seq(Session)
    BY DEF Typed, MayUse, Pointers, DaemonTyped
<1> QED
    BY <1>1 DEF Current

(* A call of a session, carried out or not, keeps the types.               *)
LEMMA SessionCallTyped ==
    ASSUME Typed, NEW r, MayUse => Proper(r), SessionCall(r)
    PROVE  Typed'
<1>0. MayUse /\ Proper(r)
    BY DEF SessionCall
<1>1. DaemonTyped' /\ DOMAIN sessions' = DOMAIN sessions
    BY <1>0, MayUseCurrent, ServesTyped, UnchangedDaemon DEF SessionCall, Typed
<1>2. UsedTyped'
    BY CallTyped DEF Typed, SessionCall
<1>3. ret' \in Returned
    BY <1>0, ValuesTyped DEF SessionCall, Proper
<1>4. ClientTyped'
    BY <1>1, <1>3 DEF SessionCall, Dangling, Typed, ClientTyped
<1>5. Pointers'
    BY <1>1 DEF SessionCall, MayUse, Idle, Typed, Pointers
<1> QED
    BY <1>1, <1>2, <1>4, <1>5 DEF Typed

SessionAction ==
    \/ da_session_start \/ da_session_set_token \/ da_session_end \/ da_session_set_quit_flag
    \/ da_session_get_result \/ da_session_privileges_enable \/ da_session_privileges_disable
    \/ da_prop_get

(* Each of them is one call of the session.                                *)
LEMMA SessionActionCalls ==
    ASSUME Typed, SessionAction
    PROVE  \E r : SessionCall(r) /\ Proper(r)
<1>0. MayUse
    BY DEF SessionAction, da_session_start, da_session_set_token, da_session_end,
           da_session_set_quit_flag, da_session_get_result, da_session_privileges_enable,
           da_session_privileges_disable, da_prop_get, SessionCall
<1>1. Current \in Session /\ DaemonTyped /\ handle.symmetricKey \in Ids \cup {None}
    BY <1>0, MayUseCurrent DEF Typed, ClientTyped, Handle
<1> QED
    BY <1>1, CallsProper
       DEF SessionAction, da_session_start, da_session_set_token, da_session_end,
           da_session_set_quit_flag, da_session_get_result, da_session_privileges_enable,
           da_session_privileges_disable, da_prop_get

(* So do the calls of the library that are made of it.                     *)
LEMMA SessionActionTyped == Typed /\ SessionAction => Typed'
    BY SessionActionCalls, SessionCallTyped

(* da_quit_authenticate (auth.c:361-383) keeps the types.                  *)
LEMMA QuitTyped == Typed /\ da_quit_authenticate => Typed'
<1> SUFFICES ASSUME Typed, da_quit_authenticate PROVE Typed'
    OBVIOUS
<1> DEFINE r == com_deepin_daemon_authenticate_session_call_end_sync(Current, TRUE)
<1>0. MayUse /\ at = "idle" /\ at' = at
    BY DEF da_quit_authenticate, MayUse, Idle
<1>1. Proper(r)
    BY <1>0, MayUseCurrent, CallsProper DEF Typed
<1>2. DaemonTyped' /\ DOMAIN sessions' = DOMAIN sessions
    BY <1>0, <1>1, MayUseCurrent, ServesTyped, UnchangedDaemon DEF da_quit_authenticate, Typed
<1>3. UsedTyped'
    BY FaultTyped, UnchangedUsed DEF Typed, da_quit_authenticate
<1>4. ret' \in Returned /\ paths' \subseteq paths /\ alive' \subseteq alive /\ connected' \subseteq alive'
      /\ phase' \in {phase, "quit"} /\ broken' \in BOOLEAN
    BY ValuesTyped DEF da_quit_authenticate, QuitFails, unref, Dangling, Typed, ClientTyped
<1>5. handle' = handle /\ heard' = heard /\ told' = told
    BY DEF da_quit_authenticate
<1>6. ClientTyped'
    BY <1>0, <1>2, <1>4, <1>5 DEF Typed, ClientTyped
<1>7. Pointers'
    BY <1>0, <1>2, <1>5 DEF Typed, Pointers
<1> QED
    BY <1>2, <1>3, <1>6, <1>7 DEF Typed

(* So does da_dbus_proxy_free.                                             *)
LEMMA FreeTyped == Typed /\ da_dbus_proxy_free => Typed'
<1> SUFFICES ASSUME Typed, da_dbus_proxy_free PROVE Typed'
    OBVIOUS
<1>1. DaemonTyped' /\ sessions' = sessions
    BY UnchangedDaemon DEF Typed, da_dbus_proxy_free
<1>2. UsedTyped'
    BY UnchangedUsed DEF Typed, da_dbus_proxy_free
<1>3. handle' \in Handle /\ handle'.session_proxy = handle.session_proxy
      /\ handle'.session_path = handle.session_path /\ at = "idle" /\ at' = "idle"
    BY DEF da_dbus_proxy_free, Idle, Typed, ClientTyped, Handle
<1>4. paths' \subseteq paths /\ alive' \subseteq alive /\ connected' \subseteq alive' /\ broken' \in BOOLEAN
    BY DEF da_dbus_proxy_free, unref, Typed, ClientTyped
<1>5. ClientTyped'
    BY <1>1, <1>3, <1>4 DEF da_dbus_proxy_free, Typed, ClientTyped
<1>6. Pointers'
    BY <1>1, <1>3 DEF Typed, Pointers
<1> QED
    BY <1>1, <1>2, <1>5, <1>6 DEF Typed

(* A call about limits keeps the types.                                    *)
LEMMA LimitCallTyped ==
    ASSUME Typed, NEW n \in 0..1, NEW v \in Returned, limitCall(n, v)
    PROVE  Typed'
<1>1. DaemonTyped' /\ sessions' = sessions
    BY UnchangedDaemon DEF Typed, limitCall
<1>2. UsedTyped'
    BY CallTyped DEF Typed, limitCall
<1>3. ClientTyped'
    BY <1>1 DEF limitCall, Returns, Typed, ClientTyped
<1>4. Pointers'
    BY <1>1 DEF limitCall, Returns, Typed, Pointers
<1> QED
    BY <1>1, <1>2, <1>3, <1>4 DEF Typed

(* What da_get_lock_info returns.                                          *)
LEMMA LockInfoTyped ==
    ASSUME NEW f \in Flags
    PROVE  lockInfo(f) \in Returned
    BY ValuesTyped DEF lockInfo, Returned, Texts

(* What da_get_fail_prompt returns: the chances left are a number.         *)
LEMMA FailTextTyped ==
    ASSUME DaemonTyped, NEW f \in Listed, handle.username \in Users
    PROVE  failText(f) \in Returned
<1> DEFINE l == limits[handle.username][f]
           left == MaxTries[f] - l.fail_num
           n == IF MaxTries[f] # 0 /\ ~l.locked /\ left > 1 THEN left ELSE 0
           t == IF MaxTries[f] = 0 THEN "verification failed" ELSE IF l.locked THEN "locked"
                  ELSE IF left > 1 THEN "left" ELSE "one left"
<1>1. l.fail_num \in Nat /\ MaxTries[f] \in Nat /\ f \in Flags
    BY ClientAssumption DEF DaemonTyped, Limit
<1>2. n \in Nat
    BY <1>1
<1>3. t \in {"verification failed", "locked", "left", "one left"}
    OBVIOUS
<1>4. failText(f) = [flag |-> f, text |-> t, left |-> n]
    BY DEF failText, da_get_auth_limit_info
<1>5. t \in Texts \cup Users \cup {"ok", "failed", "verification failed", "pass", "fail",
                                           "unavailable"}
    BY <1>3 DEF Texts
<1>6. [flag |-> f, text |-> t, left |-> n] \in Returned
  <2> HIDE DEF n, t
  <2> QED BY <1>1, <1>2, <1>5 DEF Returned
<1> QED
    BY <1>4, <1>6

QueryAction ==
    \/ da_get_limits \/ lockInfoAgain \/ da_pre_one_key_login \/ da_auth_prop_get
    \/ \E f \in Flags : da_get_lock_info(f) \/ \E with \in BOOLEAN : da_get_fail_prompt(f, with)

(* The calls that ask the manager keep the types.                          *)
LEMMA QueryTyped == Typed /\ QueryAction => Typed'
<1> SUFFICES ASSUME Typed, QueryAction PROVE Typed'
    OBVIOUS
<1>1. CASE da_get_limits \/ da_pre_one_key_login \/ da_auth_prop_get
    BY <1>1, LimitCallTyped, ValuesTyped DEF da_get_limits, da_pre_one_key_login, da_auth_prop_get
<1>2. CASE lockInfoAgain
  <2>1. DaemonTyped' /\ sessions' = sessions
      BY <1>2, UnchangedDaemon DEF Typed, lockInfoAgain
  <2>2. UsedTyped'
      BY <1>2, FaultTyped, UnchangedUsed DEF Typed, lockInfoAgain
  <2>3. ret' \in Returned /\ at' = "idle"
      BY <1>2, ClientAssumption, LockInfoTyped, ValuesTyped DEF lockInfoAgain, Returns
  <2>4. ClientTyped'
      BY <1>2, <2>1, <2>3 DEF lockInfoAgain, Typed, ClientTyped
  <2>5. Pointers'
      BY <1>2, <2>1, <2>3 DEF lockInfoAgain, Typed, Pointers
  <2> QED BY <2>1, <2>2, <2>4, <2>5 DEF Typed
<1>3. ASSUME NEW f \in Flags, da_get_lock_info(f) PROVE Typed'
    BY <1>3, LimitCallTyped, ValuesTyped, LockInfoTyped DEF da_get_lock_info
<1>4. ASSUME NEW f \in Flags, NEW with \in BOOLEAN, da_get_fail_prompt(f, with) PROVE Typed'
  <2>1. handle.username \in Users
      BY <1>4 DEF da_get_fail_prompt, HasUser, Typed, ClientTyped, Handle
  <2>2. [flag |-> f, text |-> "verification failed", left |-> 0] \in Returned
      BY DEF Returned
  <2>3. f \in Listed => failText(f) \in Returned
      BY <2>1, FailTextTyped DEF Typed
  <2>4. CASE /\ Call(0) /\ at' = "lockinfo"
             /\ UNCHANGED <<handle, alive, connected, paths, broken, phase, heard, told, ret, daemon>>
    <3>1. DaemonTyped' /\ sessions' = sessions
        BY <2>4, UnchangedDaemon DEF Typed
    <3>2. UsedTyped'
        BY <2>4, CallTyped DEF Typed
    <3>3. ClientTyped'
        BY <2>4, <3>1 DEF Typed, ClientTyped
    <3>4. Pointers'
        BY <2>1, <2>4, <3>1 DEF Typed, Pointers
    <3> QED BY <3>1, <3>2, <3>3, <3>4 DEF Typed
  <2>5. CASE \E n \in 0..1, v \in Returned : limitCall(n, v)
      BY <2>5, LimitCallTyped
  <2>6. CASE limitCall(1, Failed) \/ limitCall(0, Failed)
      BY <2>5, <2>6, ValuesTyped
  <2>7. CASE limitCall(0, [flag |-> f, text |-> "verification failed", left |-> 0])
    <3> DEFINE v == [flag |-> f, text |-> "verification failed", left |-> 0]
    <3>1. v \in Returned
        BY <2>2
    <3>2. limitCall(0, v)
        BY <2>7
    <3> HIDE DEF v
    <3> QED BY <3>1, <3>2, LimitCallTyped
  <2>8. CASE f \in Listed /\ limitCall(0, failText(f))
      BY <2>3, <2>5, <2>8
  <2> QED BY <1>4, <2>4, <2>6, <2>7, <2>8 DEF da_get_fail_prompt
<1> QED
    BY <1>1, <1>2, <1>3, <1>4 DEF QueryAction
-----------------------------------------------------------------------------
(* The handler of LimitUpdated (auth.c:91-133) keeps the types.            *)
LEMMA LimitSignalTyped == Typed /\ signal_limit_updated_handler => Typed'
<1> SUFFICES ASSUME Typed, signal_limit_updated_handler PROVE Typed'
    OBVIOUS
<1>1. DaemonTyped' /\ sessions' = sessions
    BY DEF signal_limit_updated_handler, Typed, DaemonTyped
<1>2. UsedTyped'
    BY FaultTyped, UnchangedUsed DEF Typed, signal_limit_updated_handler
<1>3. Head(bus).of \in Users
  <2>1. Head(bus) \in Status \cup LimitUpdated
      BY DEF signal_limit_updated_handler, Typed, DaemonTyped
  <2> QED BY <2>1 DEF signal_limit_updated_handler, Status, LimitUpdated
<1>4. limits[Head(bus).of] \in [Listed -> Limit]
    BY <1>3 DEF Typed, DaemonTyped
<1>5. told' = told \/ told' \in [of : Users, limits : [Listed -> Limit]]
    BY <1>3, <1>4 DEF signal_limit_updated_handler
<1>6. ClientTyped'
    BY <1>1, <1>5 DEF signal_limit_updated_handler, Typed, ClientTyped
<1>7. Pointers'
    BY <1>1 DEF signal_limit_updated_handler, Typed, Pointers
<1> QED
    BY <1>1, <1>2, <1>6, <1>7 DEF Typed

(* So does the handler of Status (auth.c:231-247).                         *)
LEMMA StatusSignalTyped == Typed /\ signal_status_handler => Typed'
<1> SUFFICES ASSUME Typed, signal_status_handler PROVE Typed'
    OBVIOUS
<1>1. DaemonTyped' /\ sessions' = sessions
    BY DEF signal_status_handler, Typed, DaemonTyped
<1>2. UsedTyped'
    BY UnchangedUsed DEF Typed, signal_status_handler
<1>3. Head(bus).of \in Ids /\ Head(bus).code \in {"Success", "Failure", "Ended"}
  <2>1. Head(bus) \in Status \cup LimitUpdated
      BY DEF signal_status_handler, Typed, DaemonTyped
  <2> QED BY <2>1 DEF signal_status_handler, Status, LimitUpdated
<1>4. handle.session_proxy \in Ids \cup {None}
    BY DEF Typed, ClientTyped, Handle
<1>5. heard' \in [of : Ids \cup {None}, as : Ids \cup {None},
                  code : {"none", "Success", "Failure", "Ended"}]
    BY <1>3, <1>4 DEF signal_status_handler, Typed, ClientTyped
<1>6. broken' \in BOOLEAN
    BY DEF signal_status_handler
<1>7. ClientTyped'
    BY <1>1, <1>5, <1>6 DEF signal_status_handler, Typed, ClientTyped
<1>8. Pointers'
    BY <1>1 DEF signal_status_handler, Typed, Pointers
<1> QED
    BY <1>1, <1>2, <1>7, <1>8 DEF Typed

(* A step of the daemon leaves the client alone.                           *)
LEMMA ClientFrame ==
    ASSUME Typed, UNCHANGED client, DaemonTyped', UsedTyped', DOMAIN sessions' = DOMAIN sessions,
           sessions = <<>> <=> sessions' = <<>>
    PROVE  Typed'
<1>1. ClientTyped'
    BY DEF client, Typed, ClientTyped
<1>2. Pointers'
    BY DEF client, Typed, Pointers
<1> QED
    BY <1>1, <1>2 DEF Typed

(* A change of a limit keeps the types.                                    *)
LEMMA ChangeTyped ==
    ASSUME Typed, NEW u \in Users, NEW f \in Listed, NEW l \in Limit, NEW b \in BOOLEAN,
           Change(u, f, l, b), UNCHANGED client
    PROVE  Typed'
<1>1. UsedTyped'
    BY SpendTyped DEF Change, Typed, CounterNames
<1>2. limits' \in [Users -> [Listed -> Limit]]
    BY DEF Change, Typed, DaemonTyped
<1>3. unsent' \in [Users -> Nat]
    BY DEF Change, Typed, DaemonTyped
<1>4. DaemonTyped' /\ sessions' = sessions
    BY <1>2, <1>3 DEF Change, Typed, DaemonTyped
<1> QED
    BY <1>1, <1>4, ClientFrame

LimitAction ==
    \E u \in Users, f \in Listed : fail(u, f) \/ success(u, f) \/ tryReset(u, f)

(* Each of them is a change of one limit.                                  *)
LEMMA LimitActionChanges ==
    ASSUME Typed, NEW u \in Users, NEW f \in Listed
    PROVE  /\ fail(u, f) => \E l \in Limit : Change(u, f, l, TRUE)
           /\ success(u, f) => \E l \in Limit : Change(u, f, l, TRUE)
           /\ tryReset(u, f) => /\ limits[u][f].locked
                                /\ \E l \in Limit : ~l.locked /\ Change(u, f, l, FALSE)
<1>1. limits[u][f] \in Limit
    BY DEF Typed, DaemonTyped
<1>2. limits[u][f].fail_num \in Nat
    BY <1>1 DEF Limit
<1>3. ASSUME fail(u, f) PROVE \E l \in Limit : Change(u, f, l, TRUE)
  <2> DEFINE n == limits[u][f].fail_num + 1
             l == [locked |-> MaxTries[f] > 0 /\ n >= MaxTries[f], fail_num |-> n]
  <2>1. l \in Limit
      BY <1>2 DEF Limit
  <2>2. Change(u, f, l, TRUE)
      BY <1>3 DEF fail
  <2> QED BY <2>1, <2>2
<1>4. ASSUME success(u, f) PROVE \E l \in Limit : Change(u, f, l, TRUE)
  <2>1. [locked |-> FALSE, fail_num |-> 0] \in Limit
      BY DEF Limit
  <2> QED BY <1>4, <2>1 DEF success
<1>5. ASSUME tryReset(u, f) PROVE \E l \in Limit : ~l.locked /\ Change(u, f, l, FALSE)
  <2>1. \A b \in BOOLEAN : [locked |-> FALSE, fail_num |-> IF b THEN limits[u][f].fail_num ELSE 0] \in Limit
      BY <1>2 DEF Limit
  <2> QED BY <1>5, <2>1 DEF tryReset
<1> QED
    BY <1>3, <1>4, <1>5 DEF tryReset

(* The signal of a change is sent.                                         *)
LEMMA EmitLimitTyped ==
    ASSUME Typed, NEW u \in Users, emitSignalLimitUpdated(u), UNCHANGED client
    PROVE  Typed'
<1>1. unsent' \in [Users -> Nat]
    BY DEF emitSignalLimitUpdated, Typed, DaemonTyped
<1>2. [kind |-> "LimitUpdated", of |-> u] \in Status \cup LimitUpdated
    BY DEF LimitUpdated
<1>3. bus' \in Seq(Status \cup LimitUpdated)
    BY <1>2 DEF emitSignalLimitUpdated, Typed, DaemonTyped
<1>4. DaemonTyped' /\ sessions' = sessions
    BY <1>1, <1>3 DEF emitSignalLimitUpdated, Typed, DaemonTyped
<1>5. UsedTyped'
    BY UnchangedUsed DEF emitSignalLimitUpdated, Typed
<1> QED
    BY <1>4, <1>5, ClientFrame

(* A session gives a result, remembers it, and is quit.                    *)
LEMMA EmitStatusTyped ==
    ASSUME Typed, NEW i \in DOMAIN sessions, emitSignalStatus(i) \/ statusResult(i) \/ quit(i), UNCHANGED client
    PROVE  Typed'
<1>0. sessions \in Seq(Session) /\ sessions[i] \in Session /\ Len(sessions) \in Nat
    BY DEF Typed, DaemonTyped
<1>1. i \in Ids
    BY <1>0, BoundsAre DEF Ids, Typed, DaemonTyped
<1>2. CASE emitSignalStatus(i)
  <2>1. PICK code \in {"Success", "Failure"} :
          /\ sessions' = [sessions EXCEPT ![i].verifying = FALSE, ![i].unsaid = code]
          /\ bus' = IF i \in alive
                    THEN Append(bus, [kind |-> "Status", of |-> i, code |-> code]) ELSE bus
      BY <1>2 DEF emitSignalStatus
  <2> DEFINE s == [sessions[i] EXCEPT !.verifying = FALSE, !.unsaid = code]
  <2>2. s \in Session
      BY <1>0 DEF Session
  <2>3. sessions' = [sessions EXCEPT ![i] = s]
      BY <1>0, <2>1
  <2>4. sessions' \in Seq(Session) /\ Len(sessions') = Len(sessions)
      BY <1>0, <2>2, <2>3
  <2>5. [kind |-> "Status", of |-> i, code |-> code] \in Status \cup LimitUpdated
      BY <1>1 DEF Status
  <2>6. bus' \in Seq(Status \cup LimitUpdated)
      BY <2>1, <2>5 DEF Typed, DaemonTyped
  <2>7. DaemonTyped'
      BY <1>2, <2>4, <2>6 DEF emitSignalStatus, Typed, DaemonTyped
  <2>8. UsedTyped'
      BY <1>2, SpendTyped DEF emitSignalStatus, Typed, CounterNames
  <2> QED BY <1>0, <2>4, <2>7, <2>8, ClientFrame
<1>3. CASE statusResult(i)
  <2> DEFINE s == [sessions[i] EXCEPT !.result = sessions[i].unsaid, !.unsaid = "none"]
  <2>2. s \in Session
      BY <1>0 DEF Session
  <2>3. sessions' = [sessions EXCEPT ![i] = s]
      BY <1>0, <1>3 DEF statusResult
  <2>4. sessions' \in Seq(Session) /\ Len(sessions') = Len(sessions)
      BY <1>0, <2>2, <2>3
  <2>7. DaemonTyped'
      BY <1>3, <2>4 DEF statusResult, Typed, DaemonTyped
  <2>8. UsedTyped'
      BY <1>3, UnchangedUsed DEF statusResult, Typed
  <2> QED BY <1>0, <2>4, <2>7, <2>8, ClientFrame
<1>4. CASE quit(i)
  <2> DEFINE s == [sessions[i] EXCEPT !.exported = FALSE]
  <2>2. s \in Session
      BY <1>0 DEF Session
  <2>3. sessions' = [sessions EXCEPT ![i] = s]
      BY <1>0, <1>4 DEF quit
  <2>4. sessions' \in Seq(Session) /\ Len(sessions') = Len(sessions)
      BY <1>0, <2>2, <2>3
  <2>7. DaemonTyped'
      BY <1>4, <2>4 DEF quit, Typed, DaemonTyped
  <2>8. UsedTyped'
      BY <1>4, UnchangedUsed DEF quit, Typed
  <2> QED BY <1>0, <2>4, <2>7, <2>8, ClientFrame
<1> QED
    BY <1>2, <1>3, <1>4

(* The daemon keeps the types.                                             *)
LEMMA ManagerTyped == Typed /\ Manager => Typed'
    BY ChangeTyped, LimitActionChanges, EmitLimitTyped, EmitStatusTyped DEF Manager

(* Every step keeps the types.                                             *)
LEMMA TypedStep == Typed /\ [Next]_vars => Typed'
<1> SUFFICES ASSUME Typed, [Next]_vars PROVE Typed'
    OBVIOUS
<1>1. CASE SessionAction
    BY <1>1, SessionActionTyped
<1>2. CASE QueryAction
    BY <1>2, QueryTyped
<1>3. CASE Manager
    BY <1>3, ManagerTyped
<1>4. CASE da_dbus_proxy_new \/ da_dbus_proxy_free \/ da_quit_authenticate
    BY <1>4, NewTyped, FreeTyped, QuitTyped
<1>5. CASE newSessionProxy \/ encryptKey \/ setSymmetricKey
    BY <1>5, NewSessionProxyTyped, EncryptKeyTyped, SetSymmetricKeyTyped
<1>6. CASE signal_limit_updated_handler \/ signal_status_handler
    BY <1>6, LimitSignalTyped, StatusSignalTyped
<1>7. ASSUME NEW cb \in {"limit", "status"}, da_signal_connect(cb) PROVE Typed'
    BY <1>7, ConnectTyped
<1>8. ASSUME NEW u \in Users, da_create_authenticate(u) PROVE Typed'
    BY <1>8, CreateTyped
<1>9. CASE UNCHANGED vars
  <2>1. DaemonTyped' /\ UsedTyped' /\ sessions' = sessions /\ UNCHANGED client
      BY <1>9, UnchangedDaemon, UnchangedUsed DEF vars, Typed, daemon
  <2> QED BY <2>1, ClientFrame
<1> QED
    BY <1>1, <1>2, <1>3, <1>4, <1>5, <1>6, <1>7, <1>8, <1>9 DEF Next, SessionAction, QueryAction

(* The type invariant of the client library, for any users, flags, limits  *)
(* and rules of the application (auth.c, text.c).                          *)
THEOREM ClientTypeCorrect == Spec => []TypeOK
<1>1. Spec => []Typed
    BY TypedInit, TypedStep, PTL DEF Spec
<1> QED
    BY <1>1, TypedTypeOK, PTL
-----------------------------------------------------------------------------
(* While the application keeps Discipline: the handle has, between the     *)
(* creation of a session and its end, a proxy and a path that are not      *)
(* freed, only that proxy is connected, and the session has the handle's   *)
(* key; a handle without a session in use has none connected.              *)
Creating == {"session", "encrypt", "setkey"}

SoundInv ==
    /\ HandleSound /\ TokenReadable /\ StatusIsCurrent
    /\ connected \subseteq {handle.session_proxy}
    /\ phase # "created" \/ handle.state # "live" => connected = {}
    /\ at \in Creating => phase # "created" /\ handle.state = "live"
    /\ handle.state = "none" => phase # "created"
    /\ phase = "none" /\ at \notin {"encrypt", "setkey"} =>
          handle.session_proxy = None /\ handle.session_path = None
    /\ at \in {"encrypt", "setkey"} \/ (phase = "created" /\ handle.state = "live") =>
          handle.session_path \in paths /\ handle.session_proxy \in alive
    /\ phase = "created" /\ handle.state = "live" =>
          sessions[handle.session_proxy].key = handle.symmetricKey

(* The invariant holds before the application has a handle.                *)
LEMMA SoundInit == Init => SoundInv
    BY DEF Init, SoundInv, HandleSound, TokenReadable, StatusIsCurrent, Creating

(* What a call of the current session leaves of its key and token.         *)
Keeps(s, r) == r.session.key = s.key /\ (r.session.token = "garbled" => s.token = "garbled")

(* No method of a session changes its key, and SetToken with that key      *)
(* gives it a token it can decrypt.                                        *)
LEMMA CallsKeep ==
    ASSUME NEW s \in Session
    PROVE  /\ Keeps(s, com_deepin_daemon_authenticate_session_call_start_sync(s))
           /\ Keeps(s, com_deepin_daemon_authenticate_session_call_set_token_sync(s, s.key))
           /\ \A b \in BOOLEAN :
                /\ Keeps(s, com_deepin_daemon_authenticate_session_call_end_sync(s, b))
                /\ Keeps(s, com_deepin_daemon_authenticate_session_call_set_quit_flag_sync(s, b))
           /\ Keeps(s, com_deepin_daemon_authenticate_session_call_get_result_sync(s))
           /\ Keeps(s, com_deepin_daemon_authenticate_session_call_privileges_enable_sync(s))
           /\ Keeps(s, com_deepin_daemon_authenticate_session_call_privileges_disable_sync(s))
           /\ Keeps(s, da_dbus_prop_get(s))
<1>1. Keeps(s, com_deepin_daemon_authenticate_session_call_start_sync(s))
    BY DEF Keeps, Session, Answer, Reply, Refuse, com_deepin_daemon_authenticate_session_call_start_sync
<1>2. Keeps(s, com_deepin_daemon_authenticate_session_call_set_token_sync(s, s.key))
    BY DEF Keeps, Session, Answer, Reply, Refuse, com_deepin_daemon_authenticate_session_call_set_token_sync
<1>3. \A b \in BOOLEAN : Keeps(s, com_deepin_daemon_authenticate_session_call_end_sync(s, b))
  <2> SUFFICES ASSUME NEW b \in BOOLEAN
               PROVE  Keeps(s, com_deepin_daemon_authenticate_session_call_end_sync(s, b))
      OBVIOUS
  <2> DEFINE over == [s EXCEPT !.verifying = FALSE]
             done == [over EXCEPT !.ended = TRUE, !.exported = s.ended \/ ~s.autoQuit,
                                  !.result = "Failure"]
  <2>1. over.key = s.key /\ over.token = s.token /\ done.key = s.key /\ done.token = s.token
      BY DEF Session
  <2> HIDE DEF over, done
  <2>2. Keeps(s, [Reply(done, "ok") EXCEPT !.emits = <<"Ended">>]) /\ Keeps(s, Reply(over, "ok"))
      BY <2>1 DEF Keeps, Reply
  <2>3. Keeps(s, Refuse(s))
      BY DEF Keeps, Refuse
  <2> QED
      BY <2>2, <2>3 DEF Answer, com_deepin_daemon_authenticate_session_call_end_sync, over, done
<1>4. \A b \in BOOLEAN : Keeps(s, com_deepin_daemon_authenticate_session_call_set_quit_flag_sync(s, b))
    BY DEF Keeps, Session, Answer, Reply, Refuse, com_deepin_daemon_authenticate_session_call_set_quit_flag_sync
<1>5. Keeps(s, com_deepin_daemon_authenticate_session_call_get_result_sync(s))
    BY DEF Keeps, Session, Answer, Reply, Refuse, com_deepin_daemon_authenticate_session_call_get_result_sync
<1>6. /\ Keeps(s, com_deepin_daemon_authenticate_session_call_privileges_enable_sync(s))
      /\ Keeps(s, com_deepin_daemon_authenticate_session_call_privileges_disable_sync(s))
    BY DEF Keeps, Session, Answer, Reply, Refuse,
           com_deepin_daemon_authenticate_session_call_privileges_enable_sync,
           com_deepin_daemon_authenticate_session_call_privileges_disable_sync
<1>7. Keeps(s, da_dbus_prop_get(s))
    BY DEF Keeps, Answer, Reply, Refuse, da_dbus_prop_get
<1> QED
    BY <1>1, <1>2, <1>3, <1>4, <1>5, <1>6, <1>7

(* The keys stay, and a token is not made unreadable.                      *)
SessionsKept ==
    \A i \in DOMAIN sessions : /\ sessions'[i].key = sessions[i].key
                               /\ sessions'[i].token = "garbled" => sessions[i].token = "garbled"

(* The same of a call that is carried out, for all sessions.               *)
LEMMA ServesKeep ==
    ASSUME Typed, handle.session_proxy \in DOMAIN sessions, NEW r, Serves(r), Keeps(Current, r)
    PROVE  SessionsKept /\ DOMAIN sessions' = DOMAIN sessions
    BY DEF Typed, DaemonTyped, Serves, Keeps, SessionsKept, Current

(* A step that touches nothing but what a session answers.                 *)
LEMMA SoundFrame ==
    ASSUME Typed, SoundInv, DOMAIN sessions' = DOMAIN sessions, SessionsKept,
           handle' = handle, alive' = alive, connected' = connected, paths' = paths,
           broken' => broken, phase' = phase, heard'.of = heard'.as,
           at' = at \/ {at, at'} \subseteq {"idle", "lockinfo"}
    PROVE  SoundInv'
<1>1. at' \in Creating => at' = at
    BY DEF Creating
<1>2. TokenReadable'
    BY DEF SoundInv, TokenReadable, SessionsKept
<1>3. phase = "created" /\ handle.state = "live" => handle.session_proxy \in DOMAIN sessions
    BY DEF SoundInv, Typed, ClientTyped
<1>4. phase = "created" /\ handle.state = "live" =>
          sessions'[handle.session_proxy].key = handle.symmetricKey
    BY <1>3 DEF SoundInv, SessionsKept
<1> QED
    BY <1>1, <1>2, <1>4 DEF SoundInv, HandleSound, StatusIsCurrent, Creating

(* An application that uses a session only after it was created uses one   *)
(* that the handle has and whose key it knows.                             *)
LEMMA SessionSound ==
    ASSUME Discipline \subseteq Rules, Typed, SoundInv, SessionAction
    PROVE  SoundInv'
<1>0. MayUse
    BY DEF SessionAction, da_session_start, da_session_set_token, da_session_end,
           da_session_set_quit_flag, da_session_get_result, da_session_privileges_enable,
           da_session_privileges_disable, da_prop_get, SessionCall
<1>1. phase = "created" /\ handle.state = "live" /\ at = "idle"
    BY <1>0 DEF MayUse, Idle, Discipline
<1>2. handle.session_proxy \in alive /\ Current.key = handle.symmetricKey
    BY <1>1 DEF SoundInv, Current
<1>3. Current \in Session /\ handle.session_proxy \in DOMAIN sessions
    BY <1>0, MayUseCurrent
<1>4. \E r : SessionCall(r) /\ Keeps(Current, r)
    BY <1>2, <1>3, CallsKeep
       DEF SessionAction, da_session_start, da_session_set_token, da_session_end,
           da_session_set_quit_flag, da_session_get_result, da_session_privileges_enable,
           da_session_privileges_disable, da_prop_get
<1>5. PICK r : SessionCall(r) /\ Keeps(Current, r)
    BY <1>4
<1>6. SessionsKept /\ DOMAIN sessions' = DOMAIN sessions
    BY <1>3, <1>5, ServesKeep DEF SessionCall, SessionsKept, daemon
<1>7. broken' => broken
    BY <1>2, <1>5 DEF SessionCall, Dangling
<1> QED
    BY <1>1, <1>5, <1>6, <1>7, SoundFrame DEF SessionCall, SoundInv, StatusIsCurrent

(* The calls that ask the manager leave the handle alone.                  *)
LEMMA QuerySound == Typed /\ SoundInv /\ QueryAction => SoundInv'
<1> SUFFICES ASSUME Typed, SoundInv, QueryAction PROVE SoundInv'
    OBVIOUS
<1>1. UNCHANGED <<handle, alive, connected, paths, broken, phase, heard, sessions>>
    BY DEF QueryAction, da_get_limits, da_pre_one_key_login, da_auth_prop_get, lockInfoAgain,
           da_get_lock_info, da_get_fail_prompt, limitCall, daemon
<1>2. {at, at'} \subseteq {"idle", "lockinfo"}
    BY DEF QueryAction, da_get_limits, da_pre_one_key_login, da_auth_prop_get, lockInfoAgain,
           da_get_lock_info, da_get_fail_prompt, limitCall, Returns, Idle, HasUser
<1>3. SessionsKept
    BY <1>1 DEF SessionsKept
<1> QED
    BY <1>1, <1>2, <1>3, SoundFrame DEF SoundInv, HandleSound, StatusIsCurrent

(* So does the daemon.                                                     *)
LEMMA ManagerSound == Typed /\ SoundInv /\ Manager => SoundInv'
<1> SUFFICES ASSUME Typed, SoundInv, Manager PROVE SoundInv'
    OBVIOUS
<1>0. sessions \in Seq(Session)
    BY DEF Typed, DaemonTyped
<1>1. CASE sessions' = sessions
    BY <1>1, SoundFrame DEF SessionsKept, Manager, client, SoundInv, HandleSound, StatusIsCurrent
<1>2. ASSUME NEW i \in DOMAIN sessions, emitSignalStatus(i) \/ statusResult(i) \/ quit(i)
      PROVE  SoundInv'
  <2>1. SessionsKept /\ DOMAIN sessions' = DOMAIN sessions
    <3>1. CASE emitSignalStatus(i)
        BY <1>0, <3>1 DEF emitSignalStatus, SessionsKept, Session
    <3>2. CASE statusResult(i)
        BY <1>0, <3>2 DEF statusResult, SessionsKept, Session
    <3>3. CASE quit(i)
        BY <1>0, <3>3 DEF quit, SessionsKept, Session
    <3> QED BY <1>2, <3>1, <3>2, <3>3
  <2> QED
      BY <2>1, SoundFrame DEF Manager, client, SoundInv, HandleSound, StatusIsCurrent
<1> QED
    BY <1>1, <1>2 DEF Manager, emitSignalLimitUpdated, fail, success, tryReset, Change
-----------------------------------------------------------------------------
(* da_dbus_proxy_new keeps the invariant.                                  *)
LEMMA NewSound == Typed /\ SoundInv /\ da_dbus_proxy_new => SoundInv'
    BY DEF da_dbus_proxy_new, Returns, daemon, Typed, ClientTyped, Handle,
           SoundInv, HandleSound, TokenReadable, StatusIsCurrent, Creating

(* So does connecting a callback.                                          *)
LEMMA ConnectSound ==
    ASSUME Typed, SoundInv, NEW cb, da_signal_connect(cb)
    PROVE  SoundInv'
    BY DEF da_signal_connect, daemon, Typed, ClientTyped, Handle,
           SoundInv, HandleSound, TokenReadable, StatusIsCurrent, Creating

(* A session is created only when the last one was quit, or was not        *)
(* created (auth.c:250-359).                                               *)
LEMMA CreateSound ==
    ASSUME Discipline \subseteq Rules, Typed, SoundInv, NEW u \in Users, da_create_authenticate(u)
    PROVE  SoundInv'
<1>1. phase # "created" /\ handle.state = "live" /\ at = "idle" /\ Len(sessions) < MaxSessions
    BY DEF da_create_authenticate, MayCreate, Idle, Discipline
<1>2. at' \in {"session", "idle"} /\ (at' = "session" => phase' = phase)
      /\ (at' = "idle" => phase' = "failed")
    BY DEF da_create_authenticate, GiveUp, Returns
<1>3. TokenReadable'
  <2>1. CASE Authenticate(u)
    <3>1. NewSession(u).token = "none"
        BY DEF NewSession
    <3>2. \A i \in DOMAIN sessions' : i \in DOMAIN sessions \/ i = Len(sessions) + 1
        BY <2>1 DEF Authenticate, Typed, DaemonTyped
    <3> QED BY <1>1, <2>1, <3>1, <3>2, AuthenticateTyped DEF Typed, SoundInv, TokenReadable
  <2>2. CASE UNCHANGED daemon
      BY <2>2 DEF daemon, SoundInv, TokenReadable
  <2> QED BY <2>1, <2>2 DEF da_create_authenticate
<1> QED
    BY <1>1, <1>2, <1>3 DEF da_create_authenticate, SoundInv, HandleSound, StatusIsCurrent, Creating

(* The proxy and the path are those of the new session.                    *)
LEMMA NewSessionProxySound == Typed /\ SoundInv /\ newSessionProxy => SoundInv'
<1> SUFFICES ASSUME Typed, SoundInv, newSessionProxy PROVE SoundInv'
    OBVIOUS
<1>1. phase # "created" /\ handle.state = "live" /\ connected = {} /\ connected' = {}
    BY DEF newSessionProxy, SoundInv, Creating
<1>2. TokenReadable' /\ HandleSound' /\ StatusIsCurrent'
    BY <1>1 DEF newSessionProxy, daemon, SoundInv, HandleSound, TokenReadable, StatusIsCurrent
<1>3. handle \in Handle
    BY DEF Typed, ClientTyped
<1>4. CASE /\ handle' = [handle EXCEPT !.session_proxy = Len(sessions), !.session_path = Len(sessions),
                                          !.username = sessions[Len(sessions)].user]
           /\ alive' = alive \cup {Len(sessions)} /\ paths' = paths \cup {Len(sessions)}
           /\ told' = <<>> /\ at' = "encrypt" /\ UNCHANGED <<phase, ret, used>>
  <2>1. handle'.state = "live" /\ handle'.session_path \in paths' /\ handle'.session_proxy \in alive'
      BY <1>1, <1>3, <1>4 DEF Handle
  <2> QED BY <1>1, <1>2, <1>4, <2>1 DEF SoundInv, Creating
<1>5. CASE GiveUp
  <2>1. at' = "idle" /\ phase' = "failed"
      BY <1>5 DEF GiveUp, Returns
  <2> QED BY <1>1, <1>2, <2>1 DEF SoundInv, Creating
<1> QED
    BY <1>4, <1>5 DEF newSessionProxy

(* The path is freed only when the creation fails (auth.c:326-351).        *)
LEMMA EncryptKeySound == Typed /\ SoundInv /\ encryptKey => SoundInv'
<1> SUFFICES ASSUME Typed, SoundInv, encryptKey PROVE SoundInv'
    OBVIOUS
<1>1. phase # "created" /\ handle.state = "live" /\ connected = {} /\ connected' = {}
      /\ handle.session_path \in paths /\ handle.session_proxy \in alive
    BY DEF encryptKey, SoundInv, Creating
<1>2. TokenReadable' /\ HandleSound' /\ StatusIsCurrent'
    BY <1>1 DEF encryptKey, daemon, SoundInv, HandleSound, TokenReadable, StatusIsCurrent
<1>3. CASE handle' = gen_rsa_pubkey(handle) /\ at' = "setkey" /\ UNCHANGED <<paths, phase, ret, used>>
  <2>1. handle'.state = "live" /\ handle'.session_path = handle.session_path
        /\ handle'.session_proxy = handle.session_proxy
      BY <1>1, <1>3 DEF gen_rsa_pubkey, Typed, ClientTyped, Handle
  <2>2. handle'.session_path \in paths' /\ handle'.session_proxy \in alive' /\ phase' # "created"
      BY <1>1, <1>3, <2>1 DEF encryptKey
  <2> QED BY <1>1, <1>2, <1>3, <2>1, <2>2 DEF SoundInv, Creating
<1>4. CASE GiveUp
  <2>1. at' = "idle" /\ phase' = "failed"
      BY <1>4 DEF GiveUp, Returns
  <2> QED BY <1>1, <1>2, <2>1 DEF SoundInv, Creating
<1> QED
    BY <1>3, <1>4 DEF encryptKey

(* A session whose creation succeeded has the key of the handle.           *)
LEMMA SetSymmetricKeySound == Typed /\ SoundInv /\ setSymmetricKey => SoundInv'
<1> SUFFICES ASSUME Typed, SoundInv, setSymmetricKey PROVE SoundInv'
    OBVIOUS
<1> DEFINE s == sessions[handle.session_proxy]
           r == com_deepin_daemon_authenticate_session_call_set_symmetric_key_sync(s, handle.symmetricKey)
<1>1. phase # "created" /\ handle.state = "live" /\ connected = {}
      /\ handle.session_path \in paths /\ handle.session_proxy \in alive
      /\ handle.session_proxy \in DOMAIN sessions
    BY DEF setSymmetricKey, SoundInv, Creating, Typed, ClientTyped
<1>2. s \in Session /\ sessions \in Seq(Session)
    BY <1>1 DEF Typed, DaemonTyped
<1>3. r.session.token = s.token /\ (r.ok => r.session.key = handle.symmetricKey)
    BY <1>2 DEF com_deepin_daemon_authenticate_session_call_set_symmetric_key_sync,
                Answer, Reply, Refuse, Session
<1>4. HandleSound' /\ StatusIsCurrent'
    BY <1>1 DEF setSymmetricKey, SoundInv, HandleSound, StatusIsCurrent
<1>5. CASE Serves(r)
  <2>1. TokenReadable'
      BY <1>1, <1>2, <1>3, <1>5 DEF Serves, SoundInv, TokenReadable
  <2>2. sessions'[handle.session_proxy] = r.session
      BY <1>1, <1>2, <1>5 DEF Serves
  <2>3. CASE GiveUp
    <3>1. at' = "idle" /\ phase' = "failed" /\ connected' = {}
        BY <1>1, <2>3 DEF setSymmetricKey, CreateFails, GiveUp, Returns
    <3> QED BY <1>1, <1>4, <2>1, <3>1 DEF SoundInv, Creating, setSymmetricKey
  <2>4. CASE /\ r.ok /\ connected' = connected \cup {handle.session_proxy}
             /\ Returns(Ok) /\ phase' = "created" /\ UNCHANGED <<paths, used>>
    <3>1. at' = "idle" /\ handle' = handle /\ alive' = alive /\ paths' = paths
        BY <2>4 DEF setSymmetricKey, Returns
    <3> QED BY <1>1, <1>3, <1>4, <2>1, <2>2, <2>4, <3>1 DEF SoundInv, Creating
  <2> QED BY <2>3, <2>4 DEF setSymmetricKey, CreateFails
<1>6. CASE UNCHANGED daemon /\ CreateFails
  <2>1. TokenReadable'
      BY <1>6 DEF daemon, SoundInv, TokenReadable
  <2>2. at' = "idle" /\ phase' = "failed" /\ connected' = {}
      BY <1>1, <1>6 DEF CreateFails, GiveUp, Returns
  <2> QED BY <1>1, <1>4, <2>1, <2>2 DEF SoundInv, Creating, setSymmetricKey
<1> QED
    BY <1>5, <1>6 DEF setSymmetricKey

(* A session is quit once: its proxy and its path are freed, and it is     *)
(* disconnected.                                                           *)
LEMMA QuitSound ==
    ASSUME Discipline \subseteq Rules, Typed, SoundInv, da_quit_authenticate
    PROVE  SoundInv'
<1> DEFINE r == com_deepin_daemon_authenticate_session_call_end_sync(Current, TRUE)
<1>1. phase = "created" /\ handle.state = "live" /\ at = "idle" /\ MayUse
    BY DEF da_quit_authenticate, MayUse, Idle, Discipline
<1>2. handle.session_proxy \in alive /\ handle.session_path \in paths
    BY <1>1 DEF SoundInv
<1>3. Current \in Session /\ handle.session_proxy \in DOMAIN sessions
    BY <1>1, MayUseCurrent
<1>4. SessionsKept /\ DOMAIN sessions' = DOMAIN sessions
    BY <1>3, CallsKeep, ServesKeep DEF da_quit_authenticate, SessionsKept, daemon
<1>5. CASE QuitFails
    BY <1>1, <1>2, <1>4, <1>5, SoundFrame
       DEF QuitFails, Dangling, da_quit_authenticate, SoundInv, StatusIsCurrent
<1>6. CASE /\ unref(handle.session_proxy)
           /\ broken' = (Dangling \/ handle.session_path \notin paths)
           /\ phase' = "quit"
  <2>1. ~broken' /\ connected' = {}
      BY <1>2, <1>6 DEF Dangling, unref, SoundInv
  <2>2. TokenReadable'
      BY <1>4 DEF SoundInv, TokenReadable, SessionsKept
  <2> QED
      BY <1>1, <1>6, <2>1, <2>2
         DEF da_quit_authenticate, SoundInv, Creating, HandleSound, StatusIsCurrent
<1> QED
    BY <1>5, <1>6 DEF da_quit_authenticate

(* What else a freed handle has.                                           *)
LEMMA FreedSound ==
    ASSUME Typed, SoundInv, da_dbus_proxy_free, broken' => phase \in {"quit", "failed"}
    PROVE  SoundInv'
<1>1. handle.state = "live" /\ at = "idle" /\ at' = at /\ phase' = phase
    BY DEF da_dbus_proxy_free, Idle
<1>2. connected' = {}
    BY DEF da_dbus_proxy_free, unref, SoundInv
<1>3. handle'.state = "freed" /\ handle'.session_path = handle.session_path
      /\ handle'.session_proxy = handle.session_proxy
    BY DEF da_dbus_proxy_free, Typed, ClientTyped, Handle
<1>4. TokenReadable' /\ HandleSound' /\ StatusIsCurrent'
    BY <1>1, <1>3 DEF da_dbus_proxy_free, daemon, SoundInv, TokenReadable, HandleSound, StatusIsCurrent
<1> QED
    BY <1>1, <1>2, <1>3, <1>4 DEF SoundInv, Creating

(* The handle is freed safely with its session, or without one.            *)
LEMMA FreeSound ==
    ASSUME Typed, SoundInv, da_dbus_proxy_free
    PROVE  SoundInv'
<1>1. handle.state = "live" /\ at = "idle" /\ at' = at /\ phase' = phase
    BY DEF da_dbus_proxy_free, Idle
<1>2. CASE phase \in {"none", "created"}
  <2>1. handle.session_proxy \in alive \cup {None} /\ handle.session_path \in paths \cup {None}
      BY <1>1, <1>2 DEF SoundInv
  <2> QED
      BY <2>1, FreedSound DEF da_dbus_proxy_free
<1>3. CASE phase \notin {"none", "created"}
  <2>1. phase \in {"quit", "failed"}
      BY <1>3 DEF Typed, ClientTyped
  <2> QED
      BY <1>1, <2>1, FreedSound
<1> QED
    BY <1>2, <1>3

(* A status is delivered only from the session that the handle has.        *)
LEMMA SignalSound ==
    ASSUME Typed, SoundInv, signal_limit_updated_handler \/ signal_status_handler
    PROVE  SoundInv'
<1>1. CASE signal_limit_updated_handler
    BY <1>1, SoundFrame
       DEF signal_limit_updated_handler, SessionsKept, SoundInv, HandleSound, StatusIsCurrent
<1>2. CASE signal_status_handler
  <2>1. heard'.of = heard'.as
      BY <1>2 DEF signal_status_handler, SoundInv, StatusIsCurrent
  <2>2. broken' => broken
      BY <1>2 DEF signal_status_handler, SoundInv
  <2> QED
      BY <1>2, <2>1, <2>2, SoundFrame DEF signal_status_handler, SessionsKept
<1> QED
    BY <1>1, <1>2

(* Every step keeps the invariant.                                         *)
LEMMA SoundStep ==
    ASSUME Discipline \subseteq Rules, Typed, SoundInv, [Next]_vars
    PROVE  SoundInv'
<1>1. CASE SessionAction
    BY <1>1, SessionSound
<1>2. CASE QueryAction
    BY <1>2, QuerySound
<1>3. CASE Manager
    BY <1>3, ManagerSound
<1>4. CASE da_dbus_proxy_new \/ da_dbus_proxy_free \/ da_quit_authenticate
    BY <1>4, NewSound, FreeSound, QuitSound
<1>5. CASE newSessionProxy \/ encryptKey \/ setSymmetricKey
    BY <1>5, NewSessionProxySound, EncryptKeySound, SetSymmetricKeySound
<1>6. CASE signal_limit_updated_handler \/ signal_status_handler
    BY <1>6, SignalSound
<1>7. ASSUME NEW cb \in {"limit", "status"}, da_signal_connect(cb) PROVE SoundInv'
    BY <1>7, ConnectSound
<1>8. ASSUME NEW u \in Users, da_create_authenticate(u) PROVE SoundInv'
    BY <1>8, CreateSound
<1>9. CASE UNCHANGED vars
    BY <1>9, SoundFrame DEF vars, client, daemon, SessionsKept, SoundInv, HandleSound, StatusIsCurrent
<1> QED
    BY <1>1, <1>2, <1>3, <1>4, <1>5, <1>6, <1>7, <1>8, <1>9 DEF Next, SessionAction, QueryAction

(* The types hold in every state.                                          *)
LEMMA AlwaysTyped == Spec => []Typed
    BY TypedInit, TypedStep, PTL DEF Spec

(* So does the invariant, if the application keeps the rules.              *)
LEMMA AlwaysSound == ASSUME Discipline \subseteq Rules PROVE Spec => []SoundInv
<1>1. Typed /\ SoundInv /\ [Next]_vars => SoundInv'
    BY SoundStep
<1> QED
    BY <1>1, SoundInit, AlwaysTyped, PTL DEF Spec

(* An application that keeps Discipline makes the library use or free what *)
(* is freed only when it frees the handle after da_quit_authenticate or a  *)
(* failed da_create_authenticate, whichever calls of the bus fail          *)
(* (auth.c:310-351, 361-383, 947-961).                                     *)
THEOREM HandleIsSound == ASSUME Discipline \subseteq Rules PROVE Spec => []HandleSound
<1>1. SoundInv => HandleSound
    BY DEF SoundInv
<1> QED
    BY <1>1, AlwaysSound, PTL

(* The daemon gets no token that the session cannot decrypt, from an       *)
(* application that keeps Discipline (auth.c:326-351, 634-653).            *)
THEOREM TokensAreReadable == ASSUME Discipline \subseteq Rules PROVE Spec => []TokenReadable
<1>1. SoundInv => TokenReadable
    BY DEF SoundInv
<1> QED
    BY <1>1, AlwaysSound, PTL

(* The callback gets statuses of the session that the handle has only,     *)
(* from an application that keeps Discipline (auth.c:231-247, 353-378).    *)
THEOREM StatusesAreCurrent == ASSUME Discipline \subseteq Rules PROVE Spec => []StatusIsCurrent
<1>1. SoundInv => StatusIsCurrent
    BY DEF SoundInv
<1> QED
    BY <1>1, AlwaysSound, PTL
-----------------------------------------------------------------------------
(* What was told last is about the user of the handle, and is what the     *)
(* daemon has unless a call failed or a signal is on the way.              *)
AsTold == \A f \in Listed : \/ told.limits[f] = limits[told.of][f]
                            \/ told.limits[f].locked /\ ~limits[told.of][f].locked

LimitsInv ==
    /\ handle.state = "none" => told = <<>>
    /\ told # <<>> => told.of = handle.username /\ "limit" \in handle.callbacks
    /\ told # <<>> /\ used.faults = 0 /\ handle.state = "live" /\ ~OnTheWay(told.of) => AsTold

(* The invariant holds before the application has a handle.                *)
LEMMA LimitsInit == Init => LimitsInv
    BY DEF Init, LimitsInv

(* It says more than LimitsConverge.                                       *)
LEMMA LimitsInvConverge == LimitsInv => LimitsConverge
    BY DEF LimitsInv, LimitsConverge, AsTold

(* Faults are never forgotten.                                             *)
FaultsKept == used'.faults = 0 => used.faults = 0

(* A failed call is remembered.                                            *)
LEMMA FaultKept == Typed /\ Fault => used'.faults # 0
    BY DEF Typed, UsedTyped, Fault, Spend, CounterNames

(* Other events do not undo it.                                            *)
LEMMA SpendKept ==
    ASSUME Typed, NEW c \in CounterNames, Spend(c)
    PROVE  FaultsKept
    BY DEF Typed, UsedTyped, Spend, CounterNames, FaultsKept

(* Nor does a call of the application.                                     *)
LEMMA CallKept ==
    ASSUME Typed, NEW n \in 0..1, Call(n)
    PROVE  FaultsKept
    BY DEF Typed, UsedTyped, Call, CounterNames, FaultsKept

(* A signal on the way stays there.                                        *)
SignalsKept == \A u \in Users : OnTheWay(u) => OnTheWay(u)'

(* A step in which neither the limits nor what was told of them changes.   *)
LEMMA LimitsFrame ==
    ASSUME Typed, LimitsInv, told' = told, limits' = limits,
           handle'.username = handle.username, handle.callbacks \subseteq handle'.callbacks,
           handle'.state = "none" => handle.state = "none",
           handle'.state = "live" => handle.state \in {"none", "live"},
           FaultsKept, SignalsKept
    PROVE  LimitsInv'
<1>1. told # <<>> => told.of \in Users
    BY DEF Typed, ClientTyped
<1>2. AsTold => AsTold'
    BY DEF AsTold
<1> QED
    BY <1>1, <1>2 DEF LimitsInv, FaultsKept, SignalsKept

(* When the bus does nothing.                                              *)
LEMMA StillKept == UNCHANGED <<bus, unsent>> => SignalsKept
    BY DEF SignalsKept, OnTheWay

(* When nothing is counted.                                                *)
LEMMA UsedKept == UNCHANGED used => FaultsKept
    BY DEF FaultsKept

(* When the daemon does nothing.                                           *)
LEMMA DaemonKept == UNCHANGED daemon => SignalsKept /\ limits' = limits
    BY StillKept DEF daemon

(* Statuses are added behind it.                                           *)
LEMMA ServesKept ==
    ASSUME Typed, NEW r, Proper(r), Serves(r)
    PROVE  SignalsKept /\ limits' = limits
<1> DEFINE new == [k \in DOMAIN r.emits |-> [kind |-> "Status", of |-> handle.session_proxy,
                                             code |-> r.emits[k]]]
<1>1. \E S : new \in Seq(S)
  <2>1. CASE r.emits = <<>>
    <3>1. new = <<>>
        BY <2>1
    <3> HIDE DEF new
    <3>2. new \in Seq({})
        BY <3>1
    <3> QED BY <3>2
  <2>2. CASE r.emits = <<"Ended">>
    <3>1. new = <<[kind |-> "Status", of |-> handle.session_proxy, code |-> "Ended"]>>
        BY <2>2
    <3> DEFINE m == [kind |-> "Status", of |-> handle.session_proxy, code |-> "Ended"]
    <3>2. new = <<m>> /\ m \in {m}
        BY <3>1
    <3> HIDE DEF new, m
    <3>3. new \in Seq({m})
        BY <3>2
    <3> QED BY <3>3
  <2> QED BY <2>1, <2>2 DEF Proper
<1>2. bus' = bus \o new /\ UNCHANGED <<limits, unsent>>
    BY DEF Serves
<1>3. bus \in Seq(Status \cup LimitUpdated)
    BY DEF Typed, DaemonTyped
<1> HIDE DEF new
<1>4. \A k \in DOMAIN bus : k \in DOMAIN bus' /\ bus'[k] = bus[k]
    BY <1>1, <1>2, <1>3
<1> QED
    BY <1>2, <1>4 DEF SignalsKept, OnTheWay

(* The calls of a session keep the invariant.                              *)
LEMMA SessionLimits == Typed /\ LimitsInv /\ SessionAction => LimitsInv'
<1> SUFFICES ASSUME Typed, LimitsInv, SessionAction PROVE LimitsInv'
    OBVIOUS
<1>1. PICK r : SessionCall(r) /\ Proper(r)
    BY SessionActionCalls
<1>2. FaultsKept
    BY <1>1, CallKept DEF SessionCall
<1>3. SignalsKept /\ limits' = limits
    BY <1>1, ServesKept, DaemonKept DEF SessionCall
<1> QED
    BY <1>1, <1>2, <1>3, LimitsFrame DEF SessionCall

(* So do those that ask the manager.                                       *)
LEMMA QueryLimits == Typed /\ LimitsInv /\ QueryAction => LimitsInv'
<1> SUFFICES ASSUME Typed, LimitsInv, QueryAction PROVE LimitsInv'
    OBVIOUS
<1>1. UNCHANGED <<handle, told, daemon>>
    BY DEF QueryAction, da_get_limits, da_pre_one_key_login, da_auth_prop_get, lockInfoAgain,
           da_get_lock_info, da_get_fail_prompt, limitCall, daemon
<1>2. Call(0) \/ Call(1) \/ Fault \/ UNCHANGED used
    BY DEF QueryAction, da_get_limits, da_pre_one_key_login, da_auth_prop_get, lockInfoAgain,
           da_get_lock_info, da_get_fail_prompt, limitCall
<1>3. FaultsKept
    BY <1>2, CallKept, FaultKept, UsedKept DEF FaultsKept
<1> QED
    BY <1>1, <1>3, DaemonKept, LimitsFrame

(* So do those that create and leave a session or the handle.              *)
LEMMA OtherLimits ==
    ASSUME Typed, LimitsInv,
           \/ da_dbus_proxy_new \/ da_dbus_proxy_free \/ da_quit_authenticate
           \/ encryptKey \/ setSymmetricKey
           \/ \E cb \in {"limit", "status"} : da_signal_connect(cb)
           \/ \E u \in Users : da_create_authenticate(u)
    PROVE  LimitsInv'
<1>1. handle \in Handle
    BY DEF Typed, ClientTyped
<1>2. told' = told
    BY DEF da_dbus_proxy_new, da_dbus_proxy_free, da_quit_authenticate, encryptKey, setSymmetricKey,
           da_signal_connect, da_create_authenticate
<1>3. FaultsKept
    BY FaultKept, UsedKept
       DEF da_dbus_proxy_new, da_dbus_proxy_free, da_quit_authenticate, encryptKey, setSymmetricKey,
           CreateFails, da_signal_connect, da_create_authenticate, FaultsKept
<1>4. /\ handle'.username = handle.username /\ handle.callbacks \subseteq handle'.callbacks
      /\ handle'.state = "none" => handle.state = "none"
      /\ handle'.state = "live" => handle.state \in {"none", "live"}
    BY <1>1
       DEF da_dbus_proxy_new, da_dbus_proxy_free, da_quit_authenticate, encryptKey, setSymmetricKey,
           da_signal_connect, da_create_authenticate, gen_rsa_pubkey, Handle
<1>5. SignalsKept /\ limits' = limits
  <2>1. CASE UNCHANGED daemon
      BY <2>1, DaemonKept
  <2>2. CASE \E u \in Users : da_create_authenticate(u)
      BY <2>2, DaemonKept, StillKept DEF da_create_authenticate, Authenticate
  <2>3. CASE da_quit_authenticate
    <3>1. MayUse
        BY <2>3 DEF da_quit_authenticate
    <3>2. Proper(com_deepin_daemon_authenticate_session_call_end_sync(Current, TRUE))
        BY <3>1, MayUseCurrent, CallsProper DEF Typed
    <3> QED BY <2>3, <3>2, ServesKept, DaemonKept DEF da_quit_authenticate
  <2>4. CASE setSymmetricKey
    <3>1. sessions[handle.session_proxy] \in Session /\ handle.symmetricKey \in Ids \cup {None}
        BY <1>1, <2>4 DEF setSymmetricKey, Typed, ClientTyped, Pointers, DaemonTyped, Handle
    <3>2. Proper(com_deepin_daemon_authenticate_session_call_set_symmetric_key_sync(
                     sessions[handle.session_proxy], handle.symmetricKey))
        BY <3>1, CallsProper DEF Typed
    <3> QED BY <2>4, <3>2, ServesKept, DaemonKept DEF setSymmetricKey
  <2> QED BY <2>1, <2>2, <2>3, <2>4
          DEF da_dbus_proxy_new, da_dbus_proxy_free, encryptKey, da_signal_connect
<1> QED
    BY <1>2, <1>3, <1>4, <1>5, LimitsFrame

(* A new session may be of another user, and what was told is forgotten.   *)
LEMMA NewSessionLimits == Typed /\ LimitsInv /\ newSessionProxy => LimitsInv'
<1> SUFFICES ASSUME Typed, LimitsInv, newSessionProxy PROVE LimitsInv'
    OBVIOUS
<1>1. CASE told' = <<>>
    BY <1>1 DEF LimitsInv
<1>2. CASE Fault /\ handle' = [handle EXCEPT !.session_proxy = None] /\ UNCHANGED told
  <2>1. FaultsKept
      BY <1>2, FaultKept DEF FaultsKept
  <2>2. /\ handle'.username = handle.username /\ handle.callbacks = handle'.callbacks
        /\ handle'.state = handle.state
      BY <1>2 DEF Typed, ClientTyped, Handle
  <2>3. SignalsKept /\ limits' = limits
      BY DaemonKept DEF newSessionProxy
  <2> QED
      BY <1>2, <2>1, <2>2, <2>3, LimitsFrame DEF LimitsInv
<1> QED
    BY <1>1, <1>2 DEF newSessionProxy

(* The first signal is delivered; those behind it are still on the way.    *)
LEMMA TailOnTheWay ==
    ASSUME Typed, bus # <<>>, bus' = Tail(bus), UNCHANGED unsent, NEW u \in Users,
           Head(bus) # [kind |-> "LimitUpdated", of |-> u], OnTheWay(u)
    PROVE  OnTheWay(u)'
<1>1. bus \in Seq(Status \cup LimitUpdated)
    BY DEF Typed, DaemonTyped
<1>2. CASE unsent[u] > 0
    BY <1>2 DEF OnTheWay
<1>3. ASSUME NEW k \in DOMAIN bus, bus[k] = [kind |-> "LimitUpdated", of |-> u]
      PROVE  OnTheWay(u)'
  <2>1. k # 1
      BY <1>1, <1>3
  <2>2. k - 1 \in DOMAIN bus' /\ bus'[k - 1] = bus[k]
      BY <1>1, <2>1
  <2> QED BY <1>3, <2>2 DEF OnTheWay
<1> QED
    BY <1>2, <1>3 DEF OnTheWay

(* A signal for the user makes the library ask again; others are not for   *)
(* it.                                                                     *)
LEMMA SignalLimits ==
    ASSUME Typed, LimitsInv, signal_limit_updated_handler \/ signal_status_handler
    PROVE  LimitsInv'
<1>1. CASE signal_status_handler
  <2>1. \A u \in Users : Head(bus) # [kind |-> "LimitUpdated", of |-> u]
      BY <1>1 DEF signal_status_handler
  <2>2. SignalsKept
      BY <1>1, <2>1, TailOnTheWay DEF signal_status_handler, SignalsKept
  <2> QED
      BY <1>1, <2>2, UsedKept, LimitsFrame DEF signal_status_handler
<1>2. CASE signal_limit_updated_handler
  <2> DEFINE u == Head(bus).of
  <2>1. UNCHANGED <<handle, limits, unsent>> /\ bus # <<>> /\ bus' = Tail(bus)
      BY <1>2 DEF signal_limit_updated_handler
  <2>2. CASE ForHandle(u) /\ "limit" \in handle.callbacks /\ told' = [of |-> u, limits |-> limits[u]]
    <3>1. told'.of = u /\ told'.limits = limits[u] /\ u = handle.username /\ handle.state = "live"
        BY <2>2 DEF ForHandle
    <3>2. AsTold'
        BY <2>1, <3>1 DEF AsTold
    <3> QED BY <2>1, <2>2, <3>1, <3>2 DEF LimitsInv
  <2>3. CASE Fault /\ UNCHANGED told
      BY <2>1, <2>3, FaultKept DEF LimitsInv
  <2>4. CASE ~(ForHandle(u) /\ "limit" \in handle.callbacks) /\ UNCHANGED <<told, used>>
    <3>1. told # <<>> /\ handle.state = "live" => told.of # u /\ told.of \in Users
        BY <2>4 DEF ForHandle, LimitsInv, Typed, ClientTyped
    <3>2. told # <<>> /\ handle.state = "live" => Head(bus) # [kind |-> "LimitUpdated", of |-> told.of]
        BY <3>1
    <3>3. \A v \in Users : Head(bus) # [kind |-> "LimitUpdated", of |-> v] /\ OnTheWay(v) => OnTheWay(v)'
        BY <2>1, TailOnTheWay
    <3>4. AsTold => AsTold'
        BY <2>1, <2>4 DEF AsTold
    <3>5. told # <<>> /\ handle.state = "live" /\ OnTheWay(told.of) => OnTheWay(told.of)'
        BY <2>4, <3>1, <3>2, <3>3 DEF OnTheWay
    <3> QED BY <2>1, <2>4, <3>4, <3>5 DEF LimitsInv
  <2> QED BY <1>2, <2>2, <2>3, <2>4 DEF signal_limit_updated_handler
<1> QED
    BY <1>1, <1>2
-----------------------------------------------------------------------------
(* A change of a limit is followed by a signal, except that of a lock that *)
(* expires.                                                                *)
LEMMA ChangeLimits ==
    ASSUME Typed, LimitsInv, NEW u \in Users, NEW f \in Listed, NEW l \in Limit, NEW b \in BOOLEAN,
           Change(u, f, l, b), UNCHANGED client,
           b \/ (limits[u][f].locked /\ ~l.locked)
    PROVE  LimitsInv'
<1>1. FaultsKept
    BY SpendKept DEF Change, CounterNames
<1>2. handle' = handle /\ told' = told /\ bus' = bus
    BY DEF client, Change
<1>3. told # <<>> => told.of \in Users
    BY DEF Typed, ClientTyped
<1>4. limits \in [Users -> [Listed -> Limit]] /\ unsent \in [Users -> Nat]
    BY DEF Typed, DaemonTyped
<1>5. SignalsKept
    BY <1>2, <1>4 DEF Change, SignalsKept, OnTheWay
<1>6. CASE b
  <2>1. OnTheWay(u)'
      BY <1>4, <1>6 DEF Change, OnTheWay
  <2>2. \A v \in Users : v # u => limits'[v] = limits[v]
      BY <1>4 DEF Change
  <2>3. told # <<>> /\ told.of # u /\ AsTold => AsTold'
      BY <1>2, <1>3, <2>2 DEF AsTold
  <2>4. told # <<>> /\ told.of = u => OnTheWay(told.of)'
      BY <1>2, <2>1 DEF OnTheWay
  <2>5. told # <<>> /\ OnTheWay(told.of) => OnTheWay(told.of)'
      BY <1>2, <1>3, <1>5 DEF SignalsKept, OnTheWay
  <2> QED BY <1>1, <1>2, <2>3, <2>4, <2>5 DEF LimitsInv, FaultsKept
<1>7. CASE ~b
  <2>1. \A v \in Users, g \in Listed : limits'[v][g] = limits[v][g] \/ (v = u /\ g = f /\ limits'[v][g] = l)
      BY <1>4 DEF Change
  <2>2. limits[u][f].locked /\ ~l.locked
      BY <1>7
  <2>3. told # <<>> /\ AsTold => AsTold'
    <3> SUFFICES ASSUME told # <<>>, AsTold, NEW g \in Listed
                 PROVE  \/ told.limits[g] = limits'[told.of][g]
                        \/ told.limits[g].locked /\ ~limits'[told.of][g].locked
        BY <1>2 DEF AsTold
    <3> QED BY <1>3, <2>1, <2>2 DEF AsTold
  <2>5. told # <<>> /\ OnTheWay(told.of) => OnTheWay(told.of)'
      BY <1>2, <1>3, <1>5 DEF SignalsKept, OnTheWay
  <2> QED BY <1>1, <1>2, <2>3, <2>5 DEF LimitsInv, FaultsKept
<1> QED
    BY <1>6, <1>7

(* The signal is on the way when the daemon has sent it.                   *)
LEMMA EmitLimits ==
    ASSUME Typed, LimitsInv, NEW u \in Users, emitSignalLimitUpdated(u), UNCHANGED client
    PROVE  LimitsInv'
<1>1. handle' = handle /\ told' = told /\ limits' = limits /\ FaultsKept
    BY UsedKept DEF client, emitSignalLimitUpdated
<1>2. CASE handle.state = "live"
  <2>1. unsent \in [Users -> Nat] /\ bus \in Seq(Status \cup LimitUpdated)
      BY DEF Typed, DaemonTyped
  <2> DEFINE m == [kind |-> "LimitUpdated", of |-> u]
  <2>2. m \in Status \cup LimitUpdated
      BY DEF LimitUpdated
  <2>3. bus' = Append(bus, m)
      BY <1>2 DEF emitSignalLimitUpdated
  <2>4. Len(bus) + 1 \in DOMAIN bus' /\ bus'[Len(bus) + 1] = m
    <3> HIDE DEF m
    <3> QED BY <2>1, <2>2, <2>3
  <2>5. \A k \in DOMAIN bus : k \in DOMAIN bus' /\ bus'[k] = bus[k]
    <3> HIDE DEF m
    <3> QED BY <2>1, <2>2, <2>3
  <2>6. OnTheWay(u)'
      BY <2>4 DEF OnTheWay
  <2>7. \A v \in Users : v # u => unsent'[v] = unsent[v]
      BY <2>1 DEF emitSignalLimitUpdated
  <2>8. SignalsKept
      BY <2>5, <2>6, <2>7 DEF SignalsKept, OnTheWay
  <2> QED BY <1>1, <2>8, LimitsFrame DEF LimitsInv
<1>3. CASE handle.state # "live"
    BY <1>1, <1>3 DEF LimitsInv
<1> QED
    BY <1>2, <1>3

(* Statuses are sent behind the signals that are on the way.               *)
LEMMA EmitStatusLimits ==
    ASSUME Typed, LimitsInv, NEW i \in DOMAIN sessions, UNCHANGED client,
           emitSignalStatus(i) \/ statusResult(i) \/ quit(i)
    PROVE  LimitsInv'
<1>1. handle' = handle /\ told' = told /\ limits' = limits /\ unsent' = unsent
    BY DEF client, emitSignalStatus, statusResult, quit
<1>2. FaultsKept
    BY UsedKept, SpendKept DEF emitSignalStatus, statusResult, quit, CounterNames
<1>3. bus \in Seq(Status \cup LimitUpdated)
    BY DEF Typed, DaemonTyped
<1>4. \A k \in DOMAIN bus : k \in DOMAIN bus' /\ bus'[k] = bus[k]
  <2>1. CASE bus' = bus
      BY <2>1
  <2>2. ASSUME NEW m, bus' = Append(bus, m) PROVE \A k \in DOMAIN bus : k \in DOMAIN bus' /\ bus'[k] = bus[k]
      BY <1>3, <2>2
  <2> QED BY <2>1, <2>2 DEF emitSignalStatus, statusResult, quit
<1>5. SignalsKept
    BY <1>1, <1>4 DEF SignalsKept, OnTheWay
<1> QED
    BY <1>1, <1>2, <1>5, LimitsFrame DEF LimitsInv

(* The daemon keeps the invariant.                                         *)
LEMMA ManagerLimits == Typed /\ LimitsInv /\ Manager => LimitsInv'
<1> SUFFICES ASSUME Typed, LimitsInv, Manager PROVE LimitsInv'
    OBVIOUS
<1>1. ASSUME NEW u \in Users, NEW f \in Listed, fail(u, f) \/ success(u, f) \/ tryReset(u, f)
      PROVE  LimitsInv'
  <2>1. \E l \in Limit, b \in BOOLEAN : Change(u, f, l, b) /\ (b \/ (limits[u][f].locked /\ ~l.locked))
      BY <1>1, LimitActionChanges
  <2> QED BY <2>1, ChangeLimits DEF Manager
<1> QED
    BY <1>1, EmitLimits, EmitStatusLimits DEF Manager

(* Every step keeps the invariant.                                         *)
LEMMA LimitsStep == Typed /\ LimitsInv /\ [Next]_vars => LimitsInv'
<1> SUFFICES ASSUME Typed, LimitsInv, [Next]_vars PROVE LimitsInv'
    OBVIOUS
<1>1. CASE SessionAction
    BY <1>1, SessionLimits
<1>2. CASE QueryAction
    BY <1>2, QueryLimits
<1>3. CASE Manager
    BY <1>3, ManagerLimits
<1>4. CASE newSessionProxy
    BY <1>4, NewSessionLimits
<1>5. CASE \/ da_dbus_proxy_new \/ da_dbus_proxy_free \/ da_quit_authenticate
           \/ encryptKey \/ setSymmetricKey
           \/ \E cb \in {"limit", "status"} : da_signal_connect(cb)
           \/ \E u \in Users : da_create_authenticate(u)
    BY <1>5, OtherLimits
<1>6. CASE signal_limit_updated_handler \/ signal_status_handler
    BY <1>6, SignalLimits
<1>7. CASE UNCHANGED vars
    BY <1>7, StillKept, UsedKept, LimitsFrame DEF vars, client, daemon, LimitsInv
<1> QED
    BY <1>1, <1>2, <1>3, <1>4, <1>5, <1>6, <1>7 DEF Next, SessionAction, QueryAction

(* When no call failed and no signal is on the way, the application was    *)
(* told the limits of the daemon, but for locks that expired               *)
(* (auth.c:91-133), whatever rules the application keeps.                  *)
THEOREM LimitsAreConverging == Spec => []LimitsConverge
<1>1. Typed /\ LimitsInv /\ [Next]_vars => LimitsInv'
    BY LimitsStep
<1> QED
    BY <1>1, LimitsInit, LimitsInvConverge, AlwaysTyped, PTL DEF Spec

(* What the texts say of a limit.                                          *)
Truthful(v) ==
    LET l == limits[handle.username][v.flag]
        left == MaxTries[v.flag] - l.fail_num
    IN  /\ v.text \in {"wait", "locked"} => l.locked
        /\ v.text = "left" => ~l.locked /\ left = v.left
        /\ v.text = "one left" => ~l.locked /\ left <= 1

(* A lock that da_get_lock_info tells of is there.                         *)
LEMMA LockInfoTrue == \A f \in Flags : Truthful(lockInfo(f)) 
    BY DEF Truthful, lockInfo, get_limit_prompt, da_get_auth_limit_info, Failed, Value

(* So is what da_get_fail_prompt says.                                     *)
LEMMA FailTextTrue ==
    ASSUME Typed, handle.username \in Users, NEW f \in Listed
    PROVE  Truthful(failText(f))
<1>1. limits[handle.username][f].fail_num \in Nat /\ MaxTries[f] \in Nat
    BY ClientAssumption DEF Typed, DaemonTyped, Limit
<1> QED
    BY <1>1 DEF Truthful, failText, da_get_auth_limit_info

(* A call that does not ask for a text returns none.                       *)
LEMMA WordsAreNoTexts ==
    /\ Ok.text \notin Texts /\ Failed.text \notin Texts
    /\ \A v \in {"unavailable", "pass", "fail"} \cup Users : Value(v).text \notin Texts
    BY ClientAssumption DEF Ok, Failed, Value, Texts

(* No method of a session returns one.                                     *)
LEMMA SessionValues ==
    ASSUME Typed, SessionAction
    PROVE  ret'.text \notin Texts
<1>1. MayUse
    BY DEF SessionAction, da_session_start, da_session_set_token, da_session_end,
           da_session_set_quit_flag, da_session_get_result, da_session_privileges_enable,
           da_session_privileges_disable, da_prop_get, SessionCall
<1>2. Current.user \in Users
    BY <1>1, MayUseCurrent DEF Session
<1>3. ASSUME NEW r, SessionCall(r), r.value.text \notin Texts
      PROVE  ret'.text \notin Texts
    BY <1>3, WordsAreNoTexts DEF SessionCall
<1>4. CASE da_session_start
    BY <1>3, <1>4, WordsAreNoTexts
       DEF da_session_start, com_deepin_daemon_authenticate_session_call_start_sync, Answer, Reply, Refuse, Ok
<1>5. CASE da_session_set_token
    BY <1>3, <1>5, WordsAreNoTexts
       DEF da_session_set_token, com_deepin_daemon_authenticate_session_call_set_token_sync, Answer, Reply, Refuse, Ok
<1>6. CASE da_session_end
  <2>1. PICK all \in BOOLEAN :
            SessionCall(com_deepin_daemon_authenticate_session_call_end_sync(Current, all))
      BY <1>6 DEF da_session_end
  <2>2. com_deepin_daemon_authenticate_session_call_end_sync(Current, all).value.text \notin Texts
      BY WordsAreNoTexts
         DEF com_deepin_daemon_authenticate_session_call_end_sync, Answer, Reply, Refuse, Ok
  <2> QED BY <1>3, <2>1, <2>2
<1>7. CASE da_session_set_quit_flag
    BY <1>3, <1>7, WordsAreNoTexts
       DEF da_session_set_quit_flag, com_deepin_daemon_authenticate_session_call_set_quit_flag_sync, Answer, Reply, Refuse, Ok
<1>8. CASE da_session_get_result
    BY <1>3, <1>8, WordsAreNoTexts
       DEF da_session_get_result, com_deepin_daemon_authenticate_session_call_get_result_sync, Answer, Reply, Refuse
<1>9. CASE da_session_privileges_enable \/ da_session_privileges_disable
    BY <1>3, <1>9, WordsAreNoTexts
       DEF da_session_privileges_enable, com_deepin_daemon_authenticate_session_call_privileges_enable_sync,
           da_session_privileges_disable, com_deepin_daemon_authenticate_session_call_privileges_disable_sync,
           Answer, Reply, Refuse, Ok
<1>10. CASE da_prop_get
    BY <1>2, <1>3, <1>10, WordsAreNoTexts DEF da_prop_get, da_dbus_prop_get, Answer, Reply, Refuse
<1> QED
    BY <1>4, <1>5, <1>6, <1>7, <1>8, <1>9, <1>10 DEF SessionAction

(* The calls about limits return what is so.                               *)
LEMMA QueryValues ==
    ASSUME Typed, QueryAction, ret' # ret
    PROVE  ret'.text \notin Texts \/ Truthful(ret')
<1>1. \A f \in Flags : Truthful(lockInfo(f))
    BY LockInfoTrue
<1>2. CASE da_get_limits \/ da_pre_one_key_login \/ da_auth_prop_get
    BY <1>2, WordsAreNoTexts DEF da_get_limits, da_pre_one_key_login, da_auth_prop_get, limitCall, Returns
<1>3. CASE lockInfoAgain
    BY <1>1, <1>3, ClientAssumption, WordsAreNoTexts DEF lockInfoAgain, Returns
<1>4. ASSUME NEW f \in Flags, da_get_lock_info(f) PROVE ret'.text \notin Texts \/ Truthful(ret')
    BY <1>1, <1>4, WordsAreNoTexts DEF da_get_lock_info, limitCall, Returns
<1>5. ASSUME NEW f \in Flags, NEW with \in BOOLEAN, da_get_fail_prompt(f, with)
      PROVE  ret'.text \notin Texts \/ Truthful(ret')
  <2>1. handle.username \in Users
      BY <1>5 DEF da_get_fail_prompt, HasUser, Typed, ClientTyped, Handle
  <2>2. f \in Listed => Truthful(failText(f))
      BY <2>1, FailTextTrue
  <2>3. [flag |-> f, text |-> "verification failed", left |-> 0].text \notin Texts
      BY DEF Texts
  <2>4. \/ ret' = [flag |-> f, text |-> "verification failed", left |-> 0]
        \/ f \in Listed /\ ret' = failText(f)
        \/ ret' = Failed
      BY <1>5 DEF da_get_fail_prompt, limitCall, Returns
  <2> QED BY <2>2, <2>3, <2>4, WordsAreNoTexts
<1> QED
    BY <1>2, <1>3, <1>4, <1>5 DEF QueryAction

(* No other call returns a text.                                           *)
LEMMA OtherValues ==
    ASSUME ret' # ret,
           \/ da_dbus_proxy_new \/ da_quit_authenticate \/ newSessionProxy
           \/ encryptKey \/ setSymmetricKey \/ \E u \in Users : da_create_authenticate(u)
    PROVE  ret'.text \notin Texts
    BY WordsAreNoTexts
       DEF da_dbus_proxy_new, da_quit_authenticate, newSessionProxy, encryptKey, setSymmetricKey,
           da_create_authenticate, CreateFails, QuitFails, GiveUp, Returns

(* A text about the chances left or a lock says what the daemon has when   *)
(* it is given (text.c:225-258).                                           *)
THEOREM PromptsAreTrue == Spec => PromptTrue
<1> DEFINE P == ret' # ret /\ ret'.text \in Texts => Truthful(ret')
<1>1. ASSUME Typed, [Next]_vars PROVE P
  <2>1. CASE SessionAction
      BY <1>1, <2>1, SessionValues
  <2>2. CASE QueryAction
      BY <1>1, <2>2, QueryValues
  <2>3. CASE UNCHANGED ret
      BY <2>3
  <2>4. CASE \/ da_dbus_proxy_new \/ da_quit_authenticate \/ newSessionProxy
             \/ encryptKey \/ setSymmetricKey \/ \E u \in Users : da_create_authenticate(u)
      BY <2>4, OtherValues
  <2> QED
      BY <1>1, <2>1, <2>2, <2>3, <2>4
         DEF Next, SessionAction, QueryAction, Manager, client, vars, da_dbus_proxy_free,
             signal_limit_updated_handler, signal_status_handler, da_signal_connect
<1>2. Typed /\ [Next]_vars => [P]_vars
    BY <1>1
<1>3. Spec => [][P]_vars
    BY <1>2, AlwaysTyped, PTL DEF Spec
<1> QED
    BY <1>3 DEF PromptTrue, Truthful
=============================================================================
