----------------------------- MODULE AuthClient -----------------------------
(***************************************************************************)
(* The client library (lib/src/auth, lib/src/encrypt): one handle da_proxy *)
(* of one application, the sessions it creates, the signals that its main  *)
(* loop delivers, and the texts for a failure.  The manager, the sessions  *)
(* and the bus are seen from outside; Limits and Session are about them.   *)
(*                                                                         *)
(* The application is one thread, and a call of the library delivers no    *)
(* signal: a call is as many steps as it makes calls on the bus, and the   *)
(* daemon acts between any two.  Pointers are named by the session they    *)
(* were made for, so that a pointer may outlive what it points to.         *)
(***************************************************************************)
EXTENDS Integers, Sequences, FiniteSets

CONSTANTS
    Users,       \* names of users
    Flags,       \* the flags of is_valid_auth_flag in use
    Password,    \* AUTH_FLAG_PASSWORD
    MaxTries,    \* [Listed -> Nat]: the flags the daemon has limits for
    Listed,      \*   and after how many failures it locks them; 0 is never
    Rules,       \* the rules the application keeps, of Discipline
    MaxSessions, \* bound: sessions created
    MaxCalls,    \* bound: other calls of the application
    MaxCharges,  \* bound: changes of the limits
    MaxReports,  \* bound: results of a session
    MaxFaults,   \* bound: calls on the bus that fail
    MaxEvents    \* bound: the sum of the last four

Discipline == {"use created", "quit first"}
None == 0

ASSUME ClientAssumption ==
    /\ Listed \subseteq Flags /\ Password \in Flags
    /\ MaxTries \in [Listed -> Nat]
    /\ Rules \subseteq Discipline
    /\ {MaxSessions, MaxCalls, MaxCharges, MaxReports, MaxFaults, MaxEvents} \subseteq Nat
    /\ Users \cap {"wait", "locked", "left", "one left"} = {}

VARIABLES
    at,         \* where the application is
    handle,     \* the fields of struct _auth_proxy
    alive,      \* session proxies (GDBusProxy) not freed
    connected,  \* those among them with signal_status_handler connected
    paths,      \* strings of session_path not freed
    broken,     \* a freed object or string was used or freed again
    phase,      \* what the last calls told the application
    heard,      \* the last status its callback got
    told,       \* the last limits its other callback got
    ret,        \* what the last call returned
    sessions,   \* the sessions of the daemon, in the order of creation
    limits,     \* the limits of the manager
    unsent,     \* changes of the limits that are not signalled yet
    bus,        \* signals on the way to this connection, in order
    used        \* how much of each bound was used

client == <<at, handle, alive, connected, paths, broken, phase, heard, told, ret>>
daemon == <<sessions, limits, unsent, bus>>
vars == <<client, daemon, used>>

Ids == 1..MaxSessions
Counters == [calls |-> MaxCalls, charges |-> MaxCharges,
             reports |-> MaxReports, faults |-> MaxFaults]
Within(n) == used.calls + used.charges + used.reports + used.faults + n <= MaxEvents
Spend(c) == used[c] < Counters[c] /\ Within(1) /\ used' = [used EXCEPT ![c] = @ + 1]
Fault == Spend("faults")

(* struct da_limit_info; type, unlock_secs and unlock_time are wording.    *)
Limit == [locked : BOOLEAN, fail_num : Nat]
Status == [kind : {"Status"}, of : Ids, code : {"Success", "Failure", "Ended"}]
LimitUpdated == [kind : {"LimitUpdated"}, of : Users]

(* What a call returns: a code, a name or a text; a text is about a flag   *)
(* and may count the chances left.                                         *)
Texts == {"wait", "locked", "left", "one left"}
Value(v) == [text |-> v, flag |-> Password, left |-> 0]
Ok == Value("ok")
Failed == Value("failed")

NewSession(u) ==
    [user |-> u, exported |-> TRUE, key |-> None, verifying |-> FALSE, token |-> "none",
     autoQuit |-> TRUE, ended |-> FALSE, privileged |-> FALSE,
     unsaid |-> "none", result |-> "none"]
-----------------------------------------------------------------------------
(* The methods of the daemon as the stubs call them: what the session is   *)
(* afterwards, the statuses it gives, and what is answered.                *)
Reply(s, v) == [session |-> s, emits |-> <<>>, ok |-> TRUE, value |-> Value(v)]
Refuse(s) == [session |-> s, emits |-> <<>>, ok |-> FALSE, value |-> Failed]
Answer(s, r) == IF s.exported THEN r ELSE Refuse(s)

com_deepin_daemon_authenticate_session_call_encrypt_key_sync(s) ==
    Answer(s, Reply(s, "ok"))

com_deepin_daemon_authenticate_session_call_set_symmetric_key_sync(s, key) ==
    Answer(s, IF s.key = None THEN Reply([s EXCEPT !.key = key], "ok") ELSE Refuse(s))

com_deepin_daemon_authenticate_session_call_start_sync(s) ==
    Answer(s, IF limits[s.user][Password].locked THEN Reply(s, "ok")
              ELSE Reply([s EXCEPT !.verifying = TRUE], "ok"))

(* A factor that does not verify drops the token; what cannot be decrypted *)
(* is taken as it is.                                                      *)
com_deepin_daemon_authenticate_session_call_set_token_sync(s, key) ==
    Answer(s, IF ~s.verifying THEN Reply(s, "ok")
              ELSE Reply([s EXCEPT !.token = IF key = s.key THEN "password" ELSE "garbled"],
                         "ok"))

(* End(-1) gives a last status each time, and so changes the result; the   *)
(* first one quits the session, or has it quit later. End(flag) ends one   *)
(* factor.                                                                 *)
com_deepin_daemon_authenticate_session_call_end_sync(s, all) ==
    LET over == [s EXCEPT !.verifying = FALSE]
        done == [over EXCEPT !.ended = TRUE, !.exported = s.ended \/ ~s.autoQuit,
                             !.result = "Failure"]
    IN  Answer(s, IF all THEN [Reply(done, "ok") EXCEPT !.emits = <<"Ended">>]
                  ELSE Reply(over, "ok"))

com_deepin_daemon_authenticate_session_call_set_quit_flag_sync(s, auto) ==
    Answer(s, Reply([s EXCEPT !.autoQuit = auto], "ok"))

(* The privileges manager is asked by programs, not by sessions.           *)
com_deepin_daemon_authenticate_session_call_get_result_sync(s) ==
    Answer(s, Reply(s, IF \A i \in DOMAIN sessions : ~sessions[i].privileged THEN "unavailable"
                       ELSE IF s.result = "Success" THEN "pass" ELSE "fail"))

com_deepin_daemon_authenticate_session_call_privileges_enable_sync(s) ==
    Answer(s, IF s.privileged THEN Refuse(s)
              ELSE Reply([s EXCEPT !.privileged = TRUE], "ok"))

com_deepin_daemon_authenticate_session_call_privileges_disable_sync(s) ==
    Answer(s, Reply([s EXCEPT !.privileged = FALSE], "ok"))

(* Properties.Get: of all properties the user name is told apart.          *)
da_dbus_prop_get(s) == Answer(s, Reply(s, s.user))
-----------------------------------------------------------------------------
Init ==
    /\ at = "idle" /\ phase = "none" /\ ret = Ok
    /\ handle = [state |-> "none", username |-> "none", session_proxy |-> None,
                 session_path |-> None, symmetricKey |-> None, callbacks |-> {}]
    /\ alive = {} /\ connected = {} /\ paths = {} /\ broken = FALSE
    /\ heard = [of |-> None, as |-> None, code |-> "none"] /\ told = <<>>
    /\ sessions = <<>> /\ bus = <<>>
    /\ limits = [u \in Users |-> [f \in Listed |-> [locked |-> FALSE, fail_num |-> 0]]]
    /\ unsent = [u \in Users |-> 0]
    /\ used = [c \in DOMAIN Counters |-> 0]

Idle == at = "idle" /\ handle.state = "live" /\ ~broken
Returns(v) == ret' = v /\ at' = "idle"

da_dbus_proxy_new ==
    /\ at = "idle" /\ handle.state = "none"
    /\ \/ handle' = [handle EXCEPT !.state = "live"] /\ Returns(Ok) /\ UNCHANGED used
       \/ Fault /\ Returns(Failed) /\ UNCHANGED handle
    /\ UNCHANGED <<alive, connected, paths, broken, phase, heard, told, daemon>>

da_signal_connect(cb) ==
    /\ Idle /\ cb \notin handle.callbacks
    /\ handle' = [handle EXCEPT !.callbacks = @ \cup {cb}]
    /\ UNCHANGED <<at, alive, connected, paths, broken, phase, heard, told, ret, daemon, used>>
-----------------------------------------------------------------------------
(* da_create_authenticate: a step for each call on the bus, which may fail *)
(* before or after the daemon has acted.                                   *)
MayCreate == /\ Idle /\ Len(sessions) < MaxSessions
             /\ "quit first" \in Rules => phase \in {"none", "quit", "failed"}

Authenticate(u) ==
    /\ sessions' = Append(sessions, NewSession(u))
    /\ UNCHANGED <<limits, unsent, bus>>
GiveUp == Returns(Failed) /\ phase' = "failed"

da_create_authenticate(u) ==
    /\ MayCreate
    /\ \/ Authenticate(u) /\ at' = "session" /\ UNCHANGED <<phase, ret, used>>
       \/ Fault /\ GiveUp /\ (UNCHANGED daemon \/ Authenticate(u))
    /\ UNCHANGED <<handle, alive, connected, paths, broken, heard, told>>

(* The proxy, the path and the user name replace those of an earlier       *)
(* session.  An application that starts anew forgets the limits it heard.  *)
newSessionProxy ==
    LET s == Len(sessions)
    IN  /\ at = "session"
        /\ \/ /\ handle' = [handle EXCEPT !.session_proxy = s, !.session_path = s,
                                          !.username = sessions[s].user]
              /\ alive' = alive \cup {s} /\ paths' = paths \cup {s}
              /\ told' = <<>> /\ at' = "encrypt" /\ UNCHANGED <<phase, ret, used>>
           \/ /\ Fault /\ GiveUp
              /\ handle' = [handle EXCEPT !.session_proxy = None]
              /\ UNCHANGED <<alive, paths, told>>
        /\ UNCHANGED <<connected, broken, heard, daemon>>

(* Every later error frees out_path, which session_path still points to.   *)
gen_rsa_pubkey(h) == [h EXCEPT !.symmetricKey = h.session_proxy]
encryptKey ==
    /\ at = "encrypt"
    /\ \/ /\ com_deepin_daemon_authenticate_session_call_encrypt_key_sync(
                 sessions[handle.session_proxy]).ok
          /\ handle' = gen_rsa_pubkey(handle) /\ at' = "setkey"
          /\ UNCHANGED <<paths, phase, ret, used>>
       \/ /\ Fault /\ GiveUp
          /\ paths' = paths \ {handle.session_path} /\ UNCHANGED handle
    /\ UNCHANGED <<alive, connected, broken, heard, told, daemon>>

(* The daemon carries a call out.                                          *)
Serves(r) ==
    LET i == handle.session_proxy
    IN  /\ sessions' = [sessions EXCEPT ![i] = r.session]
        /\ bus' = bus \o [k \in DOMAIN r.emits |->
                             [kind |-> "Status", of |-> i, code |-> r.emits[k]]]
        /\ UNCHANGED <<limits, unsent>>

(* Bug: an error of SetSymmetricKey is not looked at.                      *)
CreateFailsUnseen ==
    /\ Fault /\ Returns(Ok) /\ phase' = "created"
    /\ connected' = connected \cup {handle.session_proxy} /\ UNCHANGED paths

CreateFails ==
    /\ Fault /\ GiveUp
    /\ paths' = paths \ {handle.session_path} /\ UNCHANGED connected

setSymmetricKey ==
    LET r == com_deepin_daemon_authenticate_session_call_set_symmetric_key_sync(
                 sessions[handle.session_proxy], handle.symmetricKey)
    IN  /\ at = "setkey"
        /\ \/ /\ r.ok /\ Serves(r)
              /\ connected' = connected \cup {handle.session_proxy}
              /\ Returns(Ok) /\ phase' = "created" /\ UNCHANGED <<paths, used>>
           \/ CreateFails /\ (UNCHANGED daemon \/ Serves(r))
        /\ UNCHANGED <<handle, alive, broken, heard, told>>
-----------------------------------------------------------------------------
(* Calls of a session.  has_valid_session_proxy looks at the proxy, freed  *)
(* or not.  A call on the bus that fails may have been carried out.        *)
MayUse == /\ Idle /\ handle.session_proxy # None
          /\ "use created" \in Rules => phase = "created"
Dangling == handle.session_proxy \notin alive
Current == sessions[handle.session_proxy]

(* A call of the application, on which n calls on the bus fail.            *)
Call(n) == /\ used.calls < MaxCalls /\ used.faults + n <= MaxFaults /\ Within(n + 1)
           /\ used' = [used EXCEPT !.calls = @ + 1, !.faults = @ + n]

SessionCall(r) ==
    /\ MayUse /\ broken' = Dangling
    /\ \/ Call(0) /\ Serves(r) /\ ret' = r.value
       \/ Call(1) /\ (UNCHANGED daemon \/ Serves(r)) /\ ret' = Failed
    /\ UNCHANGED <<at, handle, alive, connected, paths, phase, heard, told>>

da_session_start ==
    SessionCall(com_deepin_daemon_authenticate_session_call_start_sync(Current))
da_session_set_token ==
    SessionCall(com_deepin_daemon_authenticate_session_call_set_token_sync(
                    Current, handle.symmetricKey))
da_session_end ==
    \E all \in BOOLEAN :
        SessionCall(com_deepin_daemon_authenticate_session_call_end_sync(Current, all))
da_session_set_quit_flag ==
    \E auto \in BOOLEAN :
        SessionCall(com_deepin_daemon_authenticate_session_call_set_quit_flag_sync(Current, auto))
da_session_get_result ==
    SessionCall(com_deepin_daemon_authenticate_session_call_get_result_sync(Current))
da_session_privileges_enable ==
    SessionCall(com_deepin_daemon_authenticate_session_call_privileges_enable_sync(Current))
da_session_privileges_disable ==
    SessionCall(com_deepin_daemon_authenticate_session_call_privileges_disable_sync(Current))
da_prop_get == SessionCall(da_dbus_prop_get(Current))

(* Bugs: the proxy of the session is not released, or its handlers stay.   *)
unrefNot(i) == UNCHANGED <<alive, connected>>
unrefConnected(i) == alive' = alive \ {i} /\ UNCHANGED connected
unref(i) == alive' = alive \ {i} /\ connected' = connected \ {i}

(* Bug: the path is freed although End failed.                             *)
QuitFailsFreed ==
    /\ paths' = paths \ {handle.session_path} /\ broken' = (handle.session_path \notin paths)
    /\ ret' = Failed /\ UNCHANGED <<alive, connected, phase>>

(* An error of End leaves everything as it is.                             *)
QuitFails == broken' = Dangling /\ ret' = Failed /\ UNCHANGED <<alive, connected, paths, phase>>

(* Neither pointer is cleared.                                             *)
da_quit_authenticate ==
    LET r == com_deepin_daemon_authenticate_session_call_end_sync(Current, TRUE)
    IN  /\ MayUse
        /\ \/ /\ r.ok /\ Serves(r) /\ unref(handle.session_proxy)
              /\ broken' = (Dangling \/ handle.session_path \notin paths)
              /\ paths' = paths \ {handle.session_path}
              /\ phase' = "quit" /\ ret' = Ok /\ UNCHANGED used
           \/ ~r.ok /\ QuitFails /\ UNCHANGED <<daemon, used>>
           \/ r.ok /\ Fault /\ QuitFails /\ (UNCHANGED daemon \/ Serves(r))
        /\ UNCHANGED <<at, handle, heard, told>>

(* Both pointers are freed whatever they point to.  Sessions whose proxy    *)
(* leaked keep the freed handle as their user data.                        *)
da_dbus_proxy_free ==
    LET i == handle.session_proxy  p == handle.session_path
    IN  /\ Idle
        /\ broken' = (i \notin alive \cup {None} \/ p \notin paths \cup {None})
        /\ unref(i) /\ paths' = paths \ {p}
        /\ handle' = [handle EXCEPT !.state = "freed"]
        /\ UNCHANGED <<at, phase, heard, told, ret, daemon, used>>
-----------------------------------------------------------------------------
(* auth.c, text.c: the limits of a user, and the texts made of them.       *)
da_get_auth_limit_info(u, f) == limits[u][f]

limitCall(n, v) ==
    /\ Call(n) /\ Returns(v)
    /\ UNCHANGED <<handle, alive, connected, paths, broken, phase, heard, told, daemon>>

da_get_limits == Idle /\ (limitCall(0, Ok) \/ limitCall(1, Failed))

(* Calls of the manager that change nothing: PreOneKeyLogin, and the       *)
(* properties SupportEncrypts, FrameworkState and SupportedFlags.          *)
da_pre_one_key_login == Idle /\ (limitCall(0, Ok) \/ limitCall(1, Failed))
da_auth_prop_get == Idle /\ (limitCall(0, Ok) \/ limitCall(1, Failed))

(* Bug: the factor is taken to be locked still.                            *)
get_limit_promptAssumed(l) == TRUE
get_limit_prompt(l) == l.locked

lockInfo(f) ==
    IF f \in Listed /\ get_limit_prompt(da_get_auth_limit_info(handle.username, f))
    THEN [flag |-> f, text |-> "wait", left |-> 0] ELSE Failed

HasUser == Idle /\ handle.username # "none"
da_get_lock_info(f) == HasUser /\ (limitCall(0, lockInfo(f)) \/ limitCall(1, Failed))

(* The limits are read; a locked password is read a second time.           *)
failText(f) ==
    LET l == da_get_auth_limit_info(handle.username, f)
        left == MaxTries[f] - l.fail_num
    IN  [flag |-> f,
         text |-> IF MaxTries[f] = 0 THEN "verification failed" ELSE IF l.locked THEN "locked"
                  ELSE IF left > 1 THEN "left" ELSE "one left",
         left |-> IF MaxTries[f] # 0 /\ ~l.locked /\ left > 1 THEN left ELSE 0]

da_get_fail_prompt(f, with_retry_info) ==
    /\ HasUser
    /\ \/ ~with_retry_info /\ limitCall(0, [flag |-> f, text |-> "verification failed", left |-> 0])
       \/ with_retry_info /\ f \in Listed
          /\ failText(f).text = "locked" /\ f = Password
          /\ Call(0) /\ at' = "lockinfo"
          /\ UNCHANGED <<handle, alive, connected, paths, broken, phase, heard, told, ret, daemon>>
       \/ with_retry_info /\ f \in Listed
          /\ ~(failText(f).text = "locked" /\ f = Password) /\ limitCall(0, failText(f))
       \/ with_retry_info /\ f \notin Listed /\ limitCall(0, Failed)
       \/ with_retry_info /\ limitCall(1, Failed)

lockInfoAgain ==
    /\ at = "lockinfo"
    /\ \/ Returns(lockInfo(Password)) /\ UNCHANGED used
       \/ Returns(Failed) /\ Fault
    /\ UNCHANGED <<handle, alive, connected, paths, broken, phase, heard, told, daemon>>
-----------------------------------------------------------------------------
(* The main loop delivers the next signal: to the handle if it is for its  *)
(* user, and the handler then asks for the limits of now; or to the proxy  *)
(* of the session that gave it.                                            *)

(* Bug: the user name is not compared.                                     *)
ForAnyone(u) == handle.state = "live"
ForHandle(u) == handle.state = "live" /\ u = handle.username

signal_limit_updated_handler ==
    LET u == Head(bus).of
    IN  /\ at = "idle" /\ bus # <<>> /\ Head(bus).kind = "LimitUpdated"
        /\ IF ForHandle(u) /\ "limit" \in handle.callbacks
           THEN \/ told' = [of |-> u, limits |-> limits[u]] /\ UNCHANGED used
                \/ Fault /\ UNCHANGED told
           ELSE UNCHANGED <<told, used>>
        /\ bus' = Tail(bus)
        /\ UNCHANGED <<at, handle, alive, connected, paths, broken, phase, heard, ret,
                       sessions, limits, unsent>>

signal_status_handler ==
    LET m == Head(bus)
    IN  /\ at = "idle" /\ bus # <<>> /\ m.kind = "Status"
        /\ broken' = (broken \/ (m.of \in connected /\ handle.state = "freed"))
        /\ heard' = IF m.of \in connected /\ "status" \in handle.callbacks
                    THEN [of |-> m.of, as |-> handle.session_proxy, code |-> m.code] ELSE heard
        /\ bus' = Tail(bus)
        /\ UNCHANGED <<at, handle, alive, connected, paths, phase, told, ret,
                       sessions, limits, unsent, used>>
-----------------------------------------------------------------------------
(* The manager: fail, success and resetLimits change the limits, and give  *)
(* the signal later; a lock that expires does so when it is next asked     *)
(* for, without a signal.                                                  *)
Change(u, f, l, signals) ==
    /\ limits' = [limits EXCEPT ![u][f] = l]
    /\ unsent' = IF signals THEN [unsent EXCEPT ![u] = @ + 1] ELSE unsent
    /\ Spend("charges") /\ UNCHANGED <<sessions, bus>>

fail(u, f) ==
    LET n == limits[u][f].fail_num + 1
    IN  ~limits[u][f].locked
        /\ Change(u, f, [locked |-> MaxTries[f] > 0 /\ n >= MaxTries[f], fail_num |-> n], TRUE)
success(u, f) == limits[u][f].fail_num > 0 /\ Change(u, f, [locked |-> FALSE, fail_num |-> 0], TRUE)
tryReset(u, f) ==
    /\ limits[u][f].locked
    /\ \E dynamic \in BOOLEAN :
          Change(u, f, [locked |-> FALSE,
                        fail_num |-> IF dynamic THEN limits[u][f].fail_num ELSE 0], FALSE)

emitSignalLimitUpdated(u) ==
    /\ unsent[u] > 0 /\ unsent' = [unsent EXCEPT ![u] = @ - 1]
    /\ bus' = IF handle.state = "live" THEN Append(bus, [kind |-> "LimitUpdated", of |-> u])
              ELSE bus
    /\ UNCHANGED <<sessions, limits, used>>

(* A session gives a result, and only then remembers it.                   *)
emitSignalStatus(i) ==
    /\ sessions[i].verifying /\ sessions[i].exported /\ ~sessions[i].ended
    /\ sessions[i].unsaid = "none" /\ Spend("reports")
    /\ \E code \in {"Success", "Failure"} :
          /\ sessions' = [sessions EXCEPT ![i].verifying = FALSE, ![i].unsaid = code]
          /\ bus' = IF i \in alive
                    THEN Append(bus, [kind |-> "Status", of |-> i, code |-> code]) ELSE bus
    /\ UNCHANGED <<limits, unsent>>

statusResult(i) ==
    /\ sessions[i].unsaid # "none"
    /\ sessions' = [sessions EXCEPT ![i].result = sessions[i].unsaid, ![i].unsaid = "none"]
    /\ UNCHANGED <<limits, unsent, bus, used>>

(* A session that does not quit by itself is quit five seconds after its   *)
(* end.                                                                    *)
quit(i) ==
    /\ sessions[i].ended /\ sessions[i].exported
    /\ sessions' = [sessions EXCEPT ![i].exported = FALSE]
    /\ UNCHANGED <<limits, unsent, bus, used>>

Manager == /\ \/ \E u \in Users : emitSignalLimitUpdated(u)
              \/ \E u \in Users, f \in Listed : fail(u, f) \/ success(u, f) \/ tryReset(u, f)
              \/ \E i \in DOMAIN sessions : emitSignalStatus(i) \/ statusResult(i) \/ quit(i)
           /\ UNCHANGED client

Next ==
    \/ da_dbus_proxy_new \/ da_dbus_proxy_free
    \/ \E cb \in {"limit", "status"} : da_signal_connect(cb)
    \/ \E u \in Users : da_create_authenticate(u)
    \/ newSessionProxy \/ encryptKey \/ setSymmetricKey \/ da_quit_authenticate
    \/ da_session_start \/ da_session_set_token \/ da_session_end \/ da_session_set_quit_flag
    \/ da_session_get_result \/ da_session_privileges_enable \/ da_session_privileges_disable
    \/ da_prop_get \/ da_get_limits \/ lockInfoAgain \/ da_pre_one_key_login \/ da_auth_prop_get
    \/ \E f \in Flags : da_get_lock_info(f) \/ \E with \in BOOLEAN : da_get_fail_prompt(f, with)
    \/ signal_limit_updated_handler \/ signal_status_handler
    \/ Manager

Spec == Init /\ [][Next]_vars
-----------------------------------------------------------------------------
(* Type invariant.                                                         *)
Session ==
    [user : Users, exported : BOOLEAN, key : Ids \cup {None}, verifying : BOOLEAN,
     token : {"none", "password", "garbled"}, autoQuit : BOOLEAN, ended : BOOLEAN,
     privileged : BOOLEAN, unsaid : {"none", "Success", "Failure"},
     result : {"none", "Success", "Failure"}]
Handle ==
    [state : {"none", "live", "freed"}, username : Users \cup {"none"},
     session_proxy : Ids \cup {None}, session_path : Ids \cup {None},
     symmetricKey : Ids \cup {None}, callbacks : SUBSET {"limit", "status"}]
TypeOK ==
    /\ at \in {"idle", "session", "encrypt", "setkey", "lockinfo"}
    /\ handle \in Handle /\ alive \subseteq DOMAIN sessions
    /\ connected \subseteq alive /\ paths \subseteq DOMAIN sessions
    /\ phase \in {"none", "created", "quit", "failed"} /\ broken \in BOOLEAN
    /\ heard \in [of : Ids \cup {None}, as : Ids \cup {None},
                  code : {"none", "Success", "Failure", "Ended"}]
    /\ told = <<>> \/ told \in [of : Users, limits : [Listed -> Limit]]
    /\ ret \in [text : Texts \cup Users \cup {"ok", "failed", "verification failed", "pass", "fail",
                                           "unavailable"},
               flag : Flags, left : Nat]
    /\ sessions \in Seq(Session) /\ bus \in Seq(Status \cup LimitUpdated)
    /\ limits \in [Users -> [Listed -> Limit]] /\ unsent \in [Users -> Nat]
    /\ \A c \in DOMAIN Counters : used[c] \in 0..Counters[c]

(* An application that uses a session only after da_create_authenticate    *)
(* returned 0, and quits it before the next, hands the daemon no token     *)
(* that the session cannot decrypt, whichever call of the bus failed or    *)
(* was carried out without an answer (auth.c:326-351, 634-653).            *)
TokenReadable == \A i \in DOMAIN sessions : sessions[i].token # "garbled"

(* The status that the callback gets is of the session the handle has: the *)
(* callback is not told which one gave it, and statuses of the session     *)
(* that was quit may still be on the way (auth.c:231-247, 353-378).        *)
StatusIsCurrent == heard.of = heard.as

(* When no call failed and no signal for the user is on the way, what the  *)
(* callback was told last are the limits of the daemon, except for locks   *)
(* that expired since: the signal carries no limits and a call of another  *)
(* session may change them at any time (auth.c:91-133).                    *)
OnTheWay(u) == unsent[u] > 0 \/ \E k \in DOMAIN bus : bus[k] = [kind |-> "LimitUpdated", of |-> u]
LimitsConverge ==
    told # <<>> /\ used.faults = 0 /\ at = "idle" /\ handle.state = "live"
    /\ ~OnTheWay(told.of) =>
        /\ told.of = handle.username
        /\ \A f \in Listed : \/ told.limits[f] = limits[told.of][f]
                             \/ told.limits[f].locked /\ ~limits[told.of][f].locked

(* A text about the chances left or a lock says what the daemon has when   *)
(* it is given, also if a lock expires between the two times that          *)
(* da_get_fail_prompt asks (text.c:225-258).                               *)
PromptTrue ==
    [][ret' # ret /\ ret'.text \in Texts =>
         LET l == limits[handle.username][ret'.flag]
             left == MaxTries[ret'.flag] - l.fail_num
         IN  /\ ret'.text \in {"wait", "locked"} => l.locked
             /\ ret'.text = "left" => ~l.locked /\ left = ret'.left
             /\ ret'.text = "one left" => ~l.locked /\ left <= 1]_vars

(* An application that uses a session only while it is created, and quits  *)
(* it before the next, makes the library use or free what is freed only    *)
(* when it frees the handle after da_quit_authenticate or a failed         *)
(* da_create_authenticate, which leave both pointers as they are: no call, *)
(* answer or signal before that does (auth.c:310-351, 361-383, 947-961).   *)
HandleSound == broken => handle.state = "freed" /\ phase \in {"quit", "failed"}

(* Nor does it then: new, create, quit, free is how the library is used    *)
(* (auth.c:376-381, 957-961).                                              *)
FreeSafe == ~broken

(* After the Success of its session was heard, GetResult does not answer   *)
(* that it failed (manager_ifc.go:224-242, 174-189).                       *)
ResultFollowsSuccess ==
    [][ret'.text = "fail" /\ ret' # ret =>
          ~(heard.code = "Success" /\ heard.of = handle.session_proxy)]_vars

(* The privileges of a session do not outlast it (manager.go:522-532).     *)
PrivilegesEnd == \A i \in DOMAIN sessions : sessions[i].privileged => sessions[i].exported
=============================================================================
