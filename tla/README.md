# TLA+ models of deepin-authentication

This directory models in TLA+ the authentication daemon of this repository
(package `service/`, written in Go) and its C programs: the PAM module
(`misc/pam-module`), the client library (`lib/src/auth`) and the shared-memory
notifier (`lib/src/shm-comm`). TLC checks the models on small instances, and
TLAPS proves properties of the limits, of the sessions, of the fingerprint
factors and their service, of the characters, of the PAM module, of the client
library and of the notifier for every value of their constants.

## The system

The daemon exports `com.deepin.daemon.Authenticate` on the system bus. A
program that wants to authenticate a user calls `Authenticate`, gets the path
of a new *session*, listens to its `Status` signal, calls `Start`, passes
secrets with `SetToken` and leaves with `End` or `Quit`. The session starts the
*factors* (password, fingerprint, face, ...), collects their results in its
*controller* and reports failures to the *limits* of the user, which lock a
factor that failed too often. Biometric factors use devices that other parts of
the daemon (or services that register with it) own.

| component | state | operations | interacts with |
|---|---|---|---|
| Limits (`service/authenticate/limit.go`, `manager.go`) | per limit type, user and factor: failures, lock time, unlock time; two files | fail, success, reset, allow, get, load, save, user list handler | sessions ask and update; emits `LimitUpdated`, which every session handles |
| Session (`session/manager*.go`) | final result, quit method, started/canceled/quited flags | Start, End, Quit, SetQuitFlag, SetToken, GetResult, privileges calls, exit callback, LimitUpdated handler | controller, limits, task manager |
| Controllers (`normal_verify.go`, `multifactor_verify.go`) | result channel, last result per factor, `ended` | authenticate, end, sendStatus, listenResultCh | factors send, listener emits and charges |
| Factors (`session/*_tx.go`) | device state, lock state, status mutex, session ids, quit/release channels | authenticate, end, setLockState, giveStatus | devices, PAM, global claims of fingerprint and face |
| Privileges (`result_access_privileges.go`) | registered (master, agent) pairs | register, unregister, allow | sessions |
| Task manager (`service/task`) | tasks by signal | add, do, delete | TTY watcher, sessions, login sessions |
| Fingerprint service (`service/fingerprint`) | devices, default device, claim, enrolled fingers | Claim, Enroll, Verify, Stop*, delete, default device, hot plug | fprintd and vendor drivers over D-Bus |
| Characters (`service/charaManager`, `charaDataManger`) | drivers, characters, enroll and verify actions, their channels | EnrollStart, EnrollStop, Rename, Delete, List, signals of drivers, lost names | driver programs, face and iris factors |
| Face service (`service/face`) | devices | forwards calls | a face service |
| UKey service (`service/ukey`) | managers, devices, sessions | construct, set PIN, verify, hot plug | vendor services |
| MFA configuration (`service/multifactor`) | configurations by application type and priority | load, replace, remove on file events | session creation |
| PAM module (`misc/pam-module/auth`) | `UserData`: result, order of the factors, current factor, key, flags of GetResult; token threads | `pam_sm_authenticate`, bus callbacks, signal handlers for one and several factors, `clean_auth_data` | the daemon over D-Bus, the application's conversation |
| Client library (`lib/src/auth`) | one handle `da_proxy`: user, session proxy and path, key, callbacks | `da_create_authenticate`, `da_quit_authenticate`, `da_session_*`, limits and their texts, handlers of both signals | the daemon over D-Bus, one application |
| Shared-memory notifier (`lib/src/shm-comm`) | image, locker, `cli_fd_list`, epoll set of the writer; socket and image of each reader | `shmn_create`, `shmn_write`, loops of both roles, `shmn_lock_channel`, `shmn_free` | processes with shared memory and a socket |
| Encryption (`service/encrypt`, `lib/src/encrypt`) | keys | key exchange, decrypt | SetToken |

What is hard here is not the data but the scheduling. D-Bus calls, signal
handlers, timers, device goroutines and the listener all run concurrently over
the same factor; mutexes are released between the parts of one operation
(updating and saving limits), flags are checked and used later (`ended`,
`finalResultGiven`, `devState`), channels are closed while others send, and the
daemon may stop between two file writes. On the side of the clients, the PAM
module shares `UserData` between its main loop and token threads without a
lock and cancels threads that block; the library acts on signals that carry no
state or belong to a session it has left; the notifier writes into memory that
readers look at and walks a list while another thread changes it.

For each component, what makes it correct:

- Limits: a lock ends when its time is over and not before; it survives a
  restart; no failure is lost.
- Session: one success is enough (or all required factors succeed), failures
  are charged exactly once, the final result is that of the factors, a session
  that ends releases everything it started.
- Factors: at most one attempt uses a device, an ended attempt delivers no
  result to a later one, `end` always returns.
- Fingerprint service: the service that drives the device has it claimed for
  the user whom the daemon names; calls return although that service may not
  answer.
- Characters: an enrolment that is over, or whose client is gone, leaves the
  driver free; what the client was told is stored is stored; channels are not
  used after they were closed.
- PAM module: success is returned only when the daemon granted it, no thread
  outlives the call, factors are asked for by priority, what the user reads is
  true, a verdict ends the call.
- Client library: a token goes only to a session that can decrypt it, what the
  application hears is about its session, limits converge, freed objects are not
  used.
- Notifier: a write passes no connected reader over; a connected reader sees the
  latest image.
- Task manager, privileges, MFA configuration: what is registered is found,
  what is removed is not.

## Modules

| module | models | status |
|---|---|---|
| `Limits` | the limits and their files | checked, proved |
| `LimitsProofs` | TLAPS proofs about `Limits` | |
| `Session` | session manager, controllers, `baseTx` | checked, proved |
| `SessionProofs` | TLAPS proofs about `Session` | |
| `Fingerprint` | fingerprint manager, `baseDevice`, `FprintdDevice` | checked, proved |
| `FingerprintProofs` | TLAPS proofs about `Fingerprint` | |
| `Lease` | abstract: one device lent to one factor at a time | implemented by `FingerprintTx` |
| `FingerprintTx` | the fingerprint factors of all sessions | checked, proved |
| `FingerprintTxProofs` | TLAPS proofs about `FingerprintTx` | |
| `Chara` | character manager, character data, `CommonDriver` | checked, proved |
| `CharaProofs` | TLAPS proofs about `Chara` | |
| `PamAuth` | one call of the PAM module, its threads and what it sees of the daemon | checked, proved |
| `PamAuthProofs` | TLAPS proofs about `PamAuth` | |
| `AuthClient` | one handle of the client library and what it sees of the daemon | checked, proved |
| `AuthClientProofs` | TLAPS proofs about `AuthClient` | |
| `ShmNotifier` | writer and readers of the shared-memory notifier | checked, proved |
| `ShmNotifierProofs` | TLAPS proofs about `ShmNotifier` | |
| `MC*` | instances for TLC: sets, configurations, symmetry | |

The modules do not share variables. They meet at these interfaces, each of
which one side leaves open and the other models: `Session` leaves the verdict of
`IsLimitAllowed` and the moment of `LimitUpdated` open, which `Limits` models;
`Session` lets a factor report anything at any time, which is more than
`FingerprintTx` lets it do; `FingerprintTx` uses the fingerprint service as one
client, and `Fingerprint` has several. `PamAuth` and `AuthClient` see a session
from outside: it may give any status or result that `Session` can give, in any
order in which the bus can deliver it.

### Limits

`limits[<<type, user>>][factor]` is the three mutable fields of `struct limit`;
`known` tells for which users the Go map has an entry. `fail`, `success`,
`resetLimits` and the `UserList` handler each change the limits under
`limitsMu`, release it, collect all states under `limitsMu` again and save them
under `saveLimitsMu`. They are modelled that way, one critical section per step
(`Update`, `Snapshot`, `SaveBegin`, `SaveV1`, `SaveOldBegin`, `SaveOld`), for
several threads. A file that is being written is corrupt: `Restart` may happen
at any step and loads what is there. `allow` is modelled as what it leaves in
the limit (`Refreshed`) and what it answers, because it resets limits lazily.
The clock is the wall clock and may be set in both directions. Integers have
the width of `time.Duration`: `IntMax` is a parameter, `Wrap` the arithmetic.
`fileFresh` and `snapFresh` are history variables: no update has happened since
the states in the files, or in the snapshot, were collected.

### Session

A goroutine is the sequence `todo[t]` of what it has still to do; each step
performs the first element. `giveStatus` is two steps, because `sendStatus`
checks `ended` and only then sends, and `statusMux` is held between them
(`Holds`). A send waits while the channel is full and panics when it is closed;
after a panic nothing runs, as the daemon has no `recover`. `ended` stands for
both `markEnded` and the closed channel, since `end` does both without looking
at anything in between; the check before them is a step of its own.

A factor is `baseTx` plus what all factor types have in common: `authenticate`
gives Started and starts a goroutine for the attempt, which reports statuses;
`end` tells the latest attempt to stop and gives Ended; an attempt that was told
to stop may still deliver a result, which is what the races between `end` and
the device allow in every factor type. Which verdicts `IsLimitAllowed` returns,
when `LimitUpdated` arrives and what devices report is left open, so that the
model covers every interleaving with the limits and with other sessions.

`hasInput` and `inputMap` are not variables: `inputMap[k]` is true exactly when
`k` has a result, and `hasInput` exactly when some keyboard factor has one.

### Fingerprint

A call, and the handler of a lost name, is a goroutine whose place in the
method is `call[c].pc`; the mutexes are variables (`mu` of each device, `props`
for `PropsMu`). A claim or release is a request in `queue[d]`, which the
service of the device performs in order and at any later time; the goroutine
waits for its reply or, after three seconds, gives up (`timeout`) while the
request stays queued. The service may refuse a claim or a release; a release
that is refused or times out clears `owner` all the same (`device.go:150-155`).
`hardware` is the user for whom the service has the device claimed, `owner` what
the daemon believes, `claimInfo` the client that the manager remembers, read in
a step of its own (`readClaimInfo`) before the device is released. `stray` is a
history variable: the service has the device through a claim whose goroutine had
given up, or after a release that it refused, and has not released it since.

### FingerprintTx and Lease

`claimed` is the global variable, `user` the factor for which the fingerprint
service has the device. The channels `quit` and `release` of a factor are fields
that each attempt replaces, so an attempt is a pair of a factor and a number, a
closed channel is a member of `quit` or `released`, and code that reads the
field reads that of the latest attempt. `end` is five steps (`end`,
`waitRelease`, `giveEnd`, `markEnd`, and the return to whoever called it), since
it is called by `End`, by timers, by `authenticate` of another factor under
`claimedMu` and by the TTY watcher. Two history variables say when the code has
left the discipline it relies on, and no configuration has to rule that out:
`overlapped` are the factors that were started anew, or whose lock changed, while
their last attempt was under way, and `forgotten` says that `end` has cleared
`claimed` when it named another factor. `Lease` states what the factors promise
together; `LentToOne` is the refinement: `holder` is `user`, and `users` the
factors with an attempt that verifies.

### Chara

An action and the character that it enrolls have one id. Calls, the listener of
each action, the loop of the driver's signals and the loop of lost names are
goroutines with a frame `run[g]` of local variables. `driver.regained` is
history: the enrolments that the driver began while the daemon had still to take
note that their type had been gone. `charaInfoMtx` is `infoMu`;
`actionMapMtx` is `mu` with `readers`, the goroutines that keep its read lock
over several steps. `HandleDriverCharaTypeChange` runs in the signal loop and
inside `GetDriver`, with what its caller holds. `changed` returns from it to
either. Not modelled: that a waiting writer of a Go `RWMutex` keeps new readers
out, which can only add waits; a driver that comes back after it left the bus;
the verify actions of face and iris factors; the file.

### PamAuth

`main` is where `pam_sm_authenticate` is, `ud` the fields of `UserData`, `res`
its result, `out` what the application gets. A token thread is an element of
`threads` with its place (`at`) and the token that was entered; the last one is
the only one whose id the module keeps. Signals and answers of asynchronous
calls wait in `inbox`, and one iteration of the bus loop handles one of them.
A call that waits for its answer is one step: the main thread does nothing else
meanwhile, and the statuses that arrive are queued. An asynchronous call
(`EncryptKey`, `GetResult`) and its answer are two steps, and the daemon's
goroutine for it may answer after later statuses. `order` is what
`resolve_authctrl_factors` makes of the listing: `Largest` and `Swap` are the
two halves of its selection sort. `clean_auth_data` is four steps (`Finish`,
`CloseBus`, `Join`, `Return`), since threads go on between them. Whether
`pthread_kill` finds a thread that has exited and was not joined depends on the
C library and is a choice (`KillExited`). `faults` counts calls of the bus that
fail. The application may end the call at any place (`Cancelled`,
`pam_clean_func`). Texts, the locale, and the type of the application are left
out; the key of the session is a flag.

### AuthClient

The application is one thread and the library delivers no signal during a call,
so a call is as many steps as it makes calls on the bus (`at` says between
which), and the manager and the sessions act between any two. Pointers and
strings are named by the session they were made for; `alive` and `paths` are
those not freed, and `broken` records a use or a second release of a freed one.
A call of the bus may fail before it was carried out or after. `phase` is what
the application knows, and `Rules` which of the rules of `Discipline` it keeps:
it uses a session only after it was created, and quits it before it creates the
next. It may free the handle whenever no call is going on, also after it has quit
and after a creation that failed. A session that was ended and does not quit by
itself is quit by the daemon at any later time (`quit`), which stands for the
five seconds.

### ShmNotifier

The image has two parts, its head and its pixels, each the number of the write
it comes from. `shmn_write` of the writer puts the two parts one by one, then
walks `cli_fd_list` with `list_mtx` held, one `write()` per step; `write.node`
and `write.next` are the nodes that `g_list_foreach` holds in local variables;
`write.to` and `write.cut` are history: who was in the list when the mutex was
taken, and whether the loop has met a freed node.
The listening thread accepts a connection and appends it in two steps, and
removes it when its reader is gone, without the mutex (`shm_notifier.c:48`);
`read()` may fail before that when the reader left messages unread, and the code
takes the error for data (`ReadFails`). A
socket holds `Cap` messages, then `write()` waits. A reader reads a message and
looks at the two parts in two steps. Signals, as SIGPIPE, end the writer
(`killed`). `locker` is the word in front of the data on which
`shmn_lock_channel` spins.

## Checks

| run | question | result |
|---|---|---|
| `limits` | Two updaters race over a table of lock times, with crashes, removed users and clock changes: does a lock end in time, not earlier, and survive a restart? | pass |
| `session_races` | Two calls, `LimitUpdated` and the device give statuses of one factor at once, and two calls of End race: does the client see the true state, is each failure charged once, is the session released? | pass (liveness) |
| `session_mfa` | Two required factors with repeated and partial attempts: is a verdict given only when each has a result, and is a pass current? | pass |
| `session_any` | Two alternative factors race each other, End and Quit: does one success suffice, is every failure charged? | pass (liveness) |
| `fingerprint` | Claims, releases, verifications, lost clients and a change of the default device meet, and the service may refuse or stop answering: does it agree with the daemon, do the calls return? | pass (liveness) |
| `fptx_takeover` | Two factors take the device over from each other and are started again: is it lent to one of them, is an ended factor quiet, does every call return? | pass (liveness, and the refinement of `Lease`) |
| `fptx_lock` | A factor is locked while it verifies: is it ended before it is started again? | `OneAttempt` violated |
| `chara_enroll` | Up to four calls of a client, two at a time, race with the driver and with the loss of either: are actions released once, is the driver freed, is a success stored, is what is offered stored by the driver? | pass |
| `pam` | One call of the PAM module with a token thread, failing calls and a daemon that answers, reports and ends in any order: is success granted, do the threads end, are factors in order, prompts true, verdicts returned? | pass (liveness) |
| `pam_prompt` | Three factors in turn: does a Prompt come only when no token thread is active? | `NoPromptWhileAsking` violated |
| `lib` | An application creates and quits sessions, while calls fail, limits change and signals are late: are tokens readable, statuses current, limits and texts true, the handle sound? | pass |
| `shm` | A writer and two readers that connect, answer, stop and leave while images are written: is a reader in the list passed over, is an announced image seen? | pass (liveness) |

Bounds. The limits need three time units to lock, wait and unlock, enough
failures to pass `maxTries` and reach the end of the table, and one restart; two
threads are the smallest number whose saves race. Migration to the Remote limits
and a fixed lock time are covered by the proofs. Sessions need one factor for
races on a factor, two for verdicts; channels of one place show a full
channel, which ten places hide. In `session_races` two goroutines make up to
three calls, so that two calls of End, or End and SetQuitFlag, or `LimitUpdated`
and either, overlap while a device reports; its attempts do not time out, which
`session_mfa` lets them do, with two attempts and two calls. `session_any` asks
what two factors report, with one call at a time and two in all. `fingerprint`
has two goroutines, so that a claim meets a lost name or the call of a second
client, and two devices, so that the default one changes while the other is
claimed; three calls and up to three timeouts. `fptx_takeover` gives each factor
two attempts (`MaxAttempts = 2`) and has three calls by three goroutines: start,
end and start again, or one factor taking over from another which starts anew.
`chara_enroll` has one character on file and one that can be enrolled, two calls
at once and four in all, one loss and two changes of the driver's types
(`MaxChanges = 2`), so that a type is lost and regained; `FewEvents` admits four
events in all, where a call, a status, a change and a loss are one each: that is
enough for EnrollStart, a status, EnrollStop and Delete of one character, and for
a list that is applied late. `Hasty = {}` means that a client does not call
EnrollStop while its own EnrollStart or EnrollStop has not returned, nor
EnrollStart while its EnrollStop has not; with `Hasty` the code does not keep
`DriverServesAction` (see below). `pam` has one
factor with a keyboard and one without, listed in either order, and the factor
with the keyboard has failed once before, so that the next failure locks it
(`MaxTries = 2`, `Failed = 1`); one call may fail, anywhere. `pam_prompt` needs
three factors, so that a thread made for one that needs no input is still there
when the third asks. `lib` has one flag that locks after a failure, one that
locks after two and one without limits, two users, and two sessions, of which
the first is left when the second is made; three events are enough for a failure
that is charged, a lock that expires and a result that is late. `shm` has one
reader that leaves and one that answers, two writes so that a second image may
overtake the first, and sockets of one message so that `write()` waits.

Symmetry is used for goroutines, actions, users or names, only where no
liveness property is checked. `CHECK_DEADLOCK FALSE` is set because every
component stops once the bounded calls are made, and because a process that
panicked or was killed does nothing more.

Fairness. Goroutines run, so that a step that stays possible is taken; strong
fairness of each goroutine's step stands for Go's mutexes and channels, which
serve waiters in turn. In `Session` the listener and the five-second timer are
weakly fair. In `Fingerprint` the three-second timeout is weakly fair, and the
service is not fair at all. In `FingerprintTx` an attempt is fair except where
it waits for a finger: there only once its `quit` was closed. In `PamAuth` the
main thread, a cancelled thread and each token thread are weakly fair, except
that a user need not answer; in `ShmNotifier` the writing thread, the listening
thread and the receiving thread of each reader. `AuthClient` has no liveness
property. No fairness is assumed of clients, users, devices, signals, and the
daemon as the PAM module sees it.

## What does not hold

Two runs show the code against its documentation or its comments:

- `OneAttempt` (`fptx_lock`): `setLockState` gives the status Locked, which
  makes the factor ended, before it asks whether the factor verifies; the attempt
  goes on, the next one joins it, and the second to close `release` is a panic.
  `docs/deepin_authenticate.org` requires StopVerify after each Verify.
- `NoPromptWhileAsking` (`pam_prompt`): with several factors a token thread is
  made for the Prompt of each, a fingerprint's too; it still waits for input when
  the finger has passed and the next factor asks, and the call is aborted with
  PAM_ABORT although no factor failed. The comments at `mfa.c:128` and
  `sfa.c:151` say that this does not happen.

The modules also state properties that TLC finds violated when they are put
into a configuration; no document promises them, so no run lists them.

- `LockHasEnd` after the overflow: `tryReset` subtracts `UnixNano()` of a zero
  time; from December 2046 on the difference does not fit, and a dynamic lock
  that was reset to the zero time never ends.
- `CancelOnlyWithoutResult`: `End` can replace a success with a cancellation.
- `QuitNeedsEnd`: `Quit` is accepted during `Start`.
- `EndClosesAll`: a factor that is unlocked while it verifies counts as idle
  and is not ended.
- `FailureHasCause`: unlocking a factor counts as its failure in multi-factor
  sessions.
- `ClaimUsable`: the claim of a first user times out, is performed by the service
  later, and the claim of a second user is answered "already claimed", which
  counts as success; the device stays with the first user. A release that the
  service refuses does the same without any timeout: the daemon names nobody, and
  the service has the device for the last user until a later release.
  `HardwareAgrees` says what is left: the two differ only while the device is
  `stray` or a request is pending.
- `StatusNamesUser`: a status names the user of the device when it is handled,
  not the one whose finger was compared.
- `DefaultInUse`: a device is claimed after the default device was changed.
- `TakeOver`: `claimInfo` is written by several calls of Claim, so that a later
  Claim names a client that does not have the device; and a client that is lost
  before its Claim is performed keeps the device.
- `LentToOne`, `EndStopsVerify` and `NoDoubleClose` without their conditions
  `Orderly` and `overlapped`. A factor may be started while its last attempt has
  not reported, or be locked or unlocked while it verifies. Then two attempts
  share the channels in the fields of the factor: `release` is closed twice,
  `isEnded` is set by an `end` that began before the factor was started again, and
  two attempts use the device. In `fptx_takeover` clients wait for a call of a
  factor to return before the next (`Serial = TRUE`), as a session does whose
  client calls in turn. `end` clears `claimed` without `claimedMu`, also
  when it names another factor, which then does not end the first. With
  `Serial = FALSE`, `CallsReturn` fails too once attempts overlap.
- `StopOwnVerify`: an attempt stops a verification that belongs to the factor
  which took the device over.
- `DriverServesAction` when EnrollStop overtakes the driver's EnrollStart: the
  driver enrolls for an action that the daemon has released. Without its
  exemption `regained` it also fails for a client that is not hasty, when the
  driver loses a type and regains it between `GenActionId` and its EnrollStart
  (two changes): the listener gets the FaceGone of the action that has just started
  and releases it. `LostSenderReleased` needs the exemption for the same reason.
- `AvailableIsStored` when two EnrollStops of one client overlap: the first
  saves the character and releases the action, Delete removes it, and the second
  saves it again. It also fails without its exemption `misplaced` (six calls and
  two clients show it): when two characters of one user have the same type and
  name, `DeleteChara` may remove the entry of the other one than the driver has
  deleted, and a list that was read before makes that entry available.
- `FreeSafe`: `da_quit_authenticate` frees the session's proxy and path, a
  creation that fails frees the proxy it has just made, and both leave the
  pointers in the handle; `da_dbus_proxy_free` frees them again. New, create, quit,
  free shows it.
- `RestartKeepsLocks` and `NoEarlyUnlock` for files that are not `fileFresh`: the
  states are collected and saved after `limitsMu` was released, so an older
  snapshot may overwrite a newer one, and a file is truncated before it is
  written, so a crash in between loses it. Locks that were in neither are
  forgotten by a restart.
- `PrivilegesEnd`: a session that quits does not give back the privileges it
  was granted for GetResult.
- `ResultFollowsSuccess` (with five events): the Success is emitted before it is
  remembered, and GetResult in between says that the session failed.
- `NoTornData`: the next write changes the image while a reader looks at it; the
  two parts a callback sees may come from two writes.
- `ForeachSafe`: the listening thread frees a node of `cli_fd_list` that
  `g_list_foreach` is about to follow.
- `LockReturns`: `shmn_lock_channel` waits for the value that it then stores, so
  it never returns on a channel that nobody has locked; `WriteReturns`: a reader that stops receiving stops the writer, and
  every other reader with it, once its socket is full.

Found while reading, in the model but not stated as a property of its own:

- Two enrolments get one name, since a name is checked at the start and stored
  at the end.
- A Rename that fails because the new name is taken may have renamed a character
  already, depending on the order in which the map is read.
- A List that finds the driver's types changed locks `charaInfoMtx` twice: the
  call, and every later one that needs the mutex, hangs.
- A driver that reports faster than the listener reads fills the channel of an
  action; the handler then waits with `actionMapMtx` held, which the listener
  needs (`Cap = 1` shows it with two statuses).
- A list that is applied late may also make a character unavailable that the
  driver has; no document says that it does not.
- A character whose device leaves with it stays available if EnrollStop stores
  it later; `Chara` assumes that a device leaves its characters behind.
- `PreOneKeyLogin` that fails leaves the program's path where the path of the
  session is read later, and the module takes it for one.

- A factor that is locked between `IsLimitAllowed` and the start of its attempt
  verifies while it is locked (`normal_verify.go:54`).
- A timer of an attempt is never stopped and ends whichever attempt runs when it
  fires (`normal_verify.go:66`).

The races of `sendStatus` and of two calls of `End` with `close(resultCh)` end
in a panic of the daemon. `Session` contains them (`panicked`), and the liveness
properties name that outcome; in the same way `PamAuth` contains the token that
is encrypted without a key (`crashed`).

## Proofs

`LimitsProofs` proves for every value of the constants:

- `LimitsTypeCorrect`: the type invariant.
- `LimitsLockHasEnd`: a refused factor is within its lock time, provided that
  the clock is before the overflow (`BeforeOverflow`). The property is a fact
  about every well-typed state: `RefusedShape` says what a refusal by `allow`
  means after its lazy resets, `ElapsedExact` that the wrapped difference is the
  true one, so the lock time cannot be over.
- `LimitsRestartKeepsLocks`: files that no update has outdated hold every lock,
  under `BeforeOverflow`. The invariant is `FreshInv`: each limit in memory
  *descends* from its state in the files by lazy resets alone, static limits
  keep their configured unlock time, users without an entry have the limits of a
  new one, a fresh snapshot that is being saved has the same relation to memory,
  and only one thread saves at a time. `LazyDescends` and `LazyStep` show that
  refreshing keeps the relation, `UpdateStep` that an update makes files and
  snapshots stale, and `RefusedDescends` that a refusal carries over to what a
  limit descends from.
- `LimitsNoEarlyUnlock`: a lock ends only when its time is over or by what is
  meant to end it, under `BeforeOverflow` and `TablesLock` (no dynamic lock time
  is zero, which `allow` takes for unlocked). `LockStep` goes through the actions
  with `ShapeRefused`, the converse of `RefusedShape`: a query (`RefreshedRefused`),
  a failure (`FailedRefused`) and the clock (`StillRefused`) leave a refused limit
  refused; the restart is the theorem above; users without an entry need
  `UnknownIsNew` of `FreshInv`.

The named assumptions `ConfigAssumption`, `LimitTypesAssumption` and
`BoundsAssumption` state what `loadConfig` guarantees of a configuration and the
types of the bounds.

`SessionProofs` proves, for any factors, goroutines, capacity of the channel,
calls, signals and reports:

- `TypeCorrect`: the type invariant. `Works` says what a goroutine may have to do:
  only its next step is ever a send, since `giveStatus` puts it there.
- `ShowsDevState`: what the client was shown last of a factor is its device state.
  `ToldInv` follows a status on its way: at most one goroutine holds the
  `statusMux` of a factor; if one does, its status gave the device state; if none
  does, the last status of the factor in `resultCh` did; if there is none, the one
  that was shown last. `ToldGive` needs that `giveStatus` waits for the holder,
  `ToldSend` and `ToldReceive` that the channel is first in, first out.
- `ChargesOnce`: `CountSend` and `CountReceive` relate the places of the charged
  failures in the channel before and after a step; a receive shifts them by one,
  which is a bijection.
- `PassesAreCurrent` and `VerdictsNeedAll`: `PassInv` says that `passNumber` is the
  number of factors with a result, so that it reaches the number of the required
  ones only when all have one (`HaveFinite`). A session that has passed keeps a
  result of each of them, so the next result gives the next verdict at once.

`OtherSteps` shows that all steps but four leave alone what these invariants are
about: they keep the holders (`MovesWork`) and change no status or result.

`SessionAssumption` says that a session has a factor and each of them once, that
the MFA configuration is finite and names them all, that the channel has a
place, and the types of the bounds.

`PamAuthProofs` proves, for any number of factors, any priorities, any listing,
any number of failing calls and of statuses, and both behaviours of
`pthread_kill`:

- `OrderSorted`: the selection sort of `resolve_authctrl_factors` returns each
  factor once and by descending priority. `LargestIsFirst` says what one pass
  finds, `PassesDefined` what the recursive function is, `SwapSorted` that one
  pass extends the sorted part. The induction over the passes is on a set of
  numbers (`NatSetInduction`), from the least element of its complement.
- `TypeCorrect`: the type invariant. It needs `OrderSorted` where `order[1]` is
  read.
- `SuccessIsGranted`: the result is success only when the daemon granted it. This
  is not inductive: `get_result_val` is "pass" from the start. `SuccessInv` adds
  that, as long as nothing is granted, no message that is waiting says success,
  the results are not success, and a thread that goes on to read
  `get_result_val` finds another value there.
- `ThreadsGone`: every token thread has exited when the call returns, although
  only the last one is joined. `ThreadInv` says why that is enough: all threads
  but the last have exited, and there are none before the limits are checked.
- `HigherFirst`: a factor is verified only after every factor of higher priority
  has passed. `OrderInv` relates `cur` to the sorted `order`: all factors before
  `cur` have passed or the session has ended, and a Success that waits in `inbox`
  is that of a factor which the daemon has counted; before `Start` the daemon
  verifies nothing.
- `FailureTextIsTrue`: `PromptTrue`, an action property. The module keeps its own
  list of the failed factors and takes the first, or the password when it is among
  them or the list is empty: the text is true only because a Failure of a factor
  always comes before that of the session. `PromptInv` says so: without MFA, until
  a Failure of a factor is noted, the daemon has no Failure of the session to tell
  before one waits in `inbox`, and none waits there without one before it
  (`Explained`). It adds that noted and announced factors have failed in the daemon, and that
  one which failed is locked or has chances left.

`PamAssumption` states what `FactorsInfo` of the daemon guarantees (a finite set
of factors, each listed exactly once, each with a priority) and the types of the
bounds.

`AuthClientProofs` proves, for any users, flags, limits, signals on the way and
calls, whichever calls of the bus fail:

- `ClientTypeCorrect`: the type invariant. Its lemmas split `TypeOK` into what the
  daemon has, what is on the bus and what the handle has; one frame lemma serves
  all actions that change one of them only.
- `HandleIsSound`, `TokensAreReadable` and `StatusesAreCurrent`, for an application
  that uses a session only while it is created and quits it before the next
  (the assumption `Discipline \subseteq Rules`). It may free the handle at any
  time, and a free after a quit or a failed creation is a double free (`FreeSafe`
  in "What does not hold"): `HandleSound` says that this is the only one, and that
  no call, answer or signal uses what is freed. None of the three is inductive:
  whether a call touches freed memory depends on what earlier calls left behind.
  `SoundInv` says what they leave: between the creation of a session and its end
  the proxy and the path of the handle are not freed, no other proxy has a handler
  connected, and the session has the key of the handle;
  outside of that time nothing is connected.
- `LimitsAreConverging`: what the application was told of the limits converges to
  what the daemon has. `LimitsInv` relates three places at once, the daemon, the
  signals on the way and the handle: what was told is about the user of the handle
  and is current unless a call failed or a signal is on the way.
- `PromptsAreTrue`: an action property. `OtherValues` shows that only the calls of
  `text.c` return such a text.

`ClientAssumption` gives the constants their types and says that no user has the
name of one of the words the texts are built from.

`FingerprintTxProofs` proves, for any number of factors, goroutines and calls:

- `TxTypeCorrect`: the type invariant, which says where the mutexes are held. A
  goroutine that moves takes, keeps or gives back each mutex (`MoveTyped`), and
  one lemma per step says which.
- `ChannelsClosedOnce` (`NoDoubleClose`) and `EndedIsQuiet` (`EndStopsVerify`),
  with any methods and any number of attempts. Both speak of factors whose attempts have not
  overlapped. `AloneInv` says what such a factor keeps: one attempt at a time is
  under way (`Sole`); a closed `quit` belongs to an attempt that is ended, or
  whose `endedMu` is held (`Quits`); when it does not verify, or is ended, its attempt is over
  (`Ceased`), which `end` reads off the closed `release` or the status (`Ender`).
  What overlaps is remembered in the step in which it happens, so each action has
  to be checked only for the factors that it leaves alone.
- `DeviceIsLent`, the refinement of `Lease` as long as the factors are `Orderly`.
  `LeaseInv` is the argument why `end` may forget the claim without `claimedMu`: a
  factor that is *live*, started and not ended, is the one in `claimed`; whoever
  holds `claimedMu` has ended all of them or is about to end the last; so a live
  factor that is marked ended can only clear its own claim. `OrderlyBefore` says
  that order, once lost, does not return, so that the invariant needs no more than
  `Orderly => Lent`.

`CharaProofs` proves, for any users, actions, names, calls, capacity of the
channels and changes of the driver, hasty clients included:

- `TypeCorrect`: the type invariant, with what each local variable of a goroutine
  holds at each place (`Shape`), and where the mutexes are held: `LockInv` says
  that `actionMapMtx` and `charaInfoMtx` are held by exactly the goroutines that
  are between a Lock and its Unlock, and that there are no readers while it is
  locked for writing.
- `ClosesOnce`: no channel is closed twice or used after it was closed. `ActInv`
  says that an id is registered, then closed, and never comes back, and that what
  a goroutine is about to send goes to registered actions: it chose them under
  `actionMapMtx` and keeps the mutex until it has sent, so nobody releases them
  meanwhile. `ListenInv` says that the listener of an action is started once, by
  the EnrollStart that made the action. There is one lemma per action
  (`findMoves`, `releaseMoves`, ...), all of them instances of one frame lemma
  (`Moves`) for a goroutine that goes from one place to another.

- `SuccessIsSaved`: a client that calls EnrollStop after its listener was told of
  the success has its character stored before the action is released
  (`ToldIsSaved`). What EnrollStop looks at is the last code, so the proof must
  show that no other code replaces the success. `ToldInv` has three parts:
  `OriginInv` says where ids come from (a status is about an action that has
  begun, Delete removes only what was on file or saved); `OrderInv` that until a
  character is saved the driver keeps it and reports nothing after its success,
  neither in the queue of signals nor in the status that the loop is passing on;
  `HeardInv` that a success on its way to the listener is kept or is being passed
  on, and since the loop keeps the code before it gives `actionMapMtx` back and
  the listener looks under that mutex, it is kept by the time the client hears of
  it. Most steps touch none of this: `CalmMoves` is their frame lemma, and the
  work is in `takeStatus`, `send`, `sent`, `look`, `find`, `checkCode` and
  `Report`. That the driver reports nothing after the success is an assumption
  about the external driver (`Report`), not about the daemon.

The other three theorems are about clients that are not hasty
(`Hasty = {}`), and any driver: it may lose and regain types as often as it likes.
Without the hypothesis the properties are false (see "What does not hold").
All three rest on `HolderInv`: an EnrollStart holds its new
action alone and before its listener is there; an EnrollStop holds an action of
its own client, a listener one of its own type. `TurnInv` says that the
EnrollStop of a client that is not hasty runs alone among its calls.

- `OfferedIsStored`: a character that is offered for authentication is one that
  the driver has (`AvailableIsStored`). `SaveInv` says that a character is saved once
  and that its action is registered no longer than the EnrollStop that saved it
  needs to release it: it cannot come back after a Delete. `FileInv` is the
  strengthening for every entry, available or not: the driver has it, or its
  Delete has asked the driver and goes on to `forget`, or it is one of the characters on
  file from the start which is not available and which no list that is still on
  its way contains. The last case needs that lists are taken in order and that a list
  which was read before a deletion is applied either before `forget` or to an
  entry that is gone. `ListingMoves` follows the lists that goroutines have read.
- `ForgottenIsStopped`: the driver never stays busy for an action that the daemon
  has forgotten (`DriverServesAction`). Who releases has asked the driver to stop,
  except a listener that was told that the driver is gone. `GoneInv` says that
  this code tells the truth: nothing that is on its way, queued, handled or read by
  the listener, tells of a loss of the type for which the driver enrolls now
  (`Quiet`), unless that enrolment is one of `regained`. `QuietBegins` shows
  it when the driver starts, and `QuietKept` that it stays so, since a driver that
  loses the type ends the enrolment in the same step. `StoppedInv` adds that nobody is about to save or
  release what the driver is enrolling, and that no EnrollStart is about to start
  it again.
- `LostIsReleased`: once the daemon is at rest, the enrolment of a client that left
  the bus is released and the driver is free of it (`LostSenderReleased`). `LostInv` follows
  the loss: the bus has yet to tell it, or the loop of names is sending it, or it is
  in the channel of the action, or the listener handles it, or an EnrollStart
  still holds the action and will see for itself. `HearingInv` says that there is
  somebody to hear: the listener of a registered action is running once EnrollStart has
  let go, and its channel is there once the driver has started. Nothing of this is left at rest
  (`RestReleases`), and `StoppedInv` gives the driver.

Where a leaf names Zenon, the formula has many quantifiers and no arithmetic.

`CharaAssumption` says that the names of goroutines, ids, types and names are
different things, that a channel has a place, that every client has a user, and
that the driver is not one of the clients.

`FingerprintProofs` proves, for any clients, users, devices and goroutines:

- `TypeCorrect`: the type invariant, with the steps in which the mutex of a device
  and `PropsMu` are held.
- `ServiceAgrees`: while no claim or release of a device is going on, a device that
  the daemon has given to a client is claimed in the service, and the service has
  it for the user whom the daemon names, unless a request that timed out is pending
  or the device is stray. Claims and releases may be refused and time out, in any
  number.
  `HardwareAgrees` says nothing while a mutex is held, so it is not inductive.
  `AgreeInv` follows a request from `baseDevice.claim` or `handleNameLost` to its
  answer: a request that was not given up is the only one of its goroutine and the
  last of its device to change who has it (`Awaited`); a claim finds the device
  free or stray, or a release is performed before it (`ClaimsFree`); an answer tells what the service did, and "already claimed", which the
  daemon takes for success, comes only for a stray device (`Answered`). A timeout
  leaves a request nobody waits for, a refused release a device nobody has: both
  make the device stray when they take effect, and this is how `ClaimUsable` fails
  (see "What does not hold").

`FingerprintAssumption` says that `None` is no client, user, device or goroutine,
and which methods there are.

`ShmNotifierProofs` proves, for any readers, writes, answers and size of the
sockets:

- `TypeCorrect`: the type invariant, with the locking of `cli_fd_list`: each
  connection is in it at most once and only after it was accepted, and `list_mtx`
  is held exactly while `g_list_foreach` runs. `NodeAfter` is the successor in the
  list only because no connection is there twice (`NodeAfterIs`).
- `AnnouncementsArrive`: `NobodyMissed`. It speaks of the end of the walk, so it is
  not inductive. `MissInv` has three parts. `WalkInv` says that whoever was in the
  list when the mutex was taken has been told, has stopped, or is still ahead of
  the loop: the node it holds, or one from `write.next` on (`Ahead`). `append` cannot change
  what is ahead, since it needs the mutex; `remove` does not take it and can, and
  the proof shows that all it takes away is the reader that left, or the node that
  the loop has read already, which is then `Freed` and cuts the walk short
  (`AheadKept`). `DataInv` says that both parts of the image are of this write by
  then, so that a reader which takes the message out of its socket, and looks at
  the parts in two steps, stays told (`ToldKept`); `ReadingInv` that whoever
  receives was started by `shmn_read_loop`, so that one which no longer does counts as
  stopped. `write.cut` and `Stopped` are the two
  exemptions that the code needs: `ForeachSafe` does not hold (see "What does not
  hold"), and a reader that stops reads no more.

`NotifierAssumption` says that the readers are finitely many, that `Writer` and
`Nobody` are not among them, and the types of the bounds.

Every invariant and action property of a passing run is stated by a theorem, and
the type invariant of `Limits`, which no run lists, is proved too. Only
model-checked is liveness, which is out of the prover's reach:
`AnySuccessPasses`, `FailuresCharged` and `EndQuits` of `Session`, `CallsReturn` of
`Fingerprint` and `FingerprintTx`, `FinalReturns` of `PamAuth`, `LatestHeard` of
`ShmNotifier`.

## Not modelled

The map covers about a third of the C code; the rest of it is generated D-Bus
code that only forwards calls, argument checks, texts and the locale. Of the
daemon, these parts have no module; for each, the state that a module would have
to relate:

- Password and custom factors: conversations with PAM in a goroutine, their ids,
  and a channel that `end` closes while the conversation may send.
- Face and iris factors: `authenticate` locks the claim of the factor and the
  goroutine of the attempt unlocks it; verify actions in `charaManager`, whose
  `codeChanMap` calls and listeners write without a mutex.
- UKey: services, the default device, a verification during which the service
  restarts.
- Multi-factor configuration: the configuration in force when files are replaced
  and removed; the choice of factors of a new session, which `Session` takes as a
  parameter.
- Enrolment, names and removal of fingers: the name is chosen from what fprintd
  lists, and used when the enrolment ends.
- Signal tasks and the privileges manager: two maps under a mutex. `Session` has
  the calls of the tasks (the timers and the change of the TTY), and `AuthClient`
  the privileges of a session.
- Races of the session manager beside those in `Session`: `endAll` decides
  between Cancel and Ended before it emits, and `isStarted` is set after the
  factors were started.

Left out because there is nothing to check: encryption and key exchange (calls
of libraries, no state beyond one key, which `AuthClient` and `PamAuth` have),
the face service that only forwards calls, translations, packaging scripts, and
the start of the programs.
