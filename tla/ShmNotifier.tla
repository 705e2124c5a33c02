---------------------------- MODULE ShmNotifier ----------------------------
(***************************************************************************)
(* The shared-memory notifier of the client library (lib/src/shm-comm):    *)
(* a writer puts an image into shared memory and sends its length to every *)
(* reader over a socket; each reader then looks at the memory.  The writer *)
(* has a thread that writes and one that listens; every reader has one     *)
(* that receives.  With shmn_enable_role_ex readers may answer.            *)
(*                                                                         *)
(* The data has two parts, image_info and the pixels, and each is the      *)
(* number of the write it comes from: memcpy is not atomic.  A message is  *)
(* the number of the write that sent it, which stands for its length.      *)
(***************************************************************************)
EXTENDS Integers, Sequences, FiniteSets

CONSTANTS
    Readers,    \* processes with role SHMN_ROLE_READER
    Writer,     \* the process with role SHMN_ROLE_WRITER
    Nobody,     \* no thread, no reader
    Answering,  \* processes that use shmn_enable_role_ex
    Locking,    \* processes that use shmn_lock_channel
    Leaving,    \* readers that stop receiving or end before the others
    Cap,        \* messages a socket holds before write() blocks
    MaxWrites,  \* bound: calls of shmn_write by the writer
    MaxAnswers  \* bound: calls of shmn_write by the readers

ASSUME NotifierAssumption ==
    /\ IsFiniteSet(Readers) /\ Writer \notin Readers /\ Nobody \notin Readers \cup {Writer}
    /\ Answering \cup Locking \subseteq Readers \cup {Writer}
    /\ Leaving \subseteq Readers /\ Cap \in Nat \ {0} /\ MaxWrites \in Nat /\ MaxAnswers \in Nat

VARIABLES
    data,     \* send_data of the writer, rcvd_data of the readers: two parts
    locker,   \* locker->n, in front of the data
    at,       \* where the writing thread is
    write,    \* the number of the write, and the nodes of g_list_foreach;
              \* history: who was in the list, and whether the walk was cut short
    list,     \* cli_fd_list, by the reader at the other end
    list_mtx, \* the thread that holds it
    listener, \* the connection that the listening thread is about to append
    accepted, \* connections in its epoll set
    peer,     \* a reader's socket
    inbox,    \* messages in it that are not read
    reading,  \* a reader's receiving thread
    seen,     \* the parts that its last callback saw
    ex,       \* processes with enable_ex
    recv_cb,  \* processes that called shmn_read_loop
    answers,  \* bytes on the way to the writer
    sent,     \* answers sent
    spinning  \* processes in shmn_lock_channel

memory == <<data, locker, spinning>>
writing == <<at, write>>
listening == <<list, listener, accepted>>
reader == <<peer, reading, seen>>
exMode == <<ex, answers, sent>>
vars == <<memory, writing, listening, list_mtx, reader, inbox, recv_cb, exMode>>

LOCK_STATE_VAL == 1
UNLOCK_STATE_VAL == 0
MessageBytes == 10   \* INT_TO_STRING_MAX_LEN
BufferBytes == 4     \* read_buffer of listen_client

Alive == at \notin {"exited", "killed"}
Elements(s) == {s[i] : i \in DOMAIN s}
-----------------------------------------------------------------------------
Init ==
    /\ data = <<0, 0>> /\ locker = UNLOCK_STATE_VAL /\ spinning = {}
    /\ at = "idle"
    /\ write = [n |-> 0, node |-> Nobody, next |-> Nobody, to |-> {}, cut |-> FALSE]
    /\ list = <<>> /\ list_mtx = Nobody /\ listener = Nobody /\ accepted = {}
    /\ peer = [r \in Readers |-> "none"] /\ inbox = [r \in Readers |-> <<>>]
    /\ reading = [r \in Readers |-> "off"] /\ seen = [r \in Readers |-> <<0, 0>>]
    /\ ex = {} /\ recv_cb = {} /\ answers = [r \in Readers |-> 0]
    /\ sent = 0

(* connect_to_tcp_server: the connection waits in the backlog.             *)
shmn_create(r) ==
    /\ Alive /\ peer[r] = "none"
    /\ peer' = [peer EXCEPT ![r] = "open"]
    /\ UNCHANGED <<memory, writing, listening, list_mtx, reading, seen, inbox, recv_cb, exMode>>

Uses(p) == IF p = Writer THEN Alive ELSE peer[p] = "open"

shmn_enable_role_ex(p) ==
    /\ p \in Answering /\ Uses(p) /\ p \notin ex /\ ex' = ex \cup {p}
    /\ UNCHANGED <<memory, writing, listening, list_mtx, reader, inbox, recv_cb, answers, sent>>

shmn_read_loop(p) ==
    /\ Uses(p) /\ (p = Writer => p \in Answering) /\ p \notin recv_cb /\ recv_cb' = recv_cb \cup {p}
    /\ reading' = IF p = Writer THEN reading ELSE [reading EXCEPT ![p] = "read"]
    /\ UNCHANGED <<memory, writing, listening, list_mtx, peer, seen, inbox, exMode>>

(* The loop waits for the value that it then stores.                       *)
shmn_lock_channel(p) ==
    /\ p \in Locking /\ Uses(p) /\ (p = Writer => at = "idle")
    /\ IF locker = LOCK_STATE_VAL
       THEN spinning' = spinning \ {p} /\ locker' = LOCK_STATE_VAL
       ELSE spinning' = spinning \cup {p} /\ UNCHANGED locker
    /\ UNCHANGED <<data, writing, listening, list_mtx, reader, inbox, recv_cb, exMode>>

shmn_unlock_channel(p) ==
    /\ p \in Locking /\ Uses(p) /\ p \notin spinning /\ locker' = UNLOCK_STATE_VAL
    /\ UNCHANGED <<data, spinning, writing, listening, list_mtx, reader, inbox, recv_cb, exMode>>
-----------------------------------------------------------------------------
(* shmn_write by the writer.                                               *)
Goto(l) == at' = l
Put(i) == data' = [data EXCEPT ![i] = write'.n]

image_data_write_cb(i) == Put(i)

shmn_image_write ==
    /\ at = "idle" /\ Writer \notin spinning /\ write.n < MaxWrites
    /\ write' = [write EXCEPT !.n = @ + 1, !.to = {}, !.cut = FALSE]
    /\ image_data_write_cb(1) /\ Goto("pixels")
    /\ UNCHANGED <<locker, spinning, listening, list_mtx, reader, inbox, recv_cb, exMode>>

pixels ==
    /\ at = "pixels" /\ UNCHANGED write
    /\ image_data_write_cb(2) /\ Goto("lock")
    /\ UNCHANGED <<locker, spinning, listening, list_mtx, reader, inbox, recv_cb, exMode>>

(* The nodes behind r in cli_fd_list.                                      *)
NodeAfter(r) ==
    LET later == {q \in Elements(list) : \E i, j \in DOMAIN list :
                     i + 1 = j /\ list[i] = r /\ list[j] = q}
    IN  IF later = {} THEN Nobody ELSE CHOOSE q \in later : TRUE

lock ==
    /\ at = "lock" /\ list_mtx = Nobody /\ list_mtx' = Writer /\ Goto("send")
    /\ write' = [write EXCEPT
           !.node = IF list = <<>> THEN Nobody ELSE Head(list),
           !.next = IF list = <<>> THEN Nobody ELSE NodeAfter(Head(list)),
           !.to = Elements(list)]
    /\ UNCHANGED <<memory, listening, reader, inbox, recv_cb, exMode>>

(* g_list_foreach has read the successor before it called func, and the    *)
(* listening thread may have freed it since: what the loop then finds there *)
(* ends it or the process.                                                 *)
Freed == write.next # Nobody /\ write.next \notin Elements(list)

nextNode ==
    \/ ~Freed /\ UNCHANGED at
       /\ write' = [write EXCEPT !.node = write.next, !.next = NodeAfter(write.next)]
    \/ Freed /\ UNCHANGED at
       /\ write' = [write EXCEPT !.node = Nobody, !.next = Nobody, !.cut = TRUE]
    \/ Freed /\ Goto("killed") /\ UNCHANGED write

(* Bug: the loop ends at the first write that fails.                       *)
FailedWriteStops == UNCHANGED at /\ write' = [write EXCEPT !.node = Nobody, !.next = Nobody]

FailedWrite == nextNode

(* Bug: the socket does not block, and a full one loses the message.       *)
sendOrDrop ==
    /\ at = "send" /\ write.node # Nobody /\ peer[write.node] = "open" /\ nextNode
    /\ inbox' = IF Len(inbox[write.node]) = Cap THEN inbox
                ELSE [inbox EXCEPT ![write.node] = Append(@, write.n)]
    /\ UNCHANGED <<memory, listening, list_mtx, reader, recv_cb, exMode>>

(* write() blocks while the socket is full; into a closed one it raises    *)
(* SIGPIPE, which ends the process unless the program ignores it.          *)
server_send_data_foreach ==
    /\ at = "send" /\ write.node # Nobody
    /\ \/ /\ peer[write.node] = "open" /\ Len(inbox[write.node]) < Cap
          /\ inbox' = [inbox EXCEPT ![write.node] = Append(@, write.n)] /\ nextNode
       \/ peer[write.node] = "closed" /\ UNCHANGED inbox /\ FailedWrite
       \/ peer[write.node] = "closed" /\ UNCHANGED <<inbox, write>> /\ Goto("killed")
    /\ UNCHANGED <<memory, listening, list_mtx, reader, recv_cb, exMode>>

(* Bug: the mutex stays locked.                                            *)
unlockForgotten ==
    /\ at = "send" /\ write.node = Nobody /\ Goto("idle")
    /\ UNCHANGED <<memory, write, listening, list_mtx, reader, inbox, recv_cb, exMode>>

unlock ==
    /\ at = "send" /\ write.node = Nobody /\ list_mtx' = Nobody /\ Goto("idle")
    /\ UNCHANGED <<memory, write, listening, reader, inbox, recv_cb, exMode>>

exit ==
    /\ at = "idle" /\ write.n = MaxWrites /\ Goto("exited")
    /\ UNCHANGED <<memory, write, listening, list_mtx, reader, inbox, recv_cb, exMode>>
-----------------------------------------------------------------------------
(* listen_client, the listening thread of the writer.                      *)
Listens == Alive /\ listener = Nobody

accept(r) ==
    /\ Listens /\ peer[r] # "none" /\ r \notin accepted
    /\ accepted' = accepted \cup {r} /\ listener' = r
    /\ UNCHANGED <<memory, writing, list, list_mtx, reader, inbox, recv_cb, exMode>>

append(r) ==
    /\ Alive /\ listener = r /\ list_mtx = Nobody
    /\ list' = Append(list, r) /\ listener' = Nobody
    /\ UNCHANGED <<memory, writing, accepted, list_mtx, reader, inbox, recv_cb, exMode>>

(* read() returns 0: the node is removed without list_mtx, and the         *)
(* descriptor stays open and ready.  The list has each connection once.    *)
Without(k) == [j \in 1..(Len(list) - 1) |-> IF j < k THEN list[j] ELSE list[j + 1]]

remove(r) ==
    /\ Listens /\ r \in accepted /\ peer[r] = "closed" /\ answers[r] = 0
    /\ \/ r \notin Elements(list) /\ UNCHANGED list
       \/ \E k \in DOMAIN list : list[k] = r /\ list' = Without(k)
    /\ UNCHANGED <<memory, writing, listener, accepted, list_mtx, reader, inbox, recv_cb, exMode>>

(* read() returns at most read_buffer, a part of an answer; recv_cb is     *)
(* called with each part, and may not be set yet.  The error of a reader   *)
(* that left messages unread, which may come before the 0, is not told     *)
(* from data.                                                              *)
Least(a, b) == IF a < b THEN a ELSE b

ReadFails(r) == peer[r] = "closed" /\ inbox[r] # <<>> /\ r \in Elements(list)

hearAnswer(r) ==
    /\ Listens /\ r \in accepted /\ (answers[r] > 0 \/ ReadFails(r))
    /\ answers' = [answers EXCEPT ![r] = @ - Least(@, BufferBytes)]
    /\ IF Writer \in ex \ recv_cb THEN Goto("killed") ELSE UNCHANGED at
    /\ UNCHANGED <<memory, write, listening, list_mtx, reader, inbox, recv_cb, ex, sent>>
-----------------------------------------------------------------------------
(* recv_loop, and the callback of shmn_image_read_loop, which takes both   *)
(* parts: the first here, the second in pixelsSeen.                        *)
recv_loop(r) ==
    /\ reading[r] = "read" /\ peer[r] = "open" /\ inbox[r] # <<>>
    /\ inbox' = [inbox EXCEPT ![r] = Tail(@)]
    /\ reading' = [reading EXCEPT ![r] = "half"] /\ seen' = [seen EXCEPT ![r][1] = data[1]]
    /\ UNCHANGED <<memory, writing, listening, list_mtx, peer, recv_cb, exMode>>

image_data_read_cb(r) ==
    /\ reading[r] = "half" /\ peer[r] = "open"
    /\ reading' = [reading EXCEPT ![r] = "read"] /\ seen' = [seen EXCEPT ![r][2] = data[2]]
    /\ UNCHANGED <<memory, writing, listening, list_mtx, peer, inbox, recv_cb, exMode>>

(* The writer is gone: read() returns 0 for ever, and the callback gets    *)
(* CB_ERR_DISCONNETED each time.                                           *)
disconnected(r) ==
    /\ reading[r] = "read" /\ peer[r] = "open" /\ inbox[r] = <<>> /\ ~Alive
    /\ seen' = [seen EXCEPT ![r] = <<0, 0>>]
    /\ UNCHANGED <<memory, writing, listening, list_mtx, peer, reading, inbox, recv_cb, exMode>>

(* shmn_write by a reader.                                                 *)
answer(r) ==
    /\ peer[r] = "open" /\ r \in ex /\ r \notin spinning /\ sent < MaxAnswers /\ Alive
    /\ answers' = [answers EXCEPT ![r] = @ + MessageBytes]
    /\ sent' = sent + 1
    /\ UNCHANGED <<memory, writing, listening, list_mtx, reader, inbox, recv_cb, ex>>

(* shmn_free cancels the thread.  It does not close self_fd, and unmaps    *)
(* nothing: send_data and rcvd_data do not start a page.                   *)
shmn_free(r) ==
    /\ r \in Leaving /\ peer[r] = "open" /\ reading[r] # "off"
    /\ reading' = [reading EXCEPT ![r] = "off"]
    /\ UNCHANGED <<memory, writing, listening, list_mtx, peer, seen, inbox, recv_cb, exMode>>

(* The process of a reader ends, and its socket is closed.                 *)
leave(r) ==
    /\ r \in Leaving /\ peer[r] = "open" /\ peer' = [peer EXCEPT ![r] = "closed"]
    /\ reading' = [reading EXCEPT ![r] = "off"] /\ spinning' = spinning \ {r}
    /\ UNCHANGED <<data, locker, writing, listening, list_mtx, seen, inbox, recv_cb, exMode>>
-----------------------------------------------------------------------------
shmn_write == pixels \/ lock \/ server_send_data_foreach \/ unlock
listen_client == \E r \in Readers : accept(r) \/ append(r) \/ remove(r) \/ hearAnswer(r)
receives(r) == recv_loop(r) \/ image_data_read_cb(r)

Next ==
    \/ shmn_image_write \/ shmn_write \/ exit \/ listen_client
    \/ \E p \in Readers \cup {Writer} : shmn_enable_role_ex(p) \/ shmn_read_loop(p)
                                     \/ shmn_lock_channel(p) \/ shmn_unlock_channel(p)
    \/ \E r \in Readers : \/ shmn_create(r) \/ receives(r) \/ disconnected(r)
                          \/ answer(r) \/ shmn_free(r) \/ leave(r)

Spec == Init /\ [][Next]_vars

(* Threads that can run do run; nobody has to call anything.               *)
FairSpec == Spec /\ WF_vars(shmn_write) /\ WF_vars(listen_client)
                 /\ \A r \in Readers : WF_vars(receives(r))
-----------------------------------------------------------------------------
(* Types, and what the locking is for: a connection is in cli_fd_list at   *)
(* most once, only after it was accepted, and the mutex is held exactly    *)
(* while g_list_foreach runs (or by a writer that died in it).             *)
TypeOK ==
    /\ data \in (0..MaxWrites) \X (0..MaxWrites) /\ locker \in {LOCK_STATE_VAL, UNLOCK_STATE_VAL}
    /\ at \in {"idle", "pixels", "lock", "send", "exited", "killed"}
    /\ write \in [n : 0..MaxWrites, node : Readers \cup {Nobody}, next : Readers \cup {Nobody},
                  to : SUBSET Readers, cut : BOOLEAN]
    /\ at \in {"pixels", "lock", "send"} => write.n > 0
    /\ list \in Seq(accepted) /\ accepted \subseteq Readers
    /\ \A i, j \in DOMAIN list : i # j => list[i] # list[j]
    /\ listener \in accepted \cup {Nobody} /\ listener \notin Elements(list)
    /\ list_mtx \in {Nobody, Writer} /\ (at = "send" => list_mtx = Writer)
    /\ (at \in {"idle", "pixels", "lock", "exited"} => list_mtx = Nobody)
    /\ peer \in [Readers -> {"none", "open", "closed"}]
    /\ reading \in [Readers -> {"off", "read", "half"}]
    /\ seen \in [Readers -> (0..MaxWrites) \X (0..MaxWrites)]
    /\ inbox \in [Readers -> Seq(1..write.n)] /\ \A r \in Readers : Len(inbox[r]) <= Cap
    /\ ex \cup recv_cb \cup spinning \subseteq Readers \cup {Writer}
    /\ answers \in [Readers -> Nat] /\ sent \in 0..MaxAnswers

(* A reader has the announcement of a write waiting, or its callback is    *)
(* looking at the image, or has seen both parts of it.                     *)
Told(r) ==
    \/ write.n \in Elements(inbox[r])
    \/ seen[r][1] = write.n /\ (reading[r] = "half" \/ seen[r][2] = write.n)

Stopped(r) == peer[r] = "closed" \/ (reading[r] = "off" /\ r \in recv_cb)

(* When g_list_foreach has ended, and until the next image is written, no  *)
(* reader that was in cli_fd_list when the mutex was taken has been passed *)
(* over or told of an image that is not there (shm_notifier.c:295-312):    *)
(* whoever is appended, removed, answers or reads meanwhile, unless the    *)
(* reader has stopped or a node was freed under the loop.                  *)
NobodyMissed ==
    (at = "idle" \/ (at = "send" /\ write.node = Nobody)) /\ ~write.cut
        => \A r \in write.to : Told(r) \/ Stopped(r)

(* A reader that does not receive and whose socket is full stops           *)
(* server_send_data_foreach (shm_notifier.c:280) in write().               *)
Stuck == at = "send" /\ write.node # Nobody /\ Len(inbox[write.node]) = Cap
         /\ reading[write.node] = "off"

(* A reader that is in cli_fd_list when an image is announced has its      *)
(* callback called with an image at least as new, in both parts            *)
(* (shm_notifier.c:295-311, 332-343, shmn_image.c:27-77), whoever comes,   *)
(* answers and leaves meanwhile, unless it stops itself, the writer dies   *)
(* or is stuck, or g_list_foreach steps on a node that was freed.          *)
LatestHeard ==
    \A r \in Readers, v \in 1..MaxWrites :
        (at = "send" /\ write.n = v /\ r \in Elements(list))
            ~> \/ seen[r][1] >= v /\ seen[r][2] >= v
               \/ reading[r] = "off" \/ ~Alive \/ Stuck \/ Freed

(* What a reader sees is one image (shmn_image.c:34-77, with the lock of   *)
(* shm_notifier.c:363-398 free for both sides).  The code does not promise *)
(* it: the next write overwrites the image under the callback.             *)
NoTornData == \A r \in Readers : reading[r] = "read" => seen[r][1] = seen[r][2]

(* shmn_lock_channel returns (shm_notifier.c:363-382).                     *)
LockReturns == \A p \in Readers \cup {Writer} : p \in spinning ~> p \notin spinning

(* A write of the writer returns, whatever the readers do                  *)
(* (shm_notifier.c:309-311).                                               *)
WriteReturns == at = "send" ~> at \in {"idle", "exited", "killed"}

(* The list is stable while it is walked (shm_notifier.c:48, 309-311).     *)
ForeachSafe == at = "send" => ~Freed
=============================================================================
