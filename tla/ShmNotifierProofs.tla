------------------------- MODULE ShmNotifierProofs -------------------------
(***************************************************************************)
(* Proofs about ShmNotifier: the types, with the locking of cli_fd_list,   *)
(* and that no reader in the list is passed over by a write (NobodyMissed).*)
(***************************************************************************)
EXTENDS ShmNotifier, SequenceTheorems, TLAPS

(* TypeOK by what the steps change together.                               *)
MemoryOK == /\ data \in (0..MaxWrites) \X (0..MaxWrites)
            /\ locker \in {LOCK_STATE_VAL, UNLOCK_STATE_VAL}

WritingOK == /\ at \in {"idle", "pixels", "lock", "send", "exited", "killed"}
             /\ write \in [n : 0..MaxWrites, node : Readers \cup {Nobody},
                           next : Readers \cup {Nobody}, to : SUBSET Readers, cut : BOOLEAN]
             /\ (at \in {"pixels", "lock", "send"} => write.n > 0)

Once(s) == \A i, j \in DOMAIN s : i # j => s[i] # s[j]

ListOK == /\ list \in Seq(accepted) /\ accepted \subseteq Readers /\ Once(list)
          /\ listener \in accepted \cup {Nobody} /\ listener \notin Elements(list)

LockOK == /\ list_mtx \in {Nobody, Writer} /\ (at = "send" => list_mtx = Writer)
          /\ (at \in {"idle", "pixels", "lock", "exited"} => list_mtx = Nobody)

ReaderOK == /\ peer \in [Readers -> {"none", "open", "closed"}]
            /\ reading \in [Readers -> {"off", "read", "half"}]
            /\ seen \in [Readers -> (0..MaxWrites) \X (0..MaxWrites)]

InboxOK == inbox \in [Readers -> Seq(1..write.n)] /\ \A r \in Readers : Len(inbox[r]) <= Cap

ExOK == /\ ex \cup recv_cb \cup spinning \subseteq Readers \cup {Writer}
        /\ answers \in [Readers -> Nat] /\ sent \in 0..MaxAnswers

LEMMA TypeParts ==
    TypeOK <=> MemoryOK /\ WritingOK /\ ListOK /\ LockOK /\ ReaderOK /\ InboxOK /\ ExOK
    BY DEF TypeOK, MemoryOK, WritingOK, ListOK, Once, LockOK, ReaderOK, InboxOK, ExOK

LEMMA PartsTyped ==
    MemoryOK' /\ WritingOK' /\ ListOK' /\ LockOK' /\ ReaderOK' /\ InboxOK' /\ ExOK' => TypeOK'
    BY DEF TypeOK, MemoryOK, WritingOK, ListOK, Once, LockOK, ReaderOK, InboxOK, ExOK

LEMMA Apart == Writer # Nobody /\ Nobody \notin Readers /\ Writer \notin Readers
    BY NotifierAssumption

-----------------------------------------------------------------------------
(* Lists.                                                                  *)
LEMMA WithoutOnce ==
    ASSUME NEW S, list \in Seq(S), Once(list), NEW k \in DOMAIN list
    PROVE  /\ Without(k) \in Seq(S) /\ Once(Without(k))
           /\ DOMAIN Without(k) = 1..(Len(list) - 1)
           /\ \A j \in 1..(Len(list) - 1) : Without(k)[j] = IF j < k THEN list[j] ELSE list[j + 1]
           /\ Elements(Without(k)) = Elements(list) \ {list[k]}
<1> DEFINE n == Len(list) - 1
           w == Without(k)
<1>1. Len(list) \in Nat /\ DOMAIN list = 1..Len(list) /\ k \in 1..Len(list)
    OBVIOUS
<1>2. n \in Nat
    BY <1>1
<1>3. \A j \in 1..n : j \in DOMAIN list /\ j + 1 \in DOMAIN list
    BY <1>1
<1>4. DOMAIN w = 1..n /\ \A j \in 1..n : w[j] = IF j < k THEN list[j] ELSE list[j + 1]
    BY DEF Without
<1>5. \A j \in 1..n : w[j] \in S
    BY <1>3, <1>4
<1>6. w \in Seq(S)
    BY <1>2, <1>5, IsASeq DEF Without
<1>7. Once(w)
  <2> SUFFICES ASSUME NEW i \in 1..n, NEW j \in 1..n, i # j PROVE w[i] # w[j]
      BY <1>4 DEF Once
  <2> DEFINE p == IF i < k THEN i ELSE i + 1
             q == IF j < k THEN j ELSE j + 1
  <2>1. p \in DOMAIN list /\ q \in DOMAIN list /\ p # q
      BY <1>1
  <2>2. w[i] = list[p] /\ w[j] = list[q]
      BY <1>4
  <2> QED
      BY <2>1, <2>2 DEF Once
<1>8. Elements(w) \subseteq Elements(list) \ {list[k]}
    BY <1>1, <1>3, <1>4 DEF Once, Elements
<1>9. ASSUME NEW x \in Elements(list), x # list[k] PROVE x \in Elements(w)
  <2>1. PICK i \in DOMAIN list : list[i] = x
      BY DEF Elements
  <2>2. CASE i < k
    <3>1. i \in 1..n /\ w[i] = x
        BY <1>1, <1>4, <2>1, <2>2
    <3> QED
        BY <1>4, <3>1 DEF Elements
  <2>3. CASE i > k
    <3>1. i - 1 \in 1..n /\ ~(i - 1 < k) /\ (i - 1) + 1 = i
        BY <1>1, <2>3
    <3>2. w[i - 1] = x
        BY <1>4, <2>1, <3>1
    <3> QED
        BY <1>4, <3>1, <3>2 DEF Elements
  <2> QED
      BY <1>1, <1>9, <2>1, <2>2, <2>3
<1> HIDE DEF n, w
<1> QED
    BY <1>4, <1>6, <1>7, <1>8, <1>9 DEF n, w

LEMMA AppendOnce ==
    ASSUME NEW S, list \in Seq(S), Once(list), NEW x \in S, x \notin Elements(list)
    PROVE  Append(list, x) \in Seq(S) /\ Once(Append(list, x))
           /\ Elements(Append(list, x)) = Elements(list) \cup {x}
<1>1. /\ Append(list, x) \in Seq(S) /\ Len(Append(list, x)) = Len(list) + 1
      /\ \A i \in 1..Len(list) : Append(list, x)[i] = list[i]
      /\ Append(list, x)[Len(list) + 1] = x
    BY AppendProperties
<1>2. DOMAIN list = 1..Len(list) /\ DOMAIN Append(list, x) = 1..(Len(list) + 1) /\ Len(list) \in Nat
    BY <1>1, LenProperties
<1>3. Once(Append(list, x))
    BY <1>1, <1>2 DEF Once, Elements
<1>4. Elements(Append(list, x)) = Elements(list) \cup {x}
    BY <1>1, <1>2 DEF Elements
<1> QED
    BY <1>1, <1>3, <1>4

(* The node behind list[i] is list[i + 1].                                 *)
LEMMA NodeAfterIs ==
    ASSUME list \in Seq(Readers), Once(list), NEW i \in DOMAIN list
    PROVE  /\ i + 1 \in DOMAIN list => NodeAfter(list[i]) = list[i + 1]
           /\ i + 1 \notin DOMAIN list => NodeAfter(list[i]) = Nobody
<1> DEFINE later == {q \in Elements(list) : \E k, j \in DOMAIN list :
                        k + 1 = j /\ list[k] = list[i] /\ list[j] = q}
<1>1. DOMAIN list = 1..Len(list) /\ Len(list) \in Nat
    OBVIOUS
<1>2. \A q \in later : i + 1 \in DOMAIN list /\ q = list[i + 1]
    BY <1>1 DEF Once
<1>3. i + 1 \in DOMAIN list => list[i + 1] \in later
    BY <1>1 DEF Elements
<1>4. NodeAfter(list[i]) = IF later = {} THEN Nobody ELSE CHOOSE q \in later : TRUE
    BY DEF NodeAfter
<1> HIDE DEF later
<1>5. later # {} => (CHOOSE q \in later : TRUE) \in later
    OBVIOUS
<1> QED
    BY <1>2, <1>3, <1>4, <1>5

LEMMA NodeAfterTyped ==
    ASSUME list \in Seq(Readers), NEW x
    PROVE  /\ NodeAfter(x) \in Readers \cup {Nobody}
           /\ x \notin Elements(list) => NodeAfter(x) = Nobody
<1> DEFINE later == {q \in Elements(list) : \E k, j \in DOMAIN list :
                        k + 1 = j /\ list[k] = x /\ list[j] = q}
<1>1. later \subseteq Readers
    BY DEF Elements
<1>2. x \notin Elements(list) => later = {}
    BY DEF Elements
<1>3. NodeAfter(x) = IF later = {} THEN Nobody ELSE CHOOSE q \in later : TRUE
    BY DEF NodeAfter
<1> HIDE DEF later
<1> QED
    BY <1>1, <1>2, <1>3

-----------------------------------------------------------------------------
(* Steps that leave the list and the sockets alone.                        *)
LEMMA ListKept ==
    UNCHANGED <<list, listener, accepted>> /\ ListOK => ListOK'
    BY DEF ListOK, Once, Elements

LEMMA InboxKept ==
    ASSUME UNCHANGED inbox, InboxOK, WritingOK, write'.n \in Nat, write.n <= write'.n
    PROVE  InboxOK'
<1>1. write.n \in Nat
    BY NotifierAssumption DEF WritingOK
<1>2. ASSUME NEW r \in Readers PROVE inbox[r] \in Seq(1..write'.n)
  <2>1. inbox[r] \in Seq(1..write.n) /\ 1..write.n \subseteq 1..write'.n
      BY <1>1 DEF InboxOK
  <2> QED
      BY <2>1, SeqMonotonic
<1> QED
    BY <1>2 DEF InboxOK

(* Both at once, when no image is written.                                 *)
LEMMA SocketsKept ==
    ASSUME TypeOK, UNCHANGED <<list, listener, accepted, inbox, write>>
    PROVE  ListOK' /\ InboxOK'
    BY ListKept, TypeParts DEF InboxOK

LEMMA WriteFields ==
    ASSUME WritingOK
    PROVE  /\ write.n \in 0..MaxWrites /\ write.n \in Nat /\ write.node \in Readers \cup {Nobody}
           /\ write.next \in Readers \cup {Nobody} /\ write.to \in SUBSET Readers
           /\ write.cut \in BOOLEAN
           /\ write = [n |-> write.n, node |-> write.node, next |-> write.next, to |-> write.to,
                       cut |-> write.cut]
    BY NotifierAssumption DEF WritingOK

LEMMA ListTyped == ASSUME ListOK PROVE list \in Seq(Readers) /\ Elements(list) \subseteq Readers
<1>1. list \in Seq(Readers)
    BY SeqMonotonic DEF ListOK
<1> QED
    BY <1>1 DEF Elements

(* The nodes of g_list_foreach.                                            *)
LEMMA NextNodeTyped ==
    ASSUME WritingOK, ListOK, nextNode
    PROVE  /\ write'.n = write.n /\ write'.to = write.to
           /\ write' \in [n : 0..MaxWrites, node : Readers \cup {Nobody},
                          next : Readers \cup {Nobody}, to : SUBSET Readers, cut : BOOLEAN]
           /\ at' = at \/ at' = "killed"
<1>1. NodeAfter(write.next) \in Readers \cup {Nobody}
    BY ListTyped, NodeAfterTyped
<1>2. CASE ~Freed /\ UNCHANGED at
           /\ write' = [write EXCEPT !.node = write.next, !.next = NodeAfter(write.next)]
    BY <1>1, <1>2, WriteFields
<1>3. CASE UNCHANGED at /\ write' = [write EXCEPT !.node = Nobody, !.next = Nobody, !.cut = TRUE]
    BY <1>3, WriteFields
<1>4. CASE Goto("killed") /\ UNCHANGED write
    BY <1>4, WriteFields DEF WritingOK, Goto
<1> QED
    BY <1>2, <1>3, <1>4 DEF nextNode

LEMMA PartTyped ==
    ASSUME NEW i \in {1, 2}, WritingOK', MemoryOK, Put(i), UNCHANGED locker
    PROVE  MemoryOK'
<1>1. write'.n \in 0..MaxWrites
    BY DEF WritingOK
<1> QED
    BY <1>1 DEF Put, MemoryOK

LEMMA WriteTyped ==
    ASSUME TypeOK, shmn_image_write \/ shmn_write \/ exit
    PROVE  TypeOK'
<1> USE NotifierAssumption
<1>0. MemoryOK /\ WritingOK /\ ListOK /\ LockOK /\ ReaderOK /\ InboxOK /\ ExOK
    BY TypeParts
<1>1. CASE shmn_image_write
  <2>1. write' = [write EXCEPT !.n = @ + 1, !.to = {}, !.cut = FALSE] /\ at' = "pixels" /\ at = "idle"
        /\ write.n < MaxWrites
      BY <1>1 DEF shmn_image_write, Goto
  <2>2. write'.n = write.n + 1 /\ WritingOK'
    <3>1. write' = [n |-> write.n + 1, node |-> write.node, next |-> write.next, to |-> {},
                    cut |-> FALSE]
        BY <1>0, <2>1, WriteFields
    <3>2. write.n + 1 \in 0..MaxWrites /\ write.n + 1 > 0
        BY <1>0, <2>1, WriteFields
    <3> QED
        BY <1>0, <2>1, <3>1, <3>2, WriteFields DEF WritingOK
  <2>3. MemoryOK'
      BY <1>0, <1>1, <2>2, PartTyped DEF shmn_image_write, image_data_write_cb
  <2>4. LockOK' /\ ReaderOK' /\ ExOK'
      BY <1>0, <1>1, <2>1 DEF shmn_image_write, LockOK, ReaderOK, ExOK, reader, exMode
  <2>5. ListOK' /\ InboxOK'
      BY <1>0, <1>1, <2>2, WriteFields, ListKept, InboxKept DEF shmn_image_write, listening
  <2> QED
      BY <2>2, <2>3, <2>4, <2>5, PartsTyped
<1>2. CASE pixels
  <2>1. WritingOK'
      BY <1>0, <1>2 DEF pixels, Goto, WritingOK
  <2>2. MemoryOK'
      BY <1>0, <1>2, <2>1, PartTyped DEF pixels, image_data_write_cb
  <2>3. LockOK' /\ ReaderOK' /\ ExOK'
      BY <1>0, <1>2 DEF pixels, Goto, LockOK, ReaderOK, ExOK, reader, exMode
  <2>4. ListOK' /\ InboxOK'
      BY <1>2, SocketsKept DEF pixels, listening
  <2> QED
      BY <2>1, <2>2, <2>3, <2>4, PartsTyped
<1>3. CASE unlock \/ exit
  <2>1. MemoryOK' /\ WritingOK' /\ LockOK' /\ ReaderOK' /\ ExOK'
      BY <1>0, <1>3 DEF unlock, exit, Goto, MemoryOK, WritingOK, LockOK, ReaderOK, ExOK, listening,
         reader, exMode, memory
  <2>2. ListOK' /\ InboxOK'
      BY <1>3, SocketsKept DEF unlock, exit, listening
  <2> QED
      BY <2>1, <2>2, PartsTyped
<1>4. CASE lock
  <2> DEFINE node == IF list = <<>> THEN Nobody ELSE Head(list)
             next == IF list = <<>> THEN Nobody ELSE NodeAfter(Head(list))
  <2>1. list # <<>> => Head(list) \in Readers /\ NodeAfter(Head(list)) \in Readers \cup {Nobody}
      BY <1>0, ListTyped, NodeAfterTyped
  <2>2. /\ write' = [write EXCEPT !.node = node, !.next = next, !.to = Elements(list)]
        /\ at = "lock" /\ at' = "send"
      BY <1>4 DEF lock, Goto
  <2>3. node \in Readers \cup {Nobody} /\ next \in Readers \cup {Nobody} /\ Elements(list) \in SUBSET Readers
      BY <1>0, <2>1, ListTyped
  <2> HIDE DEF node, next
  <2>4. WritingOK' /\ write'.n = write.n
      BY <1>0, <2>2, <2>3, WriteFields DEF WritingOK
  <2>5. MemoryOK' /\ LockOK' /\ ReaderOK' /\ ExOK'
      BY <1>0, <1>4 DEF lock, Goto, MemoryOK, LockOK, ReaderOK, ExOK, reader, exMode, memory
  <2>6. ListOK' /\ InboxOK'
      BY <1>0, <1>4, <2>4, WriteFields, ListKept DEF InboxOK, lock, listening
  <2> QED
      BY <2>4, <2>5, <2>6, PartsTyped
<1>5. CASE server_send_data_foreach
  <2>1. write'.n = write.n /\ at = "send" /\ at' \in {"send", "killed"} /\ WritingOK'
    <3>1. CASE nextNode
        BY <1>0, <1>5, <3>1, NextNodeTyped DEF server_send_data_foreach, WritingOK
    <3>2. CASE UNCHANGED write /\ Goto("killed")
        BY <1>0, <1>5, <3>2 DEF server_send_data_foreach, WritingOK, Goto
    <3> QED
        BY <1>5, <3>1, <3>2 DEF server_send_data_foreach, FailedWrite
  <2>2. MemoryOK' /\ LockOK' /\ ReaderOK' /\ ExOK'
      BY <1>0, <1>5, <2>1 DEF server_send_data_foreach, MemoryOK, LockOK, ReaderOK, ExOK, reader, exMode,
         memory
  <2>3. ListOK'
      BY <1>0, <1>5, ListKept DEF server_send_data_foreach, listening
  <2>4. CASE UNCHANGED inbox
      BY <1>0, <2>1, <2>2, <2>3, <2>4, PartsTyped DEF InboxOK
  <2>5. CASE inbox' = [inbox EXCEPT ![write.node] = Append(@, write.n)] /\ Len(inbox[write.node]) < Cap
    <3> DEFINE q == inbox[write.node]
    <3>1. write.node \in Readers
        BY <1>0, <1>5, WriteFields DEF server_send_data_foreach
    <3>2. write.n \in 1..write.n
        BY <1>0, <2>1, WriteFields DEF WritingOK
    <3>3. q \in Seq(1..write.n) /\ Len(q) < Cap
        BY <1>0, <2>5, <3>1 DEF InboxOK
    <3>4. Append(q, write.n) \in Seq(1..write.n) /\ Len(Append(q, write.n)) = Len(q) + 1 /\ Len(q) \in Nat
        BY <3>2, <3>3, AppendProperties, LenProperties
    <3> HIDE DEF q
    <3>5. inbox' = [inbox EXCEPT ![write.node] = Append(q, write.n)]
        BY <2>5 DEF q
    <3>6. InboxOK'
        BY <1>0, <2>1, <3>1, <3>3, <3>4, <3>5 DEF InboxOK
    <3> QED
        BY <2>1, <2>2, <2>3, <3>6, PartsTyped
  <2> QED
      BY <1>5, <2>4, <2>5 DEF server_send_data_foreach
<1> QED
    BY <1>1, <1>2, <1>3, <1>4, <1>5 DEF shmn_write

LEMMA ListenTyped ==
    ASSUME TypeOK, listen_client
    PROVE  TypeOK'
<1>1. MemoryOK /\ WritingOK /\ ListOK /\ LockOK /\ ReaderOK /\ InboxOK /\ ExOK
    BY TypeParts
<1>2. PICK r \in Readers : accept(r) \/ append(r) \/ remove(r) \/ hearAnswer(r)
    BY DEF listen_client
<1>3. MemoryOK' /\ WritingOK' /\ LockOK' /\ ReaderOK' /\ InboxOK'
  <2>1. /\ UNCHANGED <<memory, write, list_mtx, reader, inbox>>
        /\ at' = at \/ at' = "killed"
      BY <1>2 DEF accept, append, remove, hearAnswer, writing, Goto
  <2> QED
      BY <1>1, <2>1 DEF MemoryOK, WritingOK, LockOK, ReaderOK, InboxOK, memory, reader
<1>4. ExOK'
  <2>1. CASE UNCHANGED <<answers, ex, recv_cb, spinning, sent>>
      BY <1>1, <2>1 DEF ExOK
  <2>2. CASE hearAnswer(r)
    <3>1. answers[r] \in Nat /\ answers[r] - Least(answers[r], BufferBytes) \in Nat
        BY <1>1 DEF ExOK, Least, BufferBytes
    <3> QED
        BY <1>1, <2>2, <3>1 DEF hearAnswer, memory, ExOK
  <2> QED
      BY <1>2, <2>1, <2>2 DEF accept, append, remove, exMode, memory
<1>5. ListOK'
  <2>1. CASE accept(r)
    <3>1. list \in Seq(accepted') /\ accepted' \subseteq Readers
        BY <1>1, <2>1, SeqMonotonic DEF accept, ListOK
    <3>2. r \notin Elements(list)
        BY <1>1, <2>1 DEF accept, ListOK, Elements
    <3> QED
        BY <1>1, <2>1, <3>1, <3>2 DEF accept, ListOK, Once, Elements
  <2>2. CASE append(r)
    <3>1. r \notin Elements(list) /\ list' = Append(list, r) /\ accepted' = accepted /\ listener' = Nobody
        BY <1>1, <2>2 DEF append, ListOK
    <3>2. r \in accepted
        BY <1>1, <2>2, Apart DEF append, ListOK
    <3>3. Append(list, r) \in Seq(accepted) /\ Once(Append(list, r))
          /\ Elements(Append(list, r)) = Elements(list) \cup {r}
        BY <1>1, <3>1, <3>2, AppendOnce DEF ListOK
    <3>4. Nobody \notin Elements(list) \cup {r}
        BY <1>1, Apart, ListTyped
    <3> QED
        BY <1>1, <3>1, <3>3, <3>4 DEF ListOK, Once, Elements
  <2>3. CASE remove(r)
    <3>1. CASE UNCHANGED list
        BY <1>1, <2>3, <3>1, ListKept DEF remove
    <3>2. ASSUME NEW k \in DOMAIN list, list' = Without(k) PROVE ListOK'
      <4>1. /\ list' \in Seq(accepted) /\ Once(list') /\ Elements(list') \subseteq Elements(list)
          BY <1>1, <3>2, WithoutOnce DEF ListOK
      <4> QED
          BY <1>1, <2>3, <4>1 DEF remove, ListOK, Once, Elements
    <3> QED
        BY <2>3, <3>1, <3>2 DEF remove
  <2>4. CASE hearAnswer(r)
      BY <1>1, <2>4, ListKept DEF hearAnswer, listening
  <2> QED
      BY <1>2, <2>1, <2>2, <2>3, <2>4
<1> QED
    BY <1>3, <1>4, <1>5, PartsTyped

(* Calls of the application, and readers.                                  *)
Calls(p) == shmn_enable_role_ex(p) \/ shmn_read_loop(p) \/ shmn_lock_channel(p) \/ shmn_unlock_channel(p)

Reads(r) == \/ shmn_create(r) \/ receives(r) \/ disconnected(r)
            \/ answer(r) \/ shmn_free(r) \/ leave(r)

LEMMA CallsTyped ==
    ASSUME TypeOK, NEW p \in Readers \cup {Writer}, Calls(p)
    PROVE  TypeOK'
<1>1. MemoryOK /\ WritingOK /\ ListOK /\ LockOK /\ ReaderOK /\ InboxOK /\ ExOK
    BY TypeParts
<1>2. UNCHANGED <<data, writing, listening, list_mtx, peer, seen, inbox, answers, sent>>
    BY DEF Calls, shmn_enable_role_ex, shmn_read_loop, shmn_lock_channel, shmn_unlock_channel, memory,
       reader, exMode
<1>3. WritingOK' /\ LockOK' /\ ListOK' /\ InboxOK'
    BY <1>1, <1>2, SocketsKept DEF WritingOK, LockOK, writing, listening
<1>4. MemoryOK'
    BY <1>1, <1>2 DEF Calls, shmn_enable_role_ex, shmn_read_loop, shmn_lock_channel, shmn_unlock_channel,
       memory, MemoryOK
<1>5. ReaderOK'
  <2>1. CASE UNCHANGED reading
      BY <1>1, <1>2, <2>1 DEF ReaderOK
  <2>2. CASE reading' = [reading EXCEPT ![p] = "read"] /\ p # Writer
      BY <1>1, <1>2, <2>2 DEF ReaderOK
  <2> QED
      BY <2>1, <2>2 DEF Calls, shmn_enable_role_ex, shmn_read_loop, shmn_lock_channel,
         shmn_unlock_channel, reader
<1>6. ExOK'
    BY <1>1, <1>2 DEF Calls, shmn_enable_role_ex, shmn_read_loop, shmn_lock_channel, shmn_unlock_channel,
       memory, exMode, ExOK
<1> QED
    BY <1>3, <1>4, <1>5, <1>6, PartsTyped

LEMMA ReadsTyped ==
    ASSUME TypeOK, NEW r \in Readers, Reads(r)
    PROVE  TypeOK'
<1>1. MemoryOK /\ WritingOK /\ ListOK /\ LockOK /\ ReaderOK /\ InboxOK /\ ExOK
    BY TypeParts
<1>2. UNCHANGED <<data, locker, writing, listening, list_mtx, recv_cb, ex>>
    BY DEF Reads, shmn_create, receives, recv_loop, image_data_read_cb, disconnected, answer, shmn_free,
       leave, memory, exMode
<1>3. MemoryOK' /\ WritingOK' /\ LockOK' /\ ListOK'
    BY <1>1, <1>2, ListKept DEF MemoryOK, WritingOK, LockOK, writing, listening
<1>4. InboxOK'
  <2>1. CASE UNCHANGED inbox
      BY <1>1, <1>2, <2>1, SocketsKept DEF writing, listening
  <2>2. CASE recv_loop(r)
    <3>1. inbox[r] \in Seq(1..write.n) /\ inbox[r] # <<>>
        BY <1>1, <2>2 DEF recv_loop, InboxOK
    <3>2. Tail(inbox[r]) \in Seq(1..write.n) /\ Len(Tail(inbox[r])) = Len(inbox[r]) - 1
          /\ Len(inbox[r]) \in Nat
        BY <3>1, HeadTailProperties, LenProperties
    <3> QED
        BY <1>1, <1>2, <2>2, <3>2, NotifierAssumption DEF recv_loop, InboxOK, writing
  <2> QED
      BY <2>1, <2>2 DEF Reads, shmn_create, receives, image_data_read_cb, disconnected, answer,
         shmn_free, leave, reader
<1>5. ReaderOK'
  <2>1. data[1] \in 0..MaxWrites /\ data[2] \in 0..MaxWrites /\ 0 \in 0..MaxWrites
      BY <1>1, NotifierAssumption DEF MemoryOK
  <2>2. /\ peer' = peer \/ \E p \in {"open", "closed"} : peer' = [peer EXCEPT ![r] = p]
        /\ reading' = reading \/ \E x \in {"off", "half", "read"} : reading' = [reading EXCEPT ![r] = x]
      BY DEF Reads, shmn_create, receives, recv_loop, image_data_read_cb, disconnected, answer,
         shmn_free, leave, reader
  <2>3. \/ seen' = seen \/ seen' = [seen EXCEPT ![r] = <<0, 0>>]
        \/ seen' = [seen EXCEPT ![r][1] = data[1]] \/ seen' = [seen EXCEPT ![r][2] = data[2]]
      BY DEF Reads, shmn_create, receives, recv_loop, image_data_read_cb, disconnected, answer,
         shmn_free, leave, reader
  <2>4. seen' \in [Readers -> (0..MaxWrites) \X (0..MaxWrites)]
      BY <1>1, <2>1, <2>3 DEF ReaderOK
  <2> QED
      BY <1>1, <2>2, <2>4 DEF ReaderOK
<1>6. ExOK'
    BY <1>1, <1>2, NotifierAssumption DEF Reads, shmn_create, receives, recv_loop, image_data_read_cb,
       disconnected, answer, shmn_free, leave, memory, exMode, ExOK, MessageBytes
<1> QED
    BY <1>3, <1>4, <1>5, <1>6, PartsTyped

LEMMA InitTyped == Init => TypeOK
<1> SUFFICES ASSUME Init PROVE TypeOK
    OBVIOUS
<1> USE NotifierAssumption
<1>1. MemoryOK /\ WritingOK /\ LockOK /\ ReaderOK /\ ExOK
    BY DEF Init, MemoryOK, WritingOK, LockOK, ReaderOK, ExOK
<1>2. ListOK
    BY DEF Init, ListOK, Once, Elements
<1>3. InboxOK
  <2>1. <<>> \in Seq(1..write.n) /\ Len(<<>>) = 0 /\ 0 <= Cap
      OBVIOUS
  <2> QED
      BY <2>1 DEF Init, InboxOK
<1> QED
    BY <1>1, <1>2, <1>3, TypeParts

LEMMA NextCases ==
    ASSUME [Next]_vars
    PROVE  \/ shmn_image_write \/ shmn_write \/ exit
           \/ listen_client
           \/ \E p \in Readers \cup {Writer} : Calls(p)
           \/ \E r \in Readers : Reads(r)
           \/ UNCHANGED vars
    BY DEF Next, Calls, Reads

LEMMA NextTyped ==
    ASSUME TypeOK, [Next]_vars
    PROVE  TypeOK'
<1>1. CASE UNCHANGED vars
  <2>1. UNCHANGED <<data, locker, spinning, at, write, list, listener, accepted, list_mtx, peer, reading,
                    seen, inbox, recv_cb, ex, answers, sent>>
      BY <1>1 DEF vars, memory, writing, listening, reader, exMode
  <2> QED
      BY <2>1 DEF TypeOK, Elements
<1> QED
    BY <1>1, NextCases, WriteTyped, ListenTyped, CallsTyped, ReadsTyped

(* The types of the writer and the readers, and the locking of             *)
(* cli_fd_list: a connection is in it at most once, and list_mtx is held   *)
(* while g_list_foreach runs (shm_notifier.c:18-63, 306-312).              *)
THEOREM TypeCorrect == Spec => []TypeOK
<1> QED
    BY InitTyped, NextTyped, PTL DEF Spec

-----------------------------------------------------------------------------
(* Between two writes the memory holds the image that was written last.    *)
DataInv ==
    /\ at \in {"idle", "lock", "send"} => data = <<write.n, write.n>>
    /\ at = "pixels" => data[1] = write.n

(* A thread that receives was started by shmn_read_loop.                   *)
ReadingInv == \A r \in Readers : reading[r] # "off" => r \in recv_cb

(* r is the node of g_list_foreach, or not before the next one, or that    *)
(* one was freed.                                                          *)
Ahead(r) ==
    \/ r = write.node
    \/ Freed
    \/ \E i, j \in DOMAIN list : i <= j /\ list[i] = write.next /\ list[j] = r

(* Who was in the list when the mutex was taken has been told, has         *)
(* stopped, or its turn is still to come.                                  *)
WalkInv ==
    /\ at = "send" /\ write.node = Nobody => write.next = Nobody
    /\ at \in {"idle", "send"} /\ ~write.cut =>
          \A r \in write.to : Told(r) \/ Stopped(r) \/ (at = "send" /\ Ahead(r))

MissInv == DataInv /\ ReadingInv /\ WalkInv

LEMMA InitMiss == Init => MissInv
    BY Apart DEF Init, MissInv, DataInv, ReadingInv, WalkInv

LEMMA NextData ==
    ASSUME TypeOK, DataInv, [Next]_vars
    PROVE  DataInv'
<1>1. MemoryOK /\ WritingOK /\ ListOK
    BY TypeParts
<1>2. data = <<data[1], data[2]>>
    BY <1>1 DEF MemoryOK
<1>3. CASE shmn_image_write
  <2>1. write'.n = write.n + 1 /\ at' = "pixels" /\ data' = [data EXCEPT ![1] = write'.n]
      BY <1>1, <1>3, WriteFields DEF shmn_image_write, image_data_write_cb, Put, Goto
  <2> QED
      BY <1>2, <2>1 DEF DataInv
<1>4. CASE pixels
  <2>1. write' = write /\ at = "pixels" /\ at' = "lock" /\ data' = [data EXCEPT ![2] = write'.n]
      BY <1>4 DEF pixels, image_data_write_cb, Put, Goto
  <2> QED
      BY <1>2, <2>1 DEF DataInv
<1>5. CASE lock \/ unlock \/ exit
  <2>1. write'.n = write.n /\ UNCHANGED data
      BY <1>1, <1>5, WriteFields DEF lock, unlock, exit, memory
  <2> QED
      BY <1>5, <2>1 DEF lock, unlock, exit, Goto, DataInv
<1>6. CASE server_send_data_foreach
  <2>1. write'.n = write.n /\ UNCHANGED data /\ (at' = at \/ at' = "killed")
      BY <1>1, <1>6, NextNodeTyped DEF server_send_data_foreach, FailedWrite, Goto, memory
  <2> QED
      BY <2>1 DEF DataInv
<1>7. CASE listen_client
  <2>1. UNCHANGED <<write, data>> /\ (at' = at \/ at' = "killed")
      BY <1>7 DEF listen_client, accept, append, remove, hearAnswer, writing, memory, Goto
  <2> QED
      BY <2>1 DEF DataInv
<1>8. CASE \E p \in Readers \cup {Writer} : Calls(p)
  <2>1. UNCHANGED <<write, data, at>>
      BY <1>8 DEF Calls, shmn_enable_role_ex, shmn_read_loop, shmn_lock_channel, shmn_unlock_channel,
         writing, memory
  <2> QED
      BY <2>1 DEF DataInv
<1>9. CASE \E r \in Readers : Reads(r)
  <2>1. UNCHANGED <<write, data, at>>
      BY <1>9 DEF Reads, shmn_create, receives, recv_loop, image_data_read_cb, disconnected, answer,
         shmn_free, leave, writing, memory
  <2> QED
      BY <2>1 DEF DataInv
<1>10. CASE UNCHANGED vars
    BY <1>10 DEF vars, writing, memory, DataInv
<1> QED
    BY <1>3, <1>4, <1>5, <1>6, <1>7, <1>8, <1>9, <1>10, NextCases DEF shmn_write

(* What no other step than one of readers changes.                         *)
LEMMA ReadersKept ==
    ASSUME [Next]_vars
    PROVE  \/ UNCHANGED <<peer, reading, seen, recv_cb>>
           \/ \E p \in Readers \cup {Writer} : Calls(p)
           \/ \E r \in Readers : Reads(r)
    BY NextCases DEF shmn_image_write, shmn_write, pixels, lock, server_send_data_foreach, unlock, exit,
       listen_client, accept, append, remove, hearAnswer, reader, vars

LEMMA NextReading ==
    ASSUME TypeOK, ReadingInv, [Next]_vars
    PROVE  ReadingInv'
<1>1. ReaderOK
    BY TypeParts
<1>2. CASE UNCHANGED <<reading, recv_cb>>
    BY <1>2 DEF ReadingInv
<1>3. ASSUME NEW p \in Readers \cup {Writer}, Calls(p) PROVE ReadingInv'
  <2>1. CASE shmn_read_loop(p)
      BY <1>1, <2>1 DEF shmn_read_loop, ReadingInv, ReaderOK
  <2>2. CASE ~shmn_read_loop(p)
      BY <1>2, <1>3, <2>2 DEF Calls, shmn_enable_role_ex, shmn_lock_channel, shmn_unlock_channel, reader
  <2> QED
      BY <2>1, <2>2
<1>4. ASSUME NEW r \in Readers, Reads(r) PROVE ReadingInv'
  <2>1. recv_cb' = recv_cb
      BY <1>4 DEF Reads, shmn_create, receives, recv_loop, image_data_read_cb, disconnected, answer,
         shmn_free, leave, exMode
  <2>2. reading' = reading \/ \E x \in {"off", "half", "read"} :
              reading' = [reading EXCEPT ![r] = x] /\ (x # "off" => reading[r] # "off")
      BY <1>4 DEF Reads, shmn_create, receives, recv_loop, image_data_read_cb, disconnected, answer,
         shmn_free, leave, reader
  <2> QED
      BY <1>1, <2>1, <2>2 DEF ReadingInv, ReaderOK
<1> QED
    BY <1>2, <1>3, <1>4, ReadersKept

(* Between two writes a reader that has been told stays so.                *)
LEMMA ToldKept ==
    ASSUME TypeOK, DataInv, ReadingInv, [Next]_vars, at \in {"idle", "send"}, write'.n = write.n,
           NEW r \in Readers, Told(r) \/ Stopped(r)
    PROVE  Told(r)' \/ Stopped(r)'
<1>1. MemoryOK /\ WritingOK /\ ReaderOK /\ InboxOK
    BY TypeParts
<1>2. data = <<write.n, write.n>>
    BY DEF DataInv
<1>3. /\ r \in DOMAIN peer /\ r \in DOMAIN reading /\ r \in DOMAIN seen /\ r \in DOMAIN inbox
      /\ seen[r] = <<seen[r][1], seen[r][2]>> /\ inbox[r] \in Seq(1..write.n)
    BY <1>1 DEF ReaderOK, InboxOK
<1>4. ASSUME UNCHANGED <<peer, reading, seen, recv_cb>>, Elements(inbox[r]) \subseteq Elements(inbox'[r])
      PROVE  Told(r)' \/ Stopped(r)'
    BY <1>4 DEF Told, Stopped, Elements
<1>5. CASE shmn_image_write \/ shmn_write \/ exit
  <2>1. UNCHANGED <<peer, reading, seen, recv_cb>>
      BY <1>5 DEF shmn_image_write, shmn_write, pixels, lock, server_send_data_foreach, unlock, exit, reader
  <2>2. CASE UNCHANGED inbox
      BY <1>4, <2>1, <2>2
  <2>3. CASE inbox' = [inbox EXCEPT ![write.node] = Append(@, write.n)]
    <3>1. Elements(inbox[r]) \subseteq Elements(Append(inbox[r], write.n))
      <4>1. /\ DOMAIN inbox[r] = 1..Len(inbox[r]) /\ Len(inbox[r]) \in Nat
          BY <1>3, LenProperties
      <4>2. write.n \in Nat
          BY <1>1, WriteFields
      <4>3. inbox[r] \in Seq(Nat)
          BY <1>3, <4>2, SeqMonotonic
      <4>4. /\ Append(inbox[r], write.n) \in Seq(Nat)
            /\ Len(Append(inbox[r], write.n)) = Len(inbox[r]) + 1
            /\ \A i \in 1..Len(inbox[r]) : Append(inbox[r], write.n)[i] = inbox[r][i]
          BY <4>2, <4>3, AppendProperties
      <4>5. DOMAIN Append(inbox[r], write.n) = 1..(Len(inbox[r]) + 1)
          BY <4>4, LenProperties
      <4> QED
          BY <4>1, <4>4, <4>5 DEF Elements
    <3> QED
        BY <1>3, <1>4, <2>1, <2>3, <3>1
  <2> QED
      BY <1>5, <2>2, <2>3 DEF shmn_image_write, shmn_write, pixels, lock, server_send_data_foreach, unlock,
         exit
<1>6. CASE listen_client \/ UNCHANGED vars
    BY <1>4, <1>6 DEF listen_client, accept, append, remove, hearAnswer, reader, vars
<1>7. ASSUME NEW p \in Readers \cup {Writer}, Calls(p) PROVE Told(r)' \/ Stopped(r)'
  <2>1. UNCHANGED <<inbox, seen, peer>>
      BY <1>7 DEF Calls, shmn_enable_role_ex, shmn_read_loop, shmn_lock_channel, shmn_unlock_channel, reader
  <2>2. CASE UNCHANGED <<reading, recv_cb>>
      BY <1>4, <2>1, <2>2
  <2>3. CASE shmn_read_loop(p)
      BY <1>1, <1>3, <2>1, <2>3 DEF shmn_read_loop, Told, Stopped, Elements, ReadingInv, ReaderOK
  <2> QED
      BY <1>7, <2>2, <2>3 DEF Calls, shmn_enable_role_ex, shmn_lock_channel, shmn_unlock_channel, reader
<1>8. ASSUME NEW q \in Readers, Reads(q) PROVE Told(r)' \/ Stopped(r)'
  <2>1. CASE q # r
    <3>1. /\ peer'[r] = peer[r] /\ reading'[r] = reading[r] /\ seen'[r] = seen[r]
          /\ inbox'[r] = inbox[r] /\ recv_cb' = recv_cb
        BY <1>1, <1>8, <2>1 DEF Reads, shmn_create, receives, recv_loop, image_data_read_cb,
           disconnected, answer, shmn_free, leave, reader, exMode, ReaderOK, InboxOK
    <3> QED
        BY <3>1 DEF Told, Stopped, Elements
  <2>2. CASE recv_loop(r)
    <3>1. /\ inbox'[r] = Tail(inbox[r]) /\ reading'[r] = "half" /\ inbox[r] # <<>>
          /\ seen'[r][1] = write.n
        BY <1>1, <1>2, <1>3, <2>2 DEF recv_loop, ReaderOK
    <3> QED
        BY <3>1 DEF Told
  <2>3. CASE image_data_read_cb(r)
    <3>1. /\ inbox' = inbox /\ reading[r] = "half" /\ seen'[r][1] = seen[r][1] /\ seen'[r][2] = write.n
          /\ peer' = peer /\ recv_cb' = recv_cb
        BY <1>1, <1>2, <1>3, <2>3 DEF image_data_read_cb, ReaderOK
    <3> QED
        BY <3>1 DEF Told, Stopped, Elements
  <2>4. CASE shmn_free(r) \/ leave(r)
    <3>1. Stopped(r)'
        BY <1>1, <1>3, <2>4 DEF shmn_free, leave, Stopped, ReadingInv, exMode, ReaderOK
    <3> QED
        BY <3>1
  <2>5. CASE shmn_create(r)
    <3>1. peer[r] = "none" /\ UNCHANGED <<reading, seen, inbox, recv_cb>>
        BY <2>5 DEF shmn_create
    <3> QED
        BY <3>1 DEF Told, Stopped, Elements
  <2>6. CASE answer(r)
      BY <1>4, <2>6 DEF answer, reader
  <2>7. ~disconnected(r)
      BY DEF disconnected, Alive
  <2> QED
      BY <1>8, <2>1, <2>2, <2>3, <2>4, <2>5, <2>6, <2>7 DEF Reads, receives
<1> QED
    BY <1>5, <1>6, <1>7, <1>8, NextCases

(* Whose turn is to come, while connections leave the list.                *)
LEMMA AheadKept ==
    ASSUME TypeOK, at = "send", at' = "send", UNCHANGED write, [Next]_vars,
           NEW r \in Readers, Ahead(r)
    PROVE  Ahead(r)' \/ Stopped(r)'
<1>1. ListOK /\ LockOK
    BY TypeParts
<1>2. CASE r = write.node
    BY <1>2 DEF Ahead
<1>3. CASE UNCHANGED list
    BY <1>3 DEF Ahead, Freed, Elements
<1>4. ASSUME NEW q \in Readers, remove(q), NEW k \in DOMAIN list, list[k] = q, list' = Without(k)
      PROVE  Ahead(r)' \/ Stopped(r)'
  <2>1. /\ DOMAIN list = 1..Len(list) /\ Len(list) \in Nat
        /\ DOMAIN list' = 1..(Len(list) - 1)
        /\ \A j \in 1..(Len(list) - 1) : list'[j] = IF j < k THEN list[j] ELSE list[j + 1]
        /\ Elements(list') = Elements(list) \ {q}
      BY <1>1, <1>4, WithoutOnce DEF ListOK
  <2>2. CASE Freed
      BY <2>1, <2>2 DEF Freed, Ahead
  <2>3. CASE r = q
      BY <1>4, <2>3 DEF remove, reader, Stopped
  <2>4. ASSUME r # q, NEW i \in DOMAIN list, NEW j \in DOMAIN list, i <= j, list[i] = write.next, list[j] = r
        PROVE  Ahead(r)'
    <3>1. CASE write.next = q
      <4>1. q # Nobody
          BY Apart
      <4> QED
          BY <2>1, <3>1, <4>1 DEF Freed, Ahead
    <3>2. CASE write.next # q
      <4> DEFINE a == IF i < k THEN i ELSE i - 1
                 b == IF j < k THEN j ELSE j - 1
      <4>1. i # k /\ j # k
          BY <1>4, <2>4, <3>2
      <4>2. a \in 1..(Len(list) - 1) /\ b \in 1..(Len(list) - 1) /\ a <= b
          BY <2>1, <2>4, <4>1
      <4>3. list'[a] = list[i] /\ list'[b] = list[j]
          BY <2>1, <4>1, <4>2
      <4> HIDE DEF a, b
      <4>4. a \in DOMAIN list' /\ b \in DOMAIN list'
          BY <2>1, <4>2
      <4> QED
          BY <2>4, <4>2, <4>3, <4>4 DEF Ahead
    <3> QED
        BY <3>1, <3>2
  <2> QED
      BY <1>2, <2>2, <2>3, <2>4 DEF Ahead
<1>5. list' = list \/ \E q \in Readers : remove(q) /\ \E k \in DOMAIN list : list[k] = q /\ list' = Without(k)
  <2>1. list_mtx # Nobody
      BY <1>1, Apart DEF LockOK
  <2>2. ~lock /\ \A q \in Readers : ~append(q)
      BY <2>1 DEF lock, append
  <2>3. listen_client => list' = list \/ \E q \in Readers : remove(q) /\ \E k \in DOMAIN list :
                             list[k] = q /\ list' = Without(k)
      BY <2>2 DEF listen_client, accept, remove, hearAnswer, listening
  <2>4. shmn_image_write \/ shmn_write \/ exit => list' = list
      BY DEF shmn_image_write, shmn_write, pixels, lock, server_send_data_foreach, unlock, exit, listening
  <2>5. \A p \in Readers \cup {Writer} : Calls(p) => list' = list
      BY DEF Calls, shmn_enable_role_ex, shmn_read_loop, shmn_lock_channel, shmn_unlock_channel, listening
  <2>6. \A q \in Readers : Reads(q) => list' = list
      BY DEF Reads, shmn_create, receives, recv_loop, image_data_read_cb, disconnected, answer,
         shmn_free, leave, listening
  <2>7. UNCHANGED vars => list' = list
      BY DEF vars, listening
  <2> QED
      BY <2>3, <2>4, <2>5, <2>6, <2>7, NextCases
<1> QED
    BY <1>3, <1>4, <1>5

(* g_list_foreach takes the mutex: everybody in the list is ahead.         *)
LEMMA LockAhead ==
    ASSUME TypeOK, lock, NEW r \in write'.to
    PROVE  Ahead(r)'
<1>1. WritingOK /\ ListOK
    BY TypeParts
<1>2. list \in Seq(Readers) /\ DOMAIN list = 1..Len(list) /\ Len(list) \in Nat /\ Once(list)
    BY <1>1, ListTyped, LenProperties DEF ListOK
<1>3. /\ list' = list /\ write'.to = Elements(list)
      /\ list # <<>> => write'.node = Head(list) /\ write'.next = NodeAfter(Head(list))
    BY <1>1, WriteFields DEF lock, listening
<1>4. PICK j \in DOMAIN list : list[j] = r
    BY <1>3 DEF Elements
<1>5. list # <<>> /\ Head(list) = list[1] /\ 1 \in DOMAIN list
    BY <1>2, <1>4, HeadTailProperties
<1>6. CASE j = 1
    BY <1>3, <1>4, <1>5, <1>6 DEF Ahead
<1>7. CASE j # 1
  <2>1. 2 \in DOMAIN list /\ 2 <= j /\ 1 + 1 = 2
      BY <1>2, <1>7
  <2>2. NodeAfter(list[1]) = list[2]
      BY <1>2, <1>5, <2>1, NodeAfterIs
  <2> QED
      BY <1>3, <1>4, <1>5, <2>1, <2>2 DEF Ahead
<1> QED
    BY <1>6, <1>7

(* It writes to a node and goes on to the next.                            *)
LEMMA SendAhead ==
    ASSUME TypeOK, server_send_data_foreach, at' = "send", ~write'.cut, NEW r \in Readers, Ahead(r)
    PROVE  Told(r)' \/ Stopped(r)' \/ Ahead(r)'
<1>1. WritingOK /\ ListOK /\ ReaderOK /\ InboxOK
    BY TypeParts
<1>2. UNCHANGED <<list, peer, reading, seen, recv_cb>>
    BY DEF server_send_data_foreach, listening, reader
<1>3. /\ nextNode /\ ~Freed
      /\ write' = [write EXCEPT !.node = write.next, !.next = NodeAfter(write.next)]
  <2>1. nextNode
      BY DEF server_send_data_foreach, FailedWrite, Goto
  <2>2. ~(Freed /\ Goto("killed")) /\ ~(write' = [write EXCEPT !.node = Nobody, !.next = Nobody, !.cut = TRUE])
      BY <1>1, WriteFields DEF Goto
  <2> QED
      BY <2>1, <2>2 DEF nextNode
<1>4. write'.n = write.n /\ write'.node = write.next /\ write'.next = NodeAfter(write.next)
    BY <1>1, <1>3, WriteFields
<1>5. CASE r = write.node
  <2>1. CASE peer[r] = "closed"
      BY <1>2, <2>1 DEF Stopped
  <2>2. CASE inbox' = [inbox EXCEPT ![write.node] = Append(@, write.n)]
    <3>1. inbox[r] \in Seq(1..write.n) /\ inbox'[r] = Append(inbox[r], write.n)
        BY <1>1, <1>5, <2>2 DEF InboxOK
    <3>2. write.n \in Nat
        BY <1>1, WriteFields
    <3>3. inbox[r] \in Seq(Nat)
        BY <3>1, <3>2, SeqMonotonic
    <3>4. /\ inbox'[r] \in Seq(Nat) /\ Len(inbox'[r]) = Len(inbox[r]) + 1
          /\ inbox'[r][Len(inbox[r]) + 1] = write.n /\ Len(inbox[r]) \in Nat
        BY <3>1, <3>2, <3>3, AppendProperties, LenProperties
    <3>5. Len(inbox[r]) + 1 \in DOMAIN inbox'[r]
        BY <3>4, LenProperties
    <3> QED
        BY <1>4, <3>4, <3>5 DEF Told, Elements
  <2> QED
      BY <1>5, <2>1, <2>2 DEF server_send_data_foreach, Goto
<1>6. ASSUME NEW i \in DOMAIN list, NEW j \in DOMAIN list, i <= j, list[i] = write.next, list[j] = r
      PROVE  Ahead(r)'
  <2>1. CASE i = j
      BY <1>4, <1>6, <2>1 DEF Ahead
  <2>2. CASE i # j
    <3>1. list \in Seq(Readers) /\ DOMAIN list = 1..Len(list) /\ Len(list) \in Nat /\ Once(list)
        BY <1>1, ListTyped, LenProperties DEF ListOK
    <3>2. i + 1 \in DOMAIN list /\ i + 1 <= j
        BY <1>6, <2>2, <3>1
    <3>3. write'.next = list[i + 1]
        BY <1>4, <1>6, <3>1, <3>2, NodeAfterIs
    <3> QED
        BY <1>2, <1>6, <3>2, <3>3 DEF Ahead
  <2> QED
      BY <2>1, <2>2
<1> QED
    BY <1>3, <1>5, <1>6 DEF Ahead

LEMMA NobodyAhead ==
    ASSUME TypeOK, WalkInv, at = "send", write.node = Nobody, NEW r \in Readers
    PROVE  ~Ahead(r)
<1>1. ListOK /\ write.next = Nobody
    BY TypeParts DEF WalkInv
<1>2. \A i \in DOMAIN list : list[i] # Nobody
    BY <1>1, ListTyped, Apart DEF Elements
<1> QED
    BY <1>1, <1>2, Apart DEF Ahead, Freed

LEMMA MissInvMissed == TypeOK /\ MissInv => NobodyMissed
<1> SUFFICES ASSUME TypeOK, MissInv, at = "idle" \/ (at = "send" /\ write.node = Nobody), ~write.cut,
                    NEW r \in write.to
             PROVE  Told(r) \/ Stopped(r)
    BY DEF NobodyMissed
<1>1. r \in Readers
    BY TypeParts, WriteFields
<1> QED
    BY <1>1, NobodyAhead DEF MissInv, WalkInv

(* Steps that are not of the loop itself.                                  *)
LEMMA WalkAside ==
    ASSUME TypeOK, MissInv, [Next]_vars, UNCHANGED write, at' = at \/ at' \in {"killed", "exited"}
    PROVE  WalkInv'
<1>1. WritingOK
    BY TypeParts
<1>2. CASE at' \in {"killed", "exited"}
    BY <1>2 DEF WalkInv
<1>3. ASSUME at' = at, at \in {"idle", "send"}, ~write.cut, NEW r \in write.to
      PROVE  Told(r)' \/ Stopped(r)' \/ (at' = "send" /\ Ahead(r)')
  <2>1. r \in Readers
      BY <1>1, <1>3, WriteFields
  <2>2. Told(r) \/ Stopped(r) \/ (at = "send" /\ Ahead(r))
      BY <1>3 DEF MissInv, WalkInv
  <2>3. CASE Told(r) \/ Stopped(r)
      BY <1>3, <2>1, <2>3, ToldKept DEF MissInv
  <2>4. CASE at = "send" /\ Ahead(r)
      BY <1>3, <2>1, <2>4, AheadKept
  <2> QED
      BY <2>2, <2>3, <2>4
<1> QED
    BY <1>2, <1>3 DEF MissInv, WalkInv

LEMMA NextWalk ==
    ASSUME TypeOK, MissInv, [Next]_vars
    PROVE  WalkInv'
<1>1. WritingOK /\ ListOK
    BY TypeParts
<1>2. CASE shmn_image_write \/ pixels
    BY <1>2 DEF shmn_image_write, pixels, Goto, WalkInv
<1>3. CASE lock
  <2>1. at' = "send" /\ list' = list
      BY <1>3 DEF lock, Goto, listening
  <2>2. write'.node = Nobody => write'.next = Nobody
    <3>1. list # <<>> => Head(list) \in Readers
        BY <1>1, ListTyped
    <3> QED
        BY <1>1, <1>3, <3>1, WriteFields, Apart DEF lock
  <2>3. \A r \in write'.to : Ahead(r)'
      BY <1>3, LockAhead
  <2> QED
      BY <2>1, <2>2, <2>3 DEF WalkInv
<1>4. CASE server_send_data_foreach
  <2>1. CASE UNCHANGED write
      BY <1>1, <1>4, <2>1, NextNodeTyped, WalkAside DEF server_send_data_foreach, FailedWrite, Goto
  <2>2. CASE at' # "send"
      BY <1>1, <1>4, <2>2, NextNodeTyped DEF server_send_data_foreach, FailedWrite, Goto, WalkInv
  <2>3. CASE nextNode /\ at' = "send"
    <3>1. write'.n = write.n /\ write'.to = write.to /\ at = "send" /\ list' = list
        BY <1>1, <1>4, <2>3, NextNodeTyped DEF server_send_data_foreach, listening
    <3>2. write'.node = Nobody => write'.next = Nobody
      <4>1. NodeAfter(Nobody) = Nobody
          BY <1>1, ListTyped, NodeAfterTyped, Apart
      <4> QED
          BY <1>1, <2>3, <3>1, <4>1, WriteFields, Apart DEF nextNode, Goto
    <3>3. ~write'.cut => ~write.cut
        BY <1>1, <2>3, <3>1, WriteFields DEF nextNode, Goto
    <3>4. ASSUME ~write'.cut, NEW r \in write.to PROVE Told(r)' \/ Stopped(r)' \/ Ahead(r)'
      <4>1. r \in Readers
          BY <1>1, WriteFields
      <4>2. Told(r) \/ Stopped(r) \/ Ahead(r)
          BY <3>1, <3>3, <3>4 DEF MissInv, WalkInv
      <4>3. CASE Told(r) \/ Stopped(r)
          BY <3>1, <4>1, <4>3, ToldKept DEF MissInv
      <4>4. CASE Ahead(r)
          BY <1>4, <2>3, <3>4, <4>1, <4>4, SendAhead
      <4> QED
          BY <4>2, <4>3, <4>4
    <3> QED
        BY <2>3, <3>1, <3>2, <3>4 DEF WalkInv
  <2> QED
      BY <1>4, <2>1, <2>2, <2>3 DEF server_send_data_foreach, FailedWrite
<1>5. CASE unlock
  <2>1. at = "send" /\ write.node = Nobody /\ at' = "idle" /\ UNCHANGED write
      BY <1>5 DEF unlock, Goto
  <2>2. ASSUME ~write.cut, NEW r \in write.to PROVE Told(r)' \/ Stopped(r)'
    <3>1. r \in Readers /\ (Told(r) \/ Stopped(r))
        BY <1>1, <2>1, <2>2, WriteFields, MissInvMissed DEF NobodyMissed
    <3> QED
        BY <2>1, <3>1, ToldKept DEF MissInv
  <2> QED
      BY <2>1, <2>2 DEF WalkInv
<1>6. CASE exit \/ listen_client
    BY <1>6, WalkAside DEF exit, listen_client, accept, append, remove, hearAnswer, writing, Goto
<1>7. CASE \/ \E p \in Readers \cup {Writer} : Calls(p)
           \/ \E r \in Readers : Reads(r)
  <2>1. UNCHANGED <<write, at>>
      BY <1>7 DEF Calls, shmn_enable_role_ex, shmn_read_loop, shmn_lock_channel, shmn_unlock_channel,
         Reads, shmn_create, receives, recv_loop, image_data_read_cb, disconnected, answer, shmn_free,
         leave, writing
  <2> QED
      BY <2>1, WalkAside
<1>8. CASE UNCHANGED vars
    BY <1>8, WalkAside DEF vars, writing
<1> QED
    BY <1>2, <1>3, <1>4, <1>5, <1>6, <1>7, <1>8, NextCases DEF shmn_write

(* When the writer is done with an image, and until it writes the next,    *)
(* every reader that was in cli_fd_list has the announcement or looks at   *)
(* that image, unless it has stopped or the listening thread has freed the *)
(* node that g_list_foreach was about to visit (shm_notifier.c:44-49,      *)
(* 278-312): for any readers, writes, answers and size of the sockets.     *)
THEOREM AnnouncementsArrive == Spec => []NobodyMissed
<1>1. Init => TypeOK /\ MissInv
    BY InitTyped, InitMiss
<1>2. TypeOK /\ MissInv /\ [Next]_vars => (TypeOK /\ MissInv)'
    BY NextTyped, NextData, NextReading, NextWalk DEF MissInv
<1>3. TypeOK /\ MissInv => NobodyMissed
    BY MissInvMissed
<1> QED
    BY <1>1, <1>2, <1>3, PTL DEF Spec

=============================================================================
