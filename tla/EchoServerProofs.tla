-------------------------- MODULE EchoServerProofs ---------------------------
(***************************************************************************)
(* The poll server of sem21_sockets/echo keeps its array of descriptors in *)
(* step with its sockets, reads only what is ready and echoes what it was  *)
(* sent, for any number of clients, any sizes of buffers and any way the   *)
(* calls of the kernel turn out. The inductive invariant EchoInv says in   *)
(* addition where the loop may be in the array, which entries still carry  *)
(* news of the last poll, and what a connection has been through while the *)
(* server is between its read and its write.                               *)
(***************************************************************************)
EXTENDS EchoServer, SequenceTheorems, TLAPS

\* What the array may hold, and what poll may report of it.
Socket == Client \cup {Sfd}
\* The pollfd entries.
Entries == [fd : Socket, revents : SUBSET {"in", "hup", "err"}]
\* The clients accepted and not closed.
Open == {c \in Client : sock[c] = "open"}

\* The types of what the proofs reason about, and no byte is read that was
\* not sent.
Types ==
  /\ space \in Spaces
  /\ peer \in [Client -> {"out", "connected", "shut", "closed", "dropped"}]
  /\ sent \in [Client -> Nat] /\ got \in [Client -> Nat]
  /\ \A c \in Client : got[c] <= sent[c]
  /\ drained \in [Client -> Nat]
  /\ DOMAIN echo = Client
  /\ sock \in [Client -> {"none", "open"}]
  /\ fds \in Seq(Entries)
  /\ leaked \subseteq Client
  /\ i \in Nat

\* The array and the sockets agree; a client whose set_nonblock failed stays
\* open, and the far end of an open socket was connected.
Tracked ==
  /\ ArrayTracksSockets
  /\ Up => /\ leaked \subseteq Open
           /\ fds = <<>> => Open = {}
           /\ \A c \in Open : peer[c] \notin {"out", "dropped"}

\* Where the server may be: the client loop starts after the listening
\* descriptor, and communicate works on an entry of the array.
Walking ==
  Up =>
    /\ loc = "start" => fds = <<>>
    /\ loc \in {"listen", "scan", "read", "write"} => fds # <<>>
    /\ loc \in {"scan", "read", "write"} => i >= 2
    /\ loc \in {"read", "write"} => i <= Len(fds)

\* A read of c finds a byte or the end of the stream.
Ready(c) == got[c] < sent[c] \/ peer[c] \in {"shut", "closed"}

\* From index n on, an entry that reports input is still right.
FreshFrom(n) ==
  \A k \in DOMAIN fds : n <= k /\ "in" \in fds[k].revents => Ready(fds[k].fd)

\* The entries the loop has not come to are those of the last poll; the one
\* that communicate reads has nothing but input.
Fresh ==
  Up =>
    /\ loc = "listen" => FreshFrom(2)
    /\ loc \in {"scan", "read"} => FreshFrom(i)
    /\ loc = "write" => FreshFrom(i + 1)
    /\ loc = "read" => fds[i].revents = {"in"}

\* Nothing has been read from the connection of c, and nothing written.
Silent(c) == echo[c] = <<>> /\ got[c] = 0 /\ drained[c] = 0

\* The first n bytes of a connection.
UpTo(n) == [k \in 1..n |-> k]

\* communicate has read the first message of c and has written nothing.
Reading(c) ==
  /\ nr \in 1..BufSize /\ nw = 0
  /\ got[c] = nr /\ echo[c] = <<>> /\ drained[c] = 0
  /\ buf = [k \in 1..BufSize |-> IF k <= nr THEN k ELSE 0]

\* communicate has written back all it has read from c.
Written(c) == nr = 0 /\ echo[c] = UpTo(got[c])

\* When the send buffer holds a message, a connection is closed as soon as
\* its first message has been answered: no other has been read from.
Served ==
  space >= BufSize =>
    \A c \in Client :
      \/ Silent(c)
      \/ loc = "write" /\ c = c_i /\ (Reading(c) \/ Written(c))

\* Nor is there anything else for communicate to write.
Writing == space >= BufSize /\ Up /\ loc = "write" => Reading(c_i) \/ Written(c_i)

\* A client that waits is connected, not accepted, and waits once; the server
\* goes to accept only when somebody waits.
Queued ==
  /\ backlog \in Seq(Client)
  /\ \A k \in 1..Len(backlog) :
       sock[backlog[k]] # "open" /\ peer[backlog[k]] \notin {"out", "dropped"}
  /\ \A j, k \in 1..Len(backlog) : backlog[j] = backlog[k] => j = k
  /\ Up /\ loc = "listen" /\ "in" \in fds[1].revents => backlog # <<>>

\* The inductive invariant of the array and of the connections; that of the
\* backlog is Queued.
EchoInv == Types /\ Tracked /\ Walking /\ Fresh /\ Served /\ Writing

\* The invariant holds before the server has any socket.
LEMMA InitInv == Init => EchoInv
<1> SUFFICES ASSUME Init PROVE EchoInv
  OBVIOUS
<1>1. Types
  BY EmptySeq DEF Init, Types
<1>2. Tracked
  BY EmptySeq DEF Init, Tracked, ArrayTracksSockets, Open
<1>3. Walking /\ Fresh /\ Writing
  BY DEF Init, Walking, Fresh, Writing
<1>4. Served
  BY DEF Init, Served, Silent
<1> QED BY <1>1, <1>2, <1>3, <1>4 DEF EchoInv

\* Nobody waits before the server listens.
LEMMA InitQueued == Init => Queued
  BY EmptySeq DEF Init, Queued

\* The client that accept takes has not been accepted before, and is not
\* among those that go on waiting.
LEMMA Front ==
  ASSUME Queued, backlog # <<>>
  PROVE  /\ Head(backlog) \in Client /\ Head(backlog) \notin Open
         /\ peer[Head(backlog)] \notin {"out", "dropped"}
         /\ Tail(backlog) \in Seq(Client)
         /\ \A k \in 1..Len(Tail(backlog)) :
              /\ Tail(backlog)[k] \in Client /\ Tail(backlog)[k] # Head(backlog)
              /\ sock[Tail(backlog)[k]] # "open"
              /\ peer[Tail(backlog)[k]] \notin {"out", "dropped"}
         /\ \A j, k \in 1..Len(Tail(backlog)) :
              Tail(backlog)[j] = Tail(backlog)[k] => j = k
<1>1. backlog \in Seq(Client) /\ Len(backlog) \in Nat \ {0} /\ 1 \in 1..Len(backlog)
  BY EmptySeq, LenProperties DEF Queued
<1>2. Head(backlog) = backlog[1] /\ Head(backlog) \in Client
  BY <1>1, HeadTailProperties, ElementOfSeq
<1>3. /\ Tail(backlog) \in Seq(Client) /\ Len(Tail(backlog)) = Len(backlog) - 1
      /\ \A k \in 1..Len(Tail(backlog)) : Tail(backlog)[k] = backlog[k + 1]
  BY <1>1, HeadTailProperties
<1>4. \A k \in 1..Len(Tail(backlog)) : k + 1 \in 1..Len(backlog) /\ k + 1 # 1
  BY <1>1, <1>3
<1>5. sock[Head(backlog)] # "open" /\ peer[Head(backlog)] \notin {"out", "dropped"}
  BY <1>1, <1>2 DEF Queued
<1>6. ASSUME NEW k \in 1..Len(Tail(backlog))
      PROVE  /\ Tail(backlog)[k] \in Client /\ Tail(backlog)[k] # Head(backlog)
             /\ sock[Tail(backlog)[k]] # "open"
             /\ peer[Tail(backlog)[k]] \notin {"out", "dropped"}
  <2>1. PICK m \in 1..Len(backlog) : m = k + 1 /\ m # 1 /\ Tail(backlog)[k] = backlog[m]
    BY <1>3, <1>4
  <2>2. backlog[m] \in Client
    BY <1>1, ElementOfSeq
  <2> QED BY <1>1, <1>2, <2>1, <2>2 DEF Queued
<1>7. ASSUME NEW j \in 1..Len(Tail(backlog)), NEW k \in 1..Len(Tail(backlog)),
             Tail(backlog)[j] = Tail(backlog)[k]
      PROVE  j = k
  <2>1. backlog[j + 1] = backlog[k + 1]
    BY <1>3, <1>7
  <2>2. j + 1 = k + 1
    BY <1>4, <2>1 DEF Queued
  <2> QED BY <2>2
<1> QED BY <1>2, <1>3, <1>5, <1>6, <1>7 DEF Open

\* An entry after the first is that of a client which was accepted, is still
\* open, and is in no other entry.
LEMMA Current ==
  ASSUME EchoInv, Up, NEW k \in 2..Len(fds)
  PROVE  /\ Len(fds) \in Nat /\ fds # <<>>
         /\ fds[k].fd \in Client /\ fds[k].fd \in Open /\ fds[k].fd \notin leaked
         /\ \A j \in 1..Len(fds) : j # k => fds[j].fd # fds[k].fd
         /\ fds[k] \in Entries
<1>1. fds \in Seq(Entries) /\ Len(fds) \in Nat
  BY LenProperties DEF EchoInv, Types
<1>2. fds # <<>>
  BY <1>1, EmptySeq
<1>3. fds[k] \in Entries /\ k \in 1..Len(fds)
  BY <1>1
<1>4. fds[k].fd \in Polled
  BY DEF Polled
<1>5. /\ Polled = Open \ leaked
      /\ \A j, m \in 1..Len(fds) : fds[j].fd = fds[m].fd => j = m
  BY <1>2 DEF EchoInv, Tracked, ArrayTracksSockets, Open
<1> QED BY <1>1, <1>2, <1>3, <1>4, <1>5 DEF Open

-----------------------------------------------------------------------------
(* Whatever a client does between two steps of the server, the invariant
   survives: a client only makes more of its socket ready, and reads no
   more than its echo. *)
LEMMA ClientKeeps == EchoInv /\ (\E c \in Client : ClientStep(c)) => EchoInv'
<1> SUFFICES ASSUME EchoInv, NEW c \in Client, ClientStep(c) PROVE EchoInv'
  OBVIOUS
<1>0. /\ UNCHANGED <<space, fds, capacity, leaked, loc, server>>
      /\ UNCHANGED <<i, buf, nr, nw, sock, got, echo>>
  BY DEF ClientStep, Connect, Send, ReadEcho, HalfClose, Leave, locals
<1>i. Types /\ Tracked /\ Walking /\ Fresh /\ Served /\ Writing
  BY DEF EchoInv
<1>1. Types'
  <2>1. CASE Connect(c) \/ HalfClose(c)
    BY <1>0, <1>i, <2>1 DEF Types, Connect, HalfClose
  <2>2. CASE Send(c)
    BY <1>0, <1>i, <2>2 DEF Types, Send
  <2>3. CASE ReadEcho(c)
    BY <1>0, <1>i, <2>3 DEF Types, ReadEcho
  <2>4. CASE Leave(c)
    BY <1>0, <1>i, <2>4 DEF Types, Leave
  <2> QED BY <2>1, <2>2, <2>3, <2>4 DEF ClientStep
<1>2. \A d \in Client : peer[d] \notin {"out", "dropped"} => peer'[d] \notin {"out", "dropped"}
  BY <1>i DEF ClientStep, Connect, Send, ReadEcho, HalfClose, Leave, Types
<1>3. Tracked'
  <2>1. ArrayTracksSockets' /\ Open' = Open /\ Up' = Up
    BY <1>0, <1>i DEF Tracked, ArrayTracksSockets, Open, Up, Polled
  <2>2. \A d \in Open : d \in Client
    BY DEF Open
  <2> QED BY <1>0, <1>i, <1>2, <2>1, <2>2 DEF Tracked
<1>4. Walking'
  BY <1>0, <1>i DEF Walking, Up
<1>5. \A d \in Client : Ready(d) => Ready(d)'
  <2> TAKE d \in Client
  <2>1. got[d] \in Nat /\ sent[d] \in Nat /\ got' = got
    BY <1>0, <1>i DEF Types
  <2>2. sent'[d] \in Nat /\ sent'[d] >= sent[d]
    <3>1. sent' = sent \/ sent' = [sent EXCEPT ![c] = @ + 1]
      BY DEF ClientStep, Connect, Send, ReadEcho, HalfClose, Leave
    <3>2. sent \in [Client -> Nat]
      BY <1>i DEF Types
    <3>3. sent'[d] = sent[d] \/ sent'[d] = sent[d] + 1
      BY <3>1, <3>2
    <3>4. PICK m : m = sent'[d]
      OBVIOUS
    <3>5. m = sent[d] \/ m = sent[d] + 1
      BY Zenon, <3>3, <3>4
    <3>6. m \in Nat /\ m >= sent[d]
      BY <2>1, <3>5
    <3> QED BY Zenon, <3>4, <3>6
  <2>3. peer[d] \in {"shut", "closed"} => peer'[d] \in {"shut", "closed"}
    BY <1>i DEF ClientStep, Connect, Send, ReadEcho, HalfClose, Leave, Types
  <2> QED BY <2>1, <2>2, <2>3 DEF Ready
<1>6. ASSUME Up, NEW n \in Nat, n >= 2, FreshFrom(n)
      PROVE  FreshFrom(n)'
  <2> SUFFICES ASSUME NEW k \in DOMAIN fds, n <= k, "in" \in fds[k].revents
               PROVE  Ready(fds[k].fd)'
    BY <1>0 DEF FreshFrom
  <2>1. k \in 2..Len(fds)
    BY <1>i, <1>6 DEF Types
  <2>2. PICK d \in Client : d = fds[k].fd /\ Ready(d)
    BY <1>6, <2>1, Current DEF FreshFrom
  <2> QED BY <1>0, <1>5, <2>2
<1>7. Fresh'
  <2> SUFFICES ASSUME Up PROVE Fresh'
    BY <1>0 DEF Fresh, Up
  <2>1. i \in Nat /\ i + 1 \in Nat
    BY <1>i DEF Types
  <2> QED BY <1>0, <1>i, <1>6, <2>1 DEF Fresh, Walking
<1>8. \A d \in Client : Silent(d) => Silent(d)'
  BY <1>0, <1>i DEF ClientStep, Connect, Send, ReadEcho, HalfClose, Leave, Types, Silent
<1>9. \A d \in Client : Written(d) => Written(d)'
  BY <1>0 DEF Written
<1>10. \A d \in Client : Reading(d) => Reading(d)'
  BY <1>0, <1>i DEF ClientStep, Connect, Send, ReadEcho, HalfClose, Leave, Types, Reading
<1>11. Served'
  BY <1>0, <1>i, <1>8, <1>9, <1>10 DEF Served, c_i
<1>12. Writing'
  <2> SUFFICES ASSUME space >= BufSize, Up, loc = "write" PROVE Reading(c_i)' \/ Written(c_i)'
    BY <1>0 DEF Writing, Up, c_i
  <2>1. c_i \in Client
    BY <1>i, Current DEF Walking, Types, c_i
  <2>2. PICK d \in Client : d = c_i
    BY <2>1
  <2>3. c_i' = d
    BY <1>0, <2>2 DEF c_i
  <2> QED BY <1>i, <1>9, <1>10, <2>2, <2>3 DEF Writing
<1> QED BY <1>1, <1>3, <1>4, <1>7, <1>11, <1>12 DEF EchoInv

-----------------------------------------------------------------------------
(* Steps that only move the server on through the array (server.c:152-173):
   each entry passed over leaves those after it as fresh as they were. A
   write does not fail when the send buffer holds a message. *)
LEMMA MoveKeeps ==
  ASSUME EchoInv, Up, UNCHANGED space,
         NoNewClient \/ ScanEnds \/ Skip \/ Readable \/ WriteFails
  PROVE  EchoInv'
<1>0. /\ UNCHANGED <<space, fds, leaked, server, peer, sent, got, echo, drained, sock>>
      /\ Up'
  BY DEF NoNewClient, ScanEnds, Skip, Readable, WriteFails, NextEntry, kernel, Up
<1>i. Types /\ Tracked /\ Walking /\ Fresh /\ Served /\ Writing
  BY DEF EchoInv
<1>f. /\ fds \in Seq(Entries) /\ Len(fds) \in Nat /\ DOMAIN fds = 1..Len(fds) /\ i \in Nat
      /\ fds # <<>> => Len(fds) >= 1
      /\ space \in Nat /\ BufSize \in Nat
  BY <1>i, EchoAssumption, LenProperties, EmptySeq DEF Types
<1>1. /\ loc \in {"listen", "scan", "write"} /\ i' \in Nat
      /\ loc' \in {"scan", "read", "poll"}
      /\ loc' = "scan" => /\ loc = "listen" => i' = 2
                          /\ loc \in {"scan", "write"} => i' = i + 1
      /\ loc' = "read" => /\ loc = "scan" /\ i' = i /\ i <= Len(fds)
                          /\ fds[i].revents = {"in"}
  BY <1>f DEF NoNewClient, ScanEnds, Skip, Readable, WriteFails, NextEntry
<1>2. Types'
  BY <1>0, <1>1, <1>i DEF Types
<1>3. Tracked'
  BY <1>0, <1>i DEF Tracked, ArrayTracksSockets, Open, Up, Polled
<1>4. Walking'
  BY <1>0, <1>1, <1>i, <1>f DEF Walking
<1>5. \A d : Ready(d)' <=> Ready(d)
  BY Zenon, <1>0 DEF Ready
<1>6. ASSUME NEW m \in Nat, NEW n \in Nat, m <= n, FreshFrom(m)
      PROVE  FreshFrom(n)'
  BY <1>0, <1>5, <1>6, <1>f DEF FreshFrom
<1>7. Fresh'
  <2>1. loc' = "scan" => FreshFrom(i)'
    <3>1. PICK n \in Nat : n = i'
      BY <1>1
    <3>2. loc' = "scan" => FreshFrom(n)'
      BY <1>1, <1>6, <1>f, <1>i, <3>1 DEF Fresh
    <3> QED BY <3>1, <3>2 DEF FreshFrom
  <2>2. loc' = "read" => FreshFrom(i)'
    <3>1. PICK n \in Nat : n = i'
      BY <1>1
    <3>2. loc' = "read" => FreshFrom(n)'
      BY <1>1, <1>6, <1>f, <1>i, <3>1 DEF Fresh
    <3> QED BY <3>1, <3>2 DEF FreshFrom
  <2> QED BY <1>0, <1>1, <2>1, <2>2 DEF Fresh
<1>8. space >= BufSize => loc # "write"
  <2> SUFFICES ASSUME space >= BufSize, loc = "write" PROVE FALSE
    OBVIOUS
  <2>1. nr > 0 /\ Room = 0
    BY DEF WriteFails, NoNewClient, ScanEnds, Skip, Readable
  <2>2. Reading(c_i)
    BY <1>i, <2>1 DEF Writing, Written
  <2>3. Len(echo[c_i]) = 0 /\ drained[c_i] = 0
    BY <2>2, EmptySeq DEF Reading
  <2> QED BY <1>f, <2>1, <2>3, EchoAssumption DEF Room
<1>9. Served'
  BY <1>0, <1>8, <1>i DEF Served, Silent
<1>10. Writing'
  BY <1>1 DEF Writing
<1> QED BY <1>2, <1>3, <1>4, <1>7, <1>9, <1>10 DEF EchoInv

\* poll rewrites every revents field and nothing else, so that all entries
\* are fresh (server.c:110-119).
LEMMA PollKeeps ==
  ASSUME EchoInv, Up, UNCHANGED space, NEW err \in SUBSET {"err"}, Poll(err)
  PROVE  EchoInv'
<1>0. /\ UNCHANGED <<space, leaked, server, peer, sent, got, echo, drained, sock, i>>
      /\ Up' /\ loc = "poll" /\ loc' = "listen"
  BY DEF Poll, kernel, locals, Up
<1>i. Types /\ Tracked /\ Walking /\ Fresh /\ Served /\ Writing
  BY DEF EchoInv
<1>f. fds \in Seq(Entries) /\ Len(fds) \in Nat /\ DOMAIN fds = 1..Len(fds)
  BY <1>i, LenProperties DEF Types
<1>1. PICK r : /\ \A k \in 1..Len(fds) :
                     r[k] = IF k = 1 THEN err \cup ListenEvents ELSE Events(fds[k].fd)
               /\ fds' = [k \in 1..Len(fds) |-> [fds[k] EXCEPT !.revents = r[k]]]
               /\ \E k \in 1..Len(fds) : fds'[k].revents # {}
  <2> DEFINE rr == [k \in 1..Len(fds) |->
                      IF k = 1 THEN err \cup ListenEvents ELSE Events(fds[k].fd)]
  <2>1. \A k \in 1..Len(fds) :
           rr[k] = IF k = 1 THEN err \cup ListenEvents ELSE Events(fds[k].fd)
    OBVIOUS
  <2>2. fds' = [k \in 1..Len(fds) |-> [fds[k] EXCEPT !.revents = rr[k]]]
    BY DEF Poll
  <2> QED BY <2>1, <2>2 DEF Poll
<1>2. \A k \in 1..Len(fds) : r[k] \in SUBSET {"in", "hup", "err"}
  <2> TAKE k \in 1..Len(fds)
  <2>1. ListenEvents \subseteq {"in"} /\ Events(fds[k].fd) \subseteq {"in", "hup", "err"}
    BY DEF Events, ListenEvents
  <2>2. r[k] = err \cup ListenEvents \/ r[k] = Events(fds[k].fd)
    BY <1>1
  <2>3. r[k] \subseteq {"in", "hup", "err"}
    BY <2>1, <2>2
  <2> QED BY <2>3
<1>3. \A k \in 1..Len(fds) : /\ fds[k] \in Entries
                             /\ fds'[k] \in Entries
                             /\ fds'[k].fd = fds[k].fd
                             /\ fds'[k].revents = r[k]
  <2> TAKE k \in 1..Len(fds)
  <2>1. fds[k] \in Entries
    BY <1>f
  <2>2. fds'[k] = [fds[k] EXCEPT !.revents = r[k]]
    BY <1>1
  <2> QED BY <1>2, <2>1, <2>2 DEF Entries
<1>4. fds' \in Seq(Entries) /\ Len(fds') = Len(fds) /\ fds # <<>> /\ fds' # <<>>
  <2>1. fds' \in [1..Len(fds) -> Entries]
    BY <1>1, <1>3
  <2>2. fds' \in Seq(Entries) /\ Len(fds') = Len(fds)
    BY <1>f, <2>1
  <2>3. Len(fds) # 0
    BY <1>1
  <2> QED BY <1>f, <2>2, <2>3, EmptySeq
<1>5. Types'
  BY <1>0, <1>4, <1>i DEF Types
<1>6. Tracked'
  <2>1. Polled' = Polled
    BY <1>3, <1>4, <1>f DEF Polled
  <2>2. Open' = Open
    BY <1>0 DEF Open
  <2>3. ArrayTracksSockets'
    <3>1. /\ fds[1].fd = Sfd
          /\ \A j, k \in 1..Len(fds) : fds[j].fd = fds[k].fd => j = k
          /\ Polled = Open \ leaked
      BY <1>4, <1>i DEF Tracked, ArrayTracksSockets, Open
    <3>2. 1 \in 1..Len(fds)
      BY <1>4, <1>f, EmptySeq
    <3>3. fds'[1].fd = Sfd
      BY <1>3, <3>1, <3>2
    <3>4. \A j, k \in 1..Len(fds') : fds'[j].fd = fds'[k].fd => j = k
      BY <1>3, <1>4, <3>1
    <3>5. Polled' = Open' \ leaked'
      BY <1>0, <2>1, <2>2, <3>1
    <3> QED BY <3>3, <3>4, <3>5 DEF ArrayTracksSockets, Open
  <2> QED BY <1>0, <1>4, <1>i, <2>2, <2>3 DEF Tracked
<1>7. Walking'
  BY <1>0, <1>4 DEF Walking
<1>8. FreshFrom(2)'
  <2> SUFFICES ASSUME NEW k \in 2..Len(fds), "in" \in fds'[k].revents
               PROVE  Ready(fds[k].fd)'
    <3>1. DOMAIN fds' = 1..Len(fds)
      BY <1>4, LenProperties
    <3> QED BY <1>f, <3>1 DEF FreshFrom
  <2>1. k \in 1..Len(fds) /\ k # 1
    BY <1>f
  <2>2. "in" \in Events(fds[k].fd) /\ fds'[k].fd = fds[k].fd
    BY <1>1, <1>3, <2>1
  <2>3. Ready(fds[k].fd)
    BY <2>2 DEF Events, Ready
  <2>4. PICK d : d = fds[k].fd
    OBVIOUS
  <2>5. Ready(d)' /\ fds'[k].fd = d
    BY Zenon, <1>0, <2>2, <2>3, <2>4 DEF Ready
  <2> QED BY Zenon, <2>5 DEF Ready
<1>9. Fresh'
  BY <1>0, <1>8 DEF Fresh
<1>10. Served' /\ Writing'
  BY <1>0, <1>i DEF Served, Silent, Writing
<1> QED BY <1>5, <1>6, <1>7, <1>9, <1>10 DEF EchoInv

-----------------------------------------------------------------------------
\* close gives up a connection with everything in it and leaves the other
\* connections alone.
LEMMA Closing ==
  ASSUME Types, NEW cs \in SUBSET Client, CloseConnections(cs)
  PROVE  /\ peer' \in [Client -> {"out", "connected", "shut", "closed", "dropped"}]
         /\ sent' \in [Client -> Nat] /\ got' \in [Client -> Nat] /\ drained' \in [Client -> Nat]
         /\ DOMAIN echo' = Client
         /\ sock' \in [Client -> {"none", "open"}]
         /\ \A c \in Client : got'[c] <= sent'[c]
         /\ \A c \in cs : echo'[c] = <<>> /\ got'[c] = 0 /\ drained'[c] = 0
         /\ \A c \in Client \ cs :
              /\ peer'[c] = peer[c] /\ sent'[c] = sent[c] /\ got'[c] = got[c]
              /\ drained'[c] = drained[c] /\ echo'[c] = echo[c]
         /\ Open' = Open \ cs
<1>1. peer' \in [Client -> {"out", "connected", "shut", "closed", "dropped"}]
  BY DEF Types, CloseConnections
<1>2. sent' \in [Client -> Nat] /\ got' \in [Client -> Nat] /\ drained' \in [Client -> Nat]
  BY DEF Types, CloseConnections
<1>3. DOMAIN echo' = Client /\ sock' \in [Client -> {"none", "open"}]
  BY DEF Types, CloseConnections
<1>4. \A c \in Client : got'[c] <= sent'[c]
  BY DEF Types, CloseConnections
<1>5. \A c \in cs : echo'[c] = <<>> /\ got'[c] = 0 /\ drained'[c] = 0
  BY DEF CloseConnections
<1>6. \A c \in Client \ cs :
              /\ peer'[c] = peer[c] /\ sent'[c] = sent[c] /\ got'[c] = got[c]
              /\ drained'[c] = drained[c] /\ echo'[c] = echo[c]
  BY DEF CloseConnections
<1>7. Open' = Open \ cs
  BY DEF CloseConnections, Open
<1> QED BY <1>1, <1>2, <1>3, <1>4, <1>5, <1>6, <1>7

\* Once the process has ended only what was echoed matters.
LEMMA Ending ==
  ASSUME EchoInv, Types', ~Up', Served'
  PROVE  EchoInv'
BY DEF EchoInv, Tracked, ArrayTracksSockets, Walking, Fresh, Writing

\* main returns when poll or the listening socket fails: every socket is
\* closed (server.c:112, 146-150, 187-190).
LEMMA ExitKeeps ==
  ASSUME EchoInv, UNCHANGED space, Exit
  PROVE  EchoInv'
<1>i. Types
  BY DEF EchoInv
<1>1. CloseConnections(Client) /\ fds' = <<>> /\ UNCHANGED <<leaked, i>> /\ ~Up' /\ loc' = "exit"
  BY DEF Exit, locals, Up
<1>2. Types'
  BY <1>i, <1>1, Closing, EmptySeq DEF Types
<1>3. \A c \in Client : echo'[c] = <<>> /\ got'[c] = 0 /\ drained'[c] = 0
  BY <1>i, <1>1, Closing
<1>4. Served'
  BY <1>3 DEF Served, Silent
<1> QED BY <1>1, <1>2, <1>4, Ending

\* SIGPIPE ends the server in the middle of communicate and changes nothing
\* that was echoed.
LEMMA BrokenPipeKeeps ==
  ASSUME EchoInv, UNCHANGED space, BrokenPipe
  PROVE  EchoInv'
<1>1. /\ UNCHANGED <<space, fds, leaked, loc, i, buf, nr, nw>>
      /\ UNCHANGED <<peer, sent, got, echo, drained, sock>>
      /\ ~Up'
  BY DEF BrokenPipe, kernel, locals, Up
<1>2. Types'
  BY <1>1 DEF EchoInv, Types
<1>3. Served'
  BY <1>1 DEF EchoInv, Served, Silent, Reading, Written, c_i
<1> QED BY <1>1, <1>2, <1>3, Ending

-----------------------------------------------------------------------------
(* The array *)

\* dynarr_insert puts a new entry at the end of the array; the others stay
\* (dynarray.c:29-42).
LEMMA Inserting ==
  ASSUME Types, NEW fd \in Socket, fds' = Inserted(fd)
  PROVE  /\ fds' \in Seq(Entries) /\ Len(fds) \in Nat /\ Len(fds') = Len(fds) + 1 /\ fds' # <<>>
         /\ \A k \in 1..Len(fds) : fds'[k] = fds[k]
         /\ fds'[Len(fds')].fd = fd /\ fds'[Len(fds')].revents = {}
<1>1. Entry(fd) \in Entries /\ Entry(fd).fd = fd /\ Entry(fd).revents = {}
  BY DEF Entry, Entries
<1>2. fds \in Seq(Entries) /\ fds' = Append(fds, Entry(fd))
  BY DEF Types, Inserted
<1> QED BY <1>1, <1>2, AppendProperties, EmptySeq, LenProperties

\* dynarr_remove moves the last entry to the place of the one removed
\* (dynarray.c:44-52).
LEMMA Removing ==
  ASSUME Types, NEW k \in 2..Len(fds), fds' = Removed(k)
  PROVE  /\ fds' \in Seq(Entries) /\ Len(fds) \in Nat /\ Len(fds') = Len(fds) - 1 /\ fds' # <<>>
         /\ \A j \in 1..Len(fds') : fds'[j] = IF j = k THEN fds[Len(fds)] ELSE fds[j]
<1> DEFINE last == [fds EXCEPT ![k] = fds[Len(fds)]]
<1>1. fds \in Seq(Entries) /\ Len(fds) \in Nat /\ k \in 1..Len(fds) /\ Len(fds) \in 1..Len(fds)
  BY LenProperties DEF Types
<1>2. /\ last \in Seq(Entries) /\ Len(last) = Len(fds)
      /\ \A j \in 1..Len(fds) : last[j] = IF j = k THEN fds[Len(fds)] ELSE fds[j]
  <2>1. fds[Len(fds)] \in Entries
    BY <1>1
  <2> QED BY <1>1, <2>1, ExceptSeq
<1>3. fds' = SubSeq(last, 1, Len(fds) - 1)
  BY DEF Removed
<1> HIDE DEF last
<1>4. /\ fds' \in Seq(Entries) /\ Len(fds') = Len(fds) - 1
      /\ \A j \in 1..Len(fds') : fds'[j] = last[j]
  <2>1. \A j \in 1..(Len(fds) - 1) : last[j] \in Entries
    BY <1>1, <1>2
  <2>2. Len(fds) - 1 \in Nat
    BY <1>1
  <2>3. fds' \in Seq(Entries) /\ Len(fds') = Len(fds) - 1
    BY <1>1, <1>2, <1>3, <2>1, <2>2, SubSeqProperties
  <2>4. \A j \in 1..Len(fds') : fds'[j] = last[j]
    BY <1>1, <1>2, <1>3, <2>2, <2>3, SubSeqProperties
  <2> QED BY <2>3, <2>4
<1> QED BY <1>1, <1>2, <1>4, EmptySeq

\* The listening descriptor is the first the array gets, or the array stays
\* empty.
LEMMA StartKeeps ==
  ASSUME EchoInv, Up, UNCHANGED space, Start
  PROVE  EchoInv'
<1>i. Types /\ Tracked /\ Walking /\ Fresh /\ Served /\ Writing
  BY DEF EchoInv
<1>1. /\ loc = "start" /\ loc' \in {"poll", "exit"}
      /\ UNCHANGED <<space, leaked, i, peer, sent, got, echo, drained, sock>>
  BY DEF Start, kernel, locals
<1>2. fds = <<>> /\ Open = {} /\ leaked = {} /\ Open' = {}
  BY <1>1, <1>i DEF Walking, Tracked, Open
<1>3. Served'
  BY <1>1, <1>i DEF Served, Silent
<1>4. Walking' /\ Fresh' /\ Writing'
  BY <1>1 DEF Walking, Fresh, Writing
<1>5. CASE Insert(Sfd)
  <2>1. /\ fds' \in Seq(Entries) /\ Len(fds') = 1 /\ fds'[1].fd = Sfd /\ fds' # <<>>
    <3>1. Len(fds) = 0
      BY <1>2, EmptySeq
    <3>2. fds' = Inserted(Sfd) /\ Sfd \in Socket
      BY <1>5 DEF Insert, Socket
    <3> QED BY <1>i, <3>1, <3>2, Inserting
  <2>2. Types'
    BY <1>i, <1>1, <2>1 DEF Types
  <2>3. ArrayTracksSockets'
    <3>1. Polled' = {}
      BY <2>1 DEF Polled
    <3>2. \A j, k \in 1..Len(fds') : fds'[j].fd = fds'[k].fd => j = k
      BY <2>1
    <3>3. Polled' = Open' \ leaked'
      BY <1>1, <1>2, <3>1
    <3> QED BY <2>1, <3>2, <3>3 DEF ArrayTracksSockets, Open
  <2>4. Tracked'
    BY <1>1, <1>2, <2>1, <2>3 DEF Tracked
  <2> QED BY <1>3, <1>4, <2>2, <2>4 DEF EchoInv
<1>6. CASE UNCHANGED fds
  <2>1. Types'
    BY <1>i, <1>1, <1>6 DEF Types
  <2>2. ArrayTracksSockets'
    BY <1>2, <1>6 DEF ArrayTracksSockets
  <2>3. Tracked'
    BY <1>1, <1>2, <1>6, <2>2 DEF Tracked
  <2> QED BY <1>3, <1>4, <2>1, <2>3 DEF EchoInv
<1> QED BY <1>5, <1>6 DEF Start

\* A client that is accepted is in no entry of the array yet, so its new
\* entry is its only one; it carries no event of an earlier poll.
LEMMA AcceptKeeps ==
  ASSUME EchoInv, Queued, Up, UNCHANGED space, Accept
  PROVE  EchoInv'
<1>i. Types /\ Tracked /\ Walking /\ Fresh /\ Served /\ Writing
  BY DEF EchoInv
<1>0. backlog # <<>>
  BY DEF Accept, ClientWaits, Queued
<1>1. PICK c \in Client : c = Head(backlog) /\ sock' = [sock EXCEPT ![c] = "open"] /\ Insert(c)
  BY <1>0, Front DEF Accept
<1>2. /\ loc = "listen" /\ loc' = "scan" /\ i' = 2
      /\ UNCHANGED <<space, leaked, peer, sent, got, echo, drained>>
      /\ fds' = Inserted(c)
  BY <1>1 DEF Accept, ClientWaits, Insert
<1>3. /\ c \in Client /\ c \in Socket /\ c \notin Open /\ c \notin leaked
      /\ peer[c] \notin {"out", "dropped"}
  <2>1. Up /\ leaked \subseteq Open
    BY <1>i DEF Tracked
  <2> QED BY <1>0, <1>1, <2>1, Front DEF Socket
<1>4. /\ fds # <<>> /\ fds[1].fd = Sfd /\ Polled = Open \ leaked
      /\ \A j, k \in 1..Len(fds) : fds[j].fd = fds[k].fd => j = k
  BY <1>2, <1>i DEF Walking, Tracked, ArrayTracksSockets, Open
<1>5. /\ fds' \in Seq(Entries) /\ Len(fds) \in Nat \ {0} /\ Len(fds') = Len(fds) + 1 /\ fds' # <<>>
      /\ \A k \in 1..Len(fds) : fds'[k] = fds[k]
      /\ fds'[Len(fds')].fd = c /\ fds'[Len(fds')].revents = {}
  BY <1>i, <1>2, <1>3, <1>4, Inserting, EmptySeq DEF Types
<1>6. sock' \in [Client -> {"none", "open"}] /\ Open' = Open \cup {c}
  BY <1>1, <1>3, <1>i DEF Types, Open
<1>7. Types'
  BY <1>i, <1>2, <1>5, <1>6 DEF Types
<1>8. \A k \in 1..Len(fds) : fds[k].fd # c
  <2> SUFFICES ASSUME NEW k \in 1..Len(fds), fds[k].fd = c PROVE FALSE
    OBVIOUS
  <2>1. k = 1 \/ k \in 2..Len(fds)
    BY <1>5
  <2>2. k # 1
    BY <1>3, <1>4, EchoAssumption
  <2>3. c \in Polled
    BY <2>1, <2>2 DEF Polled
  <2> QED BY <1>3, <1>4, <2>3
<1>9. ArrayTracksSockets'
  <2>1. fds'[1].fd = Sfd
    BY <1>4, <1>5
  <2>2. \A j, k \in 1..Len(fds') : fds'[j].fd = fds'[k].fd => j = k
    <3> TAKE j, k \in 1..Len(fds')
    <3>1. (j \in 1..Len(fds) \/ j = Len(fds')) /\ (k \in 1..Len(fds) \/ k = Len(fds'))
      BY <1>5
    <3> QED BY <1>4, <1>5, <1>8, <3>1
  <2>3. Polled' = Polled \cup {c}
    <3>1. \A d \in Polled : d \in Polled'
      BY <1>5 DEF Polled
    <3>2. c \in Polled'
      BY <1>5 DEF Polled
    <3>3. \A d \in Polled' : d \in Polled \/ d = c
      <4> SUFFICES ASSUME NEW k \in 2..Len(fds') PROVE fds'[k].fd \in Polled \/ fds'[k].fd = c
        BY DEF Polled
      <4>1. k \in 2..Len(fds) \/ k = Len(fds')
        BY <1>5
      <4> QED BY <1>5, <4>1 DEF Polled
    <3> QED BY <3>1, <3>2, <3>3
  <2>4. Polled' = Open' \ leaked'
    BY <1>2, <1>3, <1>4, <1>6, <2>3
  <2> QED BY <2>1, <2>2, <2>4 DEF ArrayTracksSockets, Open
<1>10. Tracked'
  <2>1. leaked' \subseteq Open' /\ \A d \in Open' : peer'[d] \notin {"out", "dropped"}
    BY <1>2, <1>3, <1>6, <1>i DEF Tracked
  <2> QED BY <1>5, <1>9, <2>1 DEF Tracked
<1>11. Walking'
  BY <1>2, <1>5 DEF Walking
<1>12. Fresh'
  <2>1. FreshFrom(2)'
    <3> SUFFICES ASSUME NEW k \in 2..Len(fds'), "in" \in fds'[k].revents
                 PROVE  Ready(fds[k].fd)'
      <4>1. DOMAIN fds' = 1..Len(fds')
        BY <1>5, LenProperties
      <4> QED BY <4>1 DEF FreshFrom
    <3>1. k \in 2..Len(fds) /\ k \in DOMAIN fds
      BY <1>5, <1>i, LenProperties DEF Types
    <3>2. fds'[k] = fds[k] /\ Ready(fds[k].fd)
      BY <1>2, <1>5, <1>i, <3>1 DEF Fresh, FreshFrom
    <3> QED BY Zenon, <1>2, <3>2 DEF Ready
  <2> QED BY <1>2, <2>1 DEF Fresh
<1>13. Served' /\ Writing'
  BY <1>2, <1>i DEF Served, Silent, Writing
<1> QED BY <1>7, <1>10, <1>11, <1>12, <1>13 DEF EchoInv

(* A failure of accept, of set_nonblock or of the insertion leaves the
   array as it was, and the client waiting, open and forgotten, or turned
   away (server.c:126-144). *)
LEMMA AcceptFailsKeeps ==
  ASSUME EchoInv, Queued, Up, UNCHANGED space, AcceptFails
  PROVE  EchoInv'
<1>i. Types /\ Tracked /\ Walking /\ Fresh /\ Served /\ Writing
  BY DEF EchoInv
<1>1. /\ loc = "listen" /\ loc' = "poll" /\ UNCHANGED <<space, fds, server, i>> /\ Up'
  BY DEF AcceptFails, ClientWaits, locals, Up
<1>2. /\ fds # <<>> /\ fds[1].fd = Sfd /\ Polled = Open \ leaked /\ Polled' = Polled
      /\ \A j, k \in 1..Len(fds) : fds[j].fd = fds[k].fd => j = k
  BY <1>1, <1>i DEF Walking, Tracked, ArrayTracksSockets, Open, Polled
<1>3. Walking' /\ Fresh' /\ Writing'
  BY <1>1 DEF Walking, Fresh, Writing
<1>4. ASSUME Polled = Open' \ leaked', leaked' \subseteq Open',
             \A c \in Open' : peer'[c] \notin {"out", "dropped"}
      PROVE  Tracked'
  BY <1>1, <1>2, <1>4 DEF Tracked, ArrayTracksSockets, Open
<1>5. CASE UNCHANGED leaked /\ UNCHANGED kernel
  <2>1. Types' /\ Served' /\ Open' = Open
    BY <1>1, <1>5, <1>i DEF Types, Served, Silent, Open, kernel
  <2>2. Tracked'
    BY <1>2, <1>4, <1>5, <1>i, <2>1 DEF Tracked, kernel
  <2> QED BY <1>3, <2>1, <2>2 DEF EchoInv
<1>h. PICK head : head = Head(backlog) /\ head \in Client /\ head \notin Open
                  /\ peer[head] \notin {"out", "dropped"}
  <2>1. backlog # <<>>
    BY DEF AcceptFails, ClientWaits, Queued
  <2> QED BY <2>1, Front
<1>6. ASSUME NEW c, c = head, sock' = [sock EXCEPT ![c] = "open"],
             leaked' = leaked \cup {c},
             UNCHANGED <<peer, sent, got, echo, drained>>
      PROVE  EchoInv'
  <2>1. c \in Client /\ c \notin Open /\ peer[c] \notin {"out", "dropped"}
    BY <1>6, <1>h
  <2>2. sock' \in [Client -> {"none", "open"}] /\ Open' = Open \cup {c}
    BY <1>6, <1>i, <2>1 DEF Types, Open
  <2>3. Types' /\ Served'
    BY <1>1, <1>6, <1>i, <2>1, <2>2 DEF Types, Served, Silent
  <2>4. Tracked'
    BY <1>2, <1>4, <1>6, <1>i, <2>1, <2>2 DEF Tracked
  <2> QED BY <1>3, <2>3, <2>4 DEF EchoInv
<1>7. ASSUME NEW c, c = head, CloseConnections({c}), UNCHANGED leaked
      PROVE  EchoInv'
  <2>1. c \in Client /\ c \notin Open
    BY <1>7, <1>h
  <2>2. PICK cs \in SUBSET Client : cs = {c}
    BY <2>1
  <2>3. Types'
    BY <1>1, <1>7, <1>i, <2>2, Closing DEF Types
  <2>4. Open' = Open /\ \A d \in Open : peer'[d] = peer[d]
    BY <1>7, <1>i, <2>1, <2>2, Closing DEF Open
  <2>5. Served'
    <3> SUFFICES ASSUME space >= BufSize, NEW d \in Client PROVE Silent(d)'
      BY <1>1 DEF Served
    <3>1. CASE d = c
      BY <1>7, <1>i, <2>2, <3>1, Closing DEF Silent
    <3>2. CASE d # c
      BY <1>1, <1>7, <1>i, <2>2, <3>2, Closing DEF Silent, Served
    <3> QED BY <3>1, <3>2
  <2>6. Tracked'
    BY <1>2, <1>4, <1>7, <1>i, <2>4 DEF Tracked
  <2> QED BY <1>3, <2>3, <2>5, <2>6 DEF EchoInv
<1> QED BY <1>5, <1>6, <1>7, <1>h DEF AcceptFails

-----------------------------------------------------------------------------
(* communicate *)

\* communicate works on a client of the array, and on no other entry of it.
LEMMA InHand ==
  ASSUME EchoInv, Up, loc \in {"read", "write"}
  PROVE  /\ i \in 2..Len(fds) /\ Len(fds) \in Nat /\ c_i \in Client
         /\ \A j \in 1..Len(fds) : j # i => fds[j].fd # c_i
<1>1. i \in Nat /\ i >= 2 /\ i <= Len(fds) /\ Len(fds) \in Nat
  BY LenProperties DEF EchoInv, Types, Walking
<1>2. i \in 2..Len(fds)
  BY <1>1
<1> QED BY <1>1, <1>2, Current DEF c_i

\* Entries stay fresh when a step changes neither them nor what there is to
\* be read from their clients.
LEMMA StillFresh ==
  ASSUME EchoInv, Up, UNCHANGED fds, NEW n \in Nat, n >= 2, FreshFrom(n),
         \A k \in n..Len(fds) : /\ got'[fds[k].fd] = got[fds[k].fd]
                                /\ sent'[fds[k].fd] = sent[fds[k].fd]
                                /\ peer'[fds[k].fd] = peer[fds[k].fd]
  PROVE  FreshFrom(n)'
<1>1. DOMAIN fds = 1..Len(fds) /\ Len(fds) \in Nat
  BY LenProperties DEF EchoInv, Types
<1>2. \A k \in n..Len(fds) : Ready(fds[k].fd) => \/ got'[fds[k].fd] < sent'[fds[k].fd]
                                                \/ peer'[fds[k].fd] \in {"shut", "closed"}
  BY DEF Ready
<1> QED BY <1>1, <1>2 DEF FreshFrom, Ready

\* read takes bytes of the client in hand alone, and the first ones of its
\* connection when the send buffer holds a message.
LEMMA ReadKeeps ==
  ASSUME EchoInv, Up, UNCHANGED space, Read
  PROVE  EchoInv'
<1>i. Types /\ Tracked /\ Walking /\ Fresh /\ Served /\ Writing
  BY DEF EchoInv
<1>1. /\ loc = "read" /\ loc' = "write" /\ Up'
      /\ UNCHANGED <<space, peer, sent, echo, drained, sock, fds, leaked, i, server>>
      /\ nr' = Taken /\ nw' = 0
      /\ got' = [got EXCEPT ![c_i] = @ + nr']
      /\ buf' = [k \in 1..BufSize |-> IF k <= nr' THEN got[c_i] + k ELSE 0]
  BY DEF Read, Up
<1>2. /\ i \in 2..Len(fds) /\ Len(fds) \in Nat /\ c_i \in Client
      /\ \A j \in 1..Len(fds) : j # i => fds[j].fd # c_i
  BY <1>1, InHand
<1>3. PICK c \in Client : c = c_i
  BY <1>2
<1>4. PICK n : n = nr'
  OBVIOUS
<1>5. /\ got[c] \in Nat /\ sent[c] \in Nat /\ got[c] <= sent[c]
      /\ BufSize \in Nat \ {0} /\ space \in Nat
  BY <1>i, EchoAssumption DEF Types
<1>6. n \in 0..BufSize /\ got[c] + n <= sent[c]
  <2>1. n = Least(BufSize, sent[c] - got[c])
    BY Zenon, <1>1, <1>3, <1>4 DEF Taken, Ahead
  <2> QED BY <1>5, <2>1 DEF Least
<1>7. got' = [got EXCEPT ![c] = got[c] + n]
  BY <1>1, <1>3, <1>4
<1>8. /\ got' \in [Client -> Nat] /\ got'[c] = got[c] + n
      /\ \A d \in Client : d # c => got'[d] = got[d]
  BY <1>5, <1>6, <1>7, <1>i DEF Types
<1>9. Types'
  <2>1. \A d \in Client : got'[d] <= sent[d]
    BY <1>6, <1>8, <1>i DEF Types
  <2> QED BY <1>1, <1>8, <1>i, <2>1 DEF Types
<1>10. Tracked'
  BY <1>1, <1>i DEF Tracked, ArrayTracksSockets, Open, Up, Polled
<1>11. Walking'
  BY <1>1, <1>2, <1>i DEF Walking
<1>12. Fresh'
  <2>1. i \in Nat /\ i + 1 \in Nat /\ i + 1 >= 2
    BY <1>2
  <2>2. FreshFrom(i)
    BY <1>1, <1>i DEF Fresh
  <2>3. FreshFrom(i + 1)
    BY <2>1, <2>2, <1>i, LenProperties DEF FreshFrom, Types
  <2>4. PICK m : m = i + 1
    OBVIOUS
  <2>5. \A k \in m..Len(fds) : /\ got'[fds[k].fd] = got[fds[k].fd]
                               /\ sent'[fds[k].fd] = sent[fds[k].fd]
                               /\ peer'[fds[k].fd] = peer[fds[k].fd]
    <3> TAKE k \in m..Len(fds)
    <3>1. k \in 2..Len(fds) /\ k # i /\ k \in 1..Len(fds)
      BY <1>2, <2>4
    <3>2. fds[k].fd \in Client /\ fds[k].fd # c
      BY <1>2, <1>3, <3>1, Current
    <3> QED BY <1>1, <1>8, <3>2
  <2>6. FreshFrom(m)'
    BY <1>1, <2>1, <2>3, <2>4, <2>5, StillFresh
  <2>7. FreshFrom(i + 1)'
    BY Zenon, <1>1, <2>4, <2>6 DEF FreshFrom
  <2> QED BY <1>1, <2>7 DEF Fresh
<1>13. space >= BufSize => /\ \A d \in Client : Silent(d)
                           /\ Reading(c)' \/ Written(c)'
  <2> SUFFICES ASSUME space >= BufSize
               PROVE  (\A d \in Client : Silent(d)) /\ (Reading(c)' \/ Written(c)')
    OBVIOUS
  <2>1. \A d \in Client : Silent(d)
    BY <1>1, <1>i DEF Served
  <2>2. got[c] = 0 /\ echo'[c] = <<>> /\ drained'[c] = 0 /\ got'[c] = n
    BY <1>1, <1>6, <1>8, <2>1 DEF Silent
  <2>3. CASE n = 0
    <3>1. UpTo(0) = <<>>
      BY DEF UpTo
    <3>2. Written(c)'
      BY Zenon, <1>4, <2>2, <2>3, <3>1 DEF Written
    <3> QED BY <2>1, <3>2
  <2>4. CASE n # 0
    <3>1. n \in 1..BufSize
      BY <1>5, <1>6, <2>4
    <3>2. buf' = [k \in 1..BufSize |-> IF k <= n THEN got[c] + k ELSE 0]
      BY <1>1, <1>3, <1>4
    <3>3. buf' = [k \in 1..BufSize |-> IF k <= n THEN k ELSE 0]
      BY <2>2, <3>2
    <3>4. nr' \in 1..BufSize /\ got'[c] = nr'
      BY Zenon, <1>4, <2>2, <3>1
    <3>5. buf' = [k \in 1..BufSize |-> IF k <= nr' THEN k ELSE 0]
      BY Zenon, <1>4, <3>3
    <3>6. Reading(c)'
      BY <1>1, <2>2, <3>4, <3>5 DEF Reading
    <3> QED BY <2>1, <3>6
  <2> QED BY <2>3, <2>4
<1>14. c_i' = c
  BY <1>1, <1>3 DEF c_i
<1>15. Served'
  <2> SUFFICES ASSUME space >= BufSize, NEW d \in Client
               PROVE  \/ Silent(d)'
                      \/ loc' = "write" /\ d = c_i' /\ (Reading(d)' \/ Written(d)')
    BY <1>1 DEF Served
  <2>1. CASE d = c
    BY <1>1, <1>13, <1>14, <2>1
  <2>2. CASE d # c
    <3>1. Silent(d)'
      BY <1>1, <1>8, <1>13, <2>2 DEF Silent
    <3> QED BY <3>1
  <2> QED BY <2>1, <2>2
<1>16. Writing'
  <2>1. space' >= BufSize => Reading(c)' \/ Written(c)'
    BY <1>1, <1>13
  <2> QED BY Zenon, <1>14, <2>1 DEF Writing, Reading, Written
<1> QED BY <1>9, <1>10, <1>11, <1>12, <1>15, <1>16 DEF EchoInv

\* A read that fails takes nothing (server.c:27-31).
LEMMA ReadFailsKeeps ==
  ASSUME EchoInv, Up, UNCHANGED space, ReadFails
  PROVE  EchoInv'
<1>i. Types /\ Tracked /\ Walking /\ Fresh /\ Served /\ Writing
  BY DEF EchoInv
<1>1. /\ loc = "read" /\ loc' = "scan" /\ i' = i + 1 /\ Up'
      /\ UNCHANGED <<space, peer, sent, got, echo, drained, sock, fds, leaked, server>>
  BY DEF ReadFails, NextEntry, Up
<1>2. i \in 2..Len(fds) /\ Len(fds) \in Nat
  BY <1>1, InHand
<1>3. Types'
  BY <1>1, <1>2, <1>i DEF Types
<1>4. Tracked'
  BY <1>1, <1>i DEF Tracked, ArrayTracksSockets, Open, Up, Polled
<1>5. Walking'
  BY <1>1, <1>2, <1>i DEF Walking
<1>6. Fresh'
  <2>1. PICK m \in Nat : m = i + 1
    BY <1>2
  <2>2. FreshFrom(m) /\ m >= 2
    BY <1>1, <1>2, <1>i, <2>1, LenProperties DEF Fresh, FreshFrom, Types
  <2>3. FreshFrom(m)'
    BY <1>1, <2>2, StillFresh
  <2>4. FreshFrom(i)'
    BY Zenon, <1>1, <2>1, <2>3 DEF FreshFrom
  <2> QED BY <1>1, <2>4 DEF Fresh
<1>7. Served' /\ Writing'
  BY <1>1, <1>i DEF Served, Writing, Silent
<1> QED BY <1>3, <1>4, <1>5, <1>6, <1>7 DEF EchoInv

\* A send buffer that holds a message takes all of it in one write
\* (server.c:35-39).
LEMMA WriteSomeKeeps ==
  ASSUME EchoInv, Up, UNCHANGED space, WriteSome
  PROVE  EchoInv'
<1>i. Types /\ Tracked /\ Walking /\ Fresh /\ Served /\ Writing
  BY DEF EchoInv
<1>1. /\ loc = "write" /\ loc' = "write" /\ Up'
      /\ UNCHANGED <<space, peer, sent, got, drained, sock, fds, leaked, i, server, buf>>
      /\ nr > 0 /\ nw' = Least(nr, Room) /\ nr' = nr - nw'
      /\ echo' = [echo EXCEPT ![c_i] = @ \o Writes(nw, nw')]
  BY DEF WriteSome, Up
<1>2. i \in 2..Len(fds) /\ Len(fds) \in Nat /\ c_i \in Client
  BY <1>1, InHand
<1>3. PICK c \in Client : c = c_i /\ c = c_i'
  BY <1>1, <1>2 DEF c_i
<1>4. Types'
  BY <1>1, <1>i DEF Types
<1>5. Tracked' /\ Walking'
  BY <1>1, <1>i DEF Tracked, ArrayTracksSockets, Open, Up, Polled, Walking
<1>6. Fresh'
  <2>1. PICK m \in Nat : m = i + 1
    BY <1>2
  <2>2. FreshFrom(m) /\ m >= 2
    BY <1>1, <1>2, <1>i, <2>1, LenProperties DEF Fresh, FreshFrom, Types
  <2>3. FreshFrom(m)'
    BY <1>1, <2>2, StillFresh
  <2>4. FreshFrom(i + 1)'
    BY Zenon, <1>1, <2>1, <2>3 DEF FreshFrom
  <2> QED BY <1>1, <2>4 DEF Fresh
<1>7. ASSUME space >= BufSize PROVE Written(c)'
  <2>1. Reading(c)
    BY <1>1, <1>3, <1>7, <1>i DEF Writing, Written
  <2>2. /\ nr \in 1..BufSize /\ nw = 0 /\ got[c] = nr /\ echo[c] = <<>> /\ drained[c] = 0
        /\ space \in Nat /\ BufSize \in Nat
    BY <2>1, <1>i, EchoAssumption DEF Reading, Types
  <2>3. Room = space
    <3>1. Len(echo[c]) = 0
      BY <2>2, EmptySeq
    <3>2. Room = space - (Len(echo[c]) - drained[c])
      BY Zenon, <1>3 DEF Room
    <3> QED BY <2>2, <3>1, <3>2
  <2>4. nw' = nr /\ nr' = 0
    <3>1. Least(nr, Room) = nr
      BY <1>7, <2>2, <2>3 DEF Least
    <3>2. nw' = nr
      BY <1>1, <3>1
    <3> QED BY <1>1, <2>2, <3>2
  <2>5. Writes(nw, nw') = UpTo(nr)
    <3>1. Writes(nw, nw') = SubSeq(buf, 1, nr)
      BY <2>2, <2>4 DEF Writes
    <3>2. buf = [k \in 1..BufSize |-> IF k <= nr THEN k ELSE 0]
      BY <2>1 DEF Reading
    <3>3. buf \in Seq(Nat) /\ Len(buf) = BufSize
      BY <2>2, <3>2
    <3>4. \A k \in 1..nr : buf[k] = k
      BY <2>2, <3>2
    <3>5. SubSeq(buf, 1, nr) = [k \in 1..nr |-> buf[k]]
      BY <2>2, <3>3
    <3> QED BY <3>1, <3>4, <3>5 DEF UpTo
  <2>6. UpTo(nr) \in Seq(Nat)
    BY <2>2 DEF UpTo
  <2>7. echo'[c] = UpTo(nr)
    <3>1. echo'[c] = echo[c] \o Writes(nw, nw')
      BY <1>1, <1>3, <1>i DEF Types
    <3>2. <<>> \o UpTo(nr) = UpTo(nr)
      BY <2>6, ConcatEmptySeq
    <3> QED BY Zenon, <2>2, <2>5, <3>1, <3>2
  <2> QED BY <1>1, <2>2, <2>4, <2>7 DEF Written, UpTo
<1>8. Served'
  <2> SUFFICES ASSUME space >= BufSize, NEW d \in Client, d # c
               PROVE  Silent(d)'
    BY <1>1, <1>3, <1>7 DEF Served
  <2>1. Silent(d)
    BY <1>3, <1>i DEF Served
  <2>2. echo'[d] = echo[d]
    BY <1>1, <1>3, <1>i DEF Types
  <2> QED BY <1>1, <2>1, <2>2 DEF Silent
<1>9. Writing'
  <2>1. space' >= BufSize => Written(c)'
    BY <1>1, <1>7
  <2> QED BY Zenon, <1>3, <2>1 DEF Writing, Written
<1> QED BY <1>4, <1>5, <1>6, <1>8, <1>9 DEF EchoInv

-----------------------------------------------------------------------------
(* The client in hand is removed and closed. Its place is taken by the last
   entry, which the loop does not look at before the next poll; the entries
   after it have not moved (server.c:163-181). *)
LEMMA DropKeeps ==
  ASSUME EchoInv, Up, UNCHANGED space, HungUp \/ WriteEnds
  PROVE  EchoInv'
<1>i. Types /\ Tracked /\ Walking /\ Fresh /\ Served /\ Writing
  BY DEF EchoInv
<1>1. /\ loc \in {"scan", "write"} /\ loc' = "scan" /\ i' = i + 1 /\ Up'
      /\ UNCHANGED <<space, leaked, server>>
      /\ fds' = Removed(i) /\ CloseConnections({c_i})
      /\ i <= Len(fds)
  BY <1>i DEF HungUp, WriteEnds, Drop, NextEntry, Up, Walking
<1>2. i \in 2..Len(fds) /\ Len(fds) \in Nat
  BY <1>1, <1>i, LenProperties DEF Walking, Types
<1>3. PICK c \in Client : c = c_i /\ c = fds[i].fd
  BY <1>2, Current DEF c_i
<1>4. /\ c \in Open /\ c \notin leaked
      /\ \A j \in 1..Len(fds) : j # i => fds[j].fd # c
  BY <1>2, <1>3, Current
<1>5. PICK cs \in SUBSET Client : cs = {c}
  OBVIOUS
<1>6. CloseConnections(cs)
  BY <1>1, <1>3, <1>5
<1>7. /\ fds # <<>> /\ fds[1].fd = Sfd /\ Polled = Open \ leaked
      /\ \A j, k \in 1..Len(fds) : fds[j].fd = fds[k].fd => j = k
  BY <1>2, <1>i, EmptySeq DEF Tracked, ArrayTracksSockets, Open
<1>8. /\ fds' \in Seq(Entries) /\ Len(fds') = Len(fds) - 1 /\ fds' # <<>>
      /\ \A j \in 1..Len(fds') : fds'[j] = IF j = i THEN fds[Len(fds)] ELSE fds[j]
  BY <1>1, <1>2, <1>i, Removing
<1>9. Open' = Open \ {c}
  BY <1>5, <1>6, <1>i, Closing
<1>o. \A d \in Client : d # c => /\ got'[d] = got[d] /\ sent'[d] = sent[d]
                                /\ peer'[d] = peer[d] /\ echo'[d] = echo[d]
                                /\ drained'[d] = drained[d]
  <2>1. \A d \in Client \ cs : /\ got'[d] = got[d] /\ sent'[d] = sent[d]
                              /\ peer'[d] = peer[d] /\ echo'[d] = echo[d]
                              /\ drained'[d] = drained[d]
    BY <1>6, <1>i, Closing
  <2>2. \A d \in Client : d # c => d \in Client \ cs
    BY <1>5
  <2> QED BY Zenon, <2>1, <2>2
<1>10. Types'
  BY <1>1, <1>2, <1>6, <1>8, <1>i, Closing DEF Types
<1>11. ArrayTracksSockets'
  <2>1. fds'[1].fd = Sfd
    BY <1>2, <1>7, <1>8
  <2>2. \A j, k \in 1..Len(fds') : fds'[j].fd = fds'[k].fd => j = k
    <3> TAKE j, k \in 1..Len(fds')
    <3>1. /\ j \in 1..Len(fds) /\ k \in 1..Len(fds) /\ Len(fds) \in 1..Len(fds)
          /\ j # Len(fds) /\ k # Len(fds)
      BY <1>2, <1>8
    <3> QED BY <1>7, <1>8, <3>1
  <2>3. Polled' = Polled \ {c}
    <3>1. \A d \in Polled : d # c => d \in Polled'
      <4> SUFFICES ASSUME NEW k \in 2..Len(fds), fds[k].fd # c PROVE fds[k].fd \in Polled'
        BY DEF Polled
      <4>1. k # i
        BY <1>3
      <4>2. CASE k = Len(fds)
        <5>1. i \in 2..Len(fds')
          BY <1>2, <1>8, <4>1, <4>2
        <5>2. fds'[i].fd = fds[k].fd
          BY <1>2, <1>8, <4>2, <5>1
        <5> QED BY <5>1, <5>2 DEF Polled
      <4>3. CASE k # Len(fds)
        <5>1. k \in 2..Len(fds')
          BY <1>2, <1>8, <4>3
        <5>2. fds'[k].fd = fds[k].fd
          BY <1>2, <1>8, <4>1, <5>1
        <5> QED BY <5>1, <5>2 DEF Polled
      <4> QED BY <4>2, <4>3
    <3>2. \A d \in Polled' : d \in Polled /\ d # c
      <4> SUFFICES ASSUME NEW k \in 2..Len(fds') PROVE fds'[k].fd \in Polled /\ fds'[k].fd # c
        BY DEF Polled
      <4>1. PICK m \in 2..Len(fds) : fds'[k] = fds[m] /\ m # i
        BY <1>2, <1>8
      <4>2. m \in 1..Len(fds)
        BY <1>2
      <4> QED BY <1>4, <4>1, <4>2 DEF Polled
    <3> QED BY <3>1, <3>2
  <2>4. Polled' = Open' \ leaked'
    BY <1>1, <1>7, <1>9, <2>3
  <2> QED BY <2>1, <2>2, <2>4 DEF ArrayTracksSockets, Open
<1>12. Tracked'
  <2>1. \A d \in Open' : peer'[d] = peer[d]
    BY <1>9, <1>o DEF Open
  <2>2. leaked' \subseteq Open'
    BY <1>1, <1>4, <1>9, <1>i DEF Tracked
  <2>3. \A d \in Open' : peer'[d] \notin {"out", "dropped"}
    BY <1>1, <1>9, <1>i, <2>1 DEF Tracked
  <2> QED BY <1>8, <1>11, <2>2, <2>3 DEF Tracked
<1>13. Walking'
  BY <1>1, <1>2, <1>8 DEF Walking
<1>14. Fresh'
  <2>1. FreshFrom(i + 1)
    BY <1>1, <1>2, <1>i, LenProperties DEF Fresh, FreshFrom, Types
  <2>2. FreshFrom(i)'
    <3> SUFFICES ASSUME NEW k \in 1..Len(fds'), i' <= k, "in" \in fds'[k].revents
                 PROVE  Ready(fds[k].fd)'
      <4>1. DOMAIN fds' = 1..Len(fds')
        BY <1>8, LenProperties
      <4> QED BY <4>1 DEF FreshFrom
    <3>1. k \in 2..Len(fds) /\ k \in DOMAIN fds /\ k # i /\ i + 1 <= k /\ k \in 1..Len(fds)
      BY <1>1, <1>2, <1>8, <1>i, LenProperties DEF Types
    <3>2. fds'[k] = fds[k]
      BY <1>8, <3>1
    <3>3. PICK d \in Client : d = fds[k].fd /\ d # c /\ Ready(d)
      BY <1>4, <2>1, <3>1, <3>2, Current DEF FreshFrom
    <3>4. got'[d] = got[d] /\ sent'[d] = sent[d] /\ peer'[d] = peer[d]
      BY Zenon, <1>o, <3>3
    <3>5. Ready(d)'
      BY <3>3, <3>4 DEF Ready
    <3> QED BY Zenon, <3>2, <3>3, <3>5 DEF Ready
  <2> QED BY <1>1, <2>2 DEF Fresh
<1>15. Served' /\ Writing'
  <2> SUFFICES ASSUME space >= BufSize, NEW d \in Client PROVE Silent(d)'
    BY <1>1 DEF Served, Writing
  <2>1. CASE d = c
    BY <1>5, <1>6, <1>i, <2>1, Closing DEF Silent
  <2>2. CASE d # c
    <3>1. Silent(d)
      BY <1>3, <1>i, <2>2 DEF Served
    <3> QED BY <1>o, <2>2, <3>1 DEF Silent
  <2> QED BY <2>1, <2>2
<1> QED BY <1>10, <1>12, <1>13, <1>14, <1>15 DEF EchoInv

-----------------------------------------------------------------------------
(* The backlog *)

\* Who waits goes on waiting in its place when nobody is accepted and what it
\* has to do with is left alone.
LEMMA QueueStays ==
  ASSUME Queued, UNCHANGED backlog,
         \A c \in Client : sock[c] # "open" => sock'[c] # "open",
         \A c \in Client : sock[c] # "open" /\ peer[c] \notin {"out", "dropped"}
                            => peer'[c] \notin {"out", "dropped"},
         Up' /\ loc' = "listen" /\ "in" \in fds'[1].revents => backlog # <<>>
  PROVE  Queued'
<1>1. \A k \in 1..Len(backlog) : backlog[k] \in Client
  BY ElementOfSeq DEF Queued
<1> QED BY <1>1 DEF Queued

\* A client waits behind those that came before it (external: connect).
LEMMA ClientQueues ==
  ASSUME EchoInv, Queued, NEW c \in Client, ClientStep(c)
  PROVE  Queued'
<1>1. UNCHANGED <<fds, loc, server, sock>> /\ peer \in [Client -> {"out", "connected", "shut", "closed", "dropped"}]
  BY DEF ClientStep, Connect, Send, ReadEcho, HalfClose, Leave, EchoInv, Types
<1>2. CASE Connect(c)
  <2>1. /\ backlog' = Append(backlog, c) /\ peer[c] = "out" /\ Up
        /\ peer' = [peer EXCEPT ![c] = "connected"]
    BY <1>2 DEF Connect, Up
  <2>2. sock[c] # "open"
    BY <2>1 DEF EchoInv, Tracked, Open
  <2>3. backlog \in Seq(Client) /\ Len(backlog) \in Nat
    BY LenProperties DEF Queued
  <2>4. /\ backlog' \in Seq(Client) /\ Len(backlog') = Len(backlog) + 1 /\ backlog' # <<>>
        /\ \A k \in 1..Len(backlog) : backlog'[k] = backlog[k]
        /\ backlog'[Len(backlog) + 1] = c
    BY <2>1, <2>3, AppendProperties
  <2>5. \A k \in 1..Len(backlog) : backlog[k] # c /\ backlog[k] \in Client
    BY <2>1, <2>3, ElementOfSeq DEF Queued
  <2>6. \A k \in 1..Len(backlog') : k \in 1..Len(backlog) \/ k = Len(backlog) + 1
    BY <2>3, <2>4
  <2>7. \A k \in 1..Len(backlog') :
          sock'[backlog'[k]] # "open" /\ peer'[backlog'[k]] \notin {"out", "dropped"}
    <3> TAKE k \in 1..Len(backlog')
    <3>1. CASE k \in 1..Len(backlog)
      BY <1>1, <2>1, <2>4, <2>5, <3>1 DEF Queued
    <3>2. CASE k = Len(backlog) + 1
      BY <1>1, <2>1, <2>2, <2>4, <3>2
    <3> QED BY <2>6, <3>1, <3>2
  <2>8. \A j, k \in 1..Len(backlog') : backlog'[j] = backlog'[k] => j = k
    <3> TAKE j, k \in 1..Len(backlog')
    <3> QED BY <2>4, <2>5, <2>6 DEF Queued
  <2> QED BY <2>4, <2>7, <2>8 DEF Queued
<1>3. CASE ~Connect(c)
  <2>1. UNCHANGED backlog
    BY <1>3 DEF ClientStep, Send, ReadEcho, HalfClose, Leave
  <2>2. \A d \in Client : peer[d] \notin {"out", "dropped"} => peer'[d] \notin {"out", "dropped"}
    BY <1>1, <1>3 DEF ClientStep, Send, ReadEcho, HalfClose, Leave
  <2>3. Up' = Up
    BY <1>1 DEF Up
  <2>4. Up' /\ loc' = "listen" /\ "in" \in fds'[1].revents => backlog # <<>>
    BY <1>1, <2>3 DEF Queued
  <2> QED BY <1>1, <2>1, <2>2, <2>4, QueueStays
<1> QED BY <1>2, <1>3

\* accept takes the client that waits longest and no other.
LEMMA QueueMoves ==
  ASSUME Queued, backlog # <<>>, backlog' = Tail(backlog), loc' # "listen",
         \A c \in Client \ {Head(backlog)} : sock'[c] = sock[c] /\ peer'[c] = peer[c]
  PROVE  Queued'
<1>1. \A k \in 1..Len(backlog') :
         sock'[backlog'[k]] # "open" /\ peer'[backlog'[k]] \notin {"out", "dropped"}
  <2> TAKE k \in 1..Len(backlog')
  <2>1. PICK c \in Client \ {Head(backlog)} :
           c = backlog'[k] /\ sock[c] # "open" /\ peer[c] \notin {"out", "dropped"}
    BY Front
  <2> QED BY <2>1
<1> QED BY <1>1, Front DEF Queued

\* No step loses its place in the queue for a client, or leaves accept with
\* nobody to take.
LEMMA QueuedStep == EchoInv /\ Queued /\ [Next]_vars => Queued'
<1> SUFFICES ASSUME EchoInv, Queued, [Next]_vars PROVE Queued'
  OBVIOUS
<1>1. CASE UNCHANGED vars
  BY <1>1 DEF vars, Queued, Up
<1>2. CASE \E c \in Client : ClientStep(c)
  BY <1>2, ClientQueues
<1>3. CASE ServerStep \/ (server = "up" /\ (PollFails \/ Poll({"err"})) /\ UNCHANGED space)
  <2>0. Up /\ (ServerStep \/ PollFails \/ Poll({"err"}))
    BY <1>3 DEF ServerStep, Up
  <2>1. CASE Poll({}) \/ Poll({"err"})
    <3>1. PICK err \in SUBSET {"err"} : Poll(err)
      BY <2>1
    <3>2. /\ UNCHANGED <<backlog, sock, peer>>
          /\ fds' = [k \in 1..Len(fds) |->
                       [fds[k] EXCEPT !.revents =
                          IF k = 1 THEN err \cup ListenEvents ELSE Events(fds[k].fd)]]
          /\ \E k \in 1..Len(fds) : fds'[k].revents # {}
      BY <3>1 DEF Poll, kernel
    <3>3. Len(fds) \in Nat /\ 1 \in 1..Len(fds) /\ fds[1] \in Entries
      BY <3>2, LenProperties, ElementOfSeq DEF EchoInv, Types
    <3>4. fds'[1].revents = err \cup ListenEvents
      BY <3>2, <3>3 DEF Entries
    <3>5. "in" \in fds'[1].revents => backlog # <<>>
      BY <3>4 DEF ListenEvents
    <3> QED BY <3>2, <3>5, QueueStays
  <2>2. CASE PollFails \/ ListenError
    <3>1. backlog' = <<>> /\ loc' = "exit"
      BY <2>2 DEF PollFails, ListenError, Exit
    <3> QED BY <3>1, EmptySeq DEF Queued
  <2>3. CASE HungUp \/ WriteEnds
    <3>1. /\ loc \in {"scan", "write"} /\ loc' = "scan" /\ i <= Len(fds)
          /\ CloseConnections({c_i}) /\ UNCHANGED backlog
      BY <2>0, <2>3 DEF HungUp, WriteEnds, Drop, NextEntry, EchoInv, Walking
    <3>2. i \in 2..Len(fds)
      BY <2>0, <3>1, LenProperties DEF EchoInv, Walking, Types
    <3>3. PICK d \in Client : d = c_i /\ sock[d] = "open"
      BY <2>0, <3>2, Current DEF c_i, Open
    <3>4. PICK cs \in SUBSET Client : cs = {d} /\ CloseConnections(cs)
      BY <3>1, <3>3
    <3>5. \A c \in Client : sock[c] # "open" => sock'[c] = sock[c] /\ peer'[c] = peer[c]
      BY <3>3, <3>4 DEF CloseConnections
    <3> QED BY <3>1, <3>5, QueueStays
  <2>4. CASE Accept
    <3>1. backlog # <<>>
      BY <2>0, <2>4 DEF Accept, ClientWaits, Queued
    <3>2. /\ backlog' = Tail(backlog) /\ loc' = "scan" /\ UNCHANGED peer
          /\ sock' = [sock EXCEPT ![Head(backlog)] = "open"]
      BY <2>4 DEF Accept
    <3>3. \A c \in Client \ {Head(backlog)} : sock'[c] = sock[c]
      BY <3>2 DEF EchoInv, Types
    <3> QED BY <3>1, <3>2, <3>3, QueueMoves
  <2>5. CASE AcceptFails
    <3>1. backlog # <<>> /\ loc' = "poll"
      BY <2>0, <2>5 DEF AcceptFails, ClientWaits, Queued
    <3>2. CASE UNCHANGED kernel
      BY <3>1, <3>2, QueueStays DEF kernel
    <3>3. CASE /\ sock' = [sock EXCEPT ![Head(backlog)] = "open"]
               /\ backlog' = Tail(backlog) /\ UNCHANGED peer
      <4>1. \A c \in Client \ {Head(backlog)} : sock'[c] = sock[c]
        BY <3>3 DEF EchoInv, Types
      <4> QED BY <3>1, <3>3, <4>1, QueueMoves
    <3>4. CASE backlog' = Tail(backlog) /\ CloseConnections({Head(backlog)})
      <4>1. \A c \in Client \ {Head(backlog)} : sock'[c] = sock[c] /\ peer'[c] = peer[c]
        BY <3>4 DEF CloseConnections
      <4> QED BY <3>1, <3>4, <4>1, QueueMoves
    <3> QED BY <2>5, <3>2, <3>3, <3>4 DEF AcceptFails
  <2>6. CASE \/ Start \/ NoNewClient \/ ScanEnds \/ Skip \/ Readable \/ Read \/ ReadFails
             \/ WriteSome \/ WriteFails
    <3>1. UNCHANGED <<backlog, sock, peer>> /\ loc' # "listen"
      BY <2>6 DEF Start, NoNewClient, ScanEnds, Skip, Readable, Read, ReadFails, WriteSome,
                  WriteFails, NextEntry, kernel
    <3> QED BY <3>1, QueueStays
  <2>7. CASE BrokenPipe
    <3>1. UNCHANGED <<backlog, sock, peer>> /\ ~Up'
      BY <2>7 DEF BrokenPipe, kernel, Up
    <3> QED BY <3>1, QueueStays
  <2> QED BY <2>0, <2>1, <2>2, <2>3, <2>4, <2>5, <2>6, <2>7 DEF ServerStep
<1> QED BY <1>1, <1>2, <1>3 DEF Next

-----------------------------------------------------------------------------
\* Every step of the server and of its clients preserves the invariant.
LEMMA StepInv == EchoInv /\ Queued /\ [Next]_vars => EchoInv'
<1> SUFFICES ASSUME EchoInv, Queued, [Next]_vars PROVE EchoInv'
  OBVIOUS
<1>1. CASE ServerStep
  <2>1. Up /\ UNCHANGED space
    BY <1>1 DEF ServerStep, Up
  <2>2. CASE Poll({})
    BY <2>1, <2>2, PollKeeps
  <2>3. CASE ListenError
    BY <2>1, <2>3, ExitKeeps DEF ListenError
  <2> QED BY <1>1, <2>1, <2>2, <2>3, StartKeeps, MoveKeeps, AcceptKeeps, AcceptFailsKeeps,
             ReadKeeps, ReadFailsKeeps, WriteSomeKeeps, DropKeeps, BrokenPipeKeeps
          DEF ServerStep
<1>2. CASE server = "up" /\ (PollFails \/ Poll({"err"})) /\ UNCHANGED space
  <2>1. Up
    BY <1>2 DEF Up
  <2>2. CASE PollFails
    BY <1>2, <2>2, ExitKeeps DEF PollFails
  <2>3. CASE Poll({"err"})
    BY <1>2, <2>1, <2>3, PollKeeps
  <2> QED BY <1>2, <2>2, <2>3
<1>3. CASE \E c \in Client : ClientStep(c)
  BY <1>3, ClientKeeps
<1>4. CASE UNCHANGED vars
  <2>1. /\ UNCHANGED <<space, peer, sent, got, echo, drained, sock, fds, leaked>>
        /\ UNCHANGED <<loc, i, buf, nr, nw, server>>
    BY <1>4 DEF vars
  <2>2. Types'
    BY <2>1 DEF EchoInv, Types
  <2>3. Tracked'
    BY <2>1 DEF EchoInv, Tracked, ArrayTracksSockets, Open, Polled, Up
  <2>4. Walking'
    BY <2>1 DEF EchoInv, Walking, Up
  <2>5. Fresh'
    BY <2>1 DEF EchoInv, Fresh, FreshFrom, Ready, Up
  <2>6. Served'
    BY <2>1 DEF EchoInv, Served, Silent, Reading, Written, c_i
  <2>7. Writing'
    BY <2>1 DEF EchoInv, Writing, Reading, Written, c_i, Up
  <2> QED BY <2>2, <2>3, <2>4, <2>5, <2>6, <2>7 DEF EchoInv
<1> QED BY <1>1, <1>2, <1>3, <1>4 DEF Next

(* The invariant holds of every behaviour of the server. *)
THEOREM EchoInvariance == Spec => [](EchoInv /\ Queued)
  BY InitInv, InitQueued, StepInv, QueuedStep, PTL DEF Spec

(* For any number of clients, fd_arr holds the listening descriptor first
   and every open client exactly once, whatever has been inserted and
   removed while the loop walked it (server.c:122-183, dynarray.c:44-52). *)
THEOREM ArrayIsTracked == Spec => []ArrayTracksSockets
<1>1. EchoInv => ArrayTracksSockets
  BY DEF EchoInv, Tracked
<1> QED BY <1>1, EchoInvariance, PTL

(* communicate is never called for a client that has nothing to read: no
   swap with the last entry and no insertion brings an event of an earlier
   poll to the place the loop looks at (server.c:154-173). *)
THEOREM ReadinessIsFresh == Spec => []ReadsAreReady
<1>1. ASSUME EchoInv, Up, loc = "read" PROVE Ahead > 0 \/ peer[c_i] \in {"shut", "closed"}
  <2>1. i \in 2..Len(fds) /\ Len(fds) \in Nat /\ c_i \in Client /\ i \in DOMAIN fds
    BY <1>1, InHand, LenProperties DEF EchoInv, Types
  <2>2. FreshFrom(i) /\ "in" \in fds[i].revents
    BY <1>1 DEF EchoInv, Fresh
  <2>3. Ready(c_i)
    BY <2>1, <2>2 DEF FreshFrom, c_i
  <2>4. PICK c \in Client : c = c_i
    BY <2>1
  <2>5. got[c] \in Nat /\ sent[c] \in Nat
    BY <1>1 DEF EchoInv, Types
  <2>6. got[c] < sent[c] => sent[c] - got[c] > 0
    BY <2>5
  <2> QED BY Zenon, <2>3, <2>4, <2>6 DEF Ready, Ahead
<1>2. EchoInv => ReadsAreReady
  BY <1>1 DEF ReadsAreReady
<1> QED BY <1>2, EchoInvariance, PTL

(* For any BUF_SIZE, and a send buffer that holds one message, a client
   gets back a beginning of what it sent, without a hole and in order
   (server.c:24-46). *)
THEOREM EchoIsFaithful == Spec => []EchoIsPrefix
<1>1. ASSUME EchoInv, space >= BufSize, NEW c \in Client
      PROVE  Len(echo[c]) <= got[c] /\ \A k \in 1..Len(echo[c]) : echo[c][k] = k
  <2>1. got[c] \in Nat
    BY <1>1 DEF EchoInv, Types
  <2>2. echo[c] = <<>> \/ echo[c] = UpTo(got[c])
    BY <1>1 DEF EchoInv, Served, Silent, Reading, Written
  <2> QED BY <2>1, <2>2, EmptySeq DEF UpTo
<1>2. EchoInv => EchoIsPrefix
  BY <1>1 DEF EchoIsPrefix
<1> QED BY <1>2, EchoInvariance, PTL
-----------------------------------------------------------------------------
(* The server waits for nobody but in poll *)

\* A client waits for the server: to be accepted, to be read, or to be closed.
Asks(c) == c \in Pending \/ (c \in Open \ leaked /\ Events(c) # {})

\* What the next poll has to report.
PollReports ==
  \E m \in 1..Len(fds) : (IF m = 1 THEN ListenEvents ELSE Events(fds[m].fd)) # {}

\* What the next step of the server needs, wherever it is.
ServerMayStep ==
  \/ loc = "poll" /\ PollReports
  \/ /\ loc = "listen"
     /\ \/ fds[1].revents \in {{}, {"err"}}
        \/ "in" \in fds[1].revents /\ backlog # <<>>
  \/ /\ loc = "scan"
     /\ i <= Len(fds) =>
          \/ fds[i].revents \in {{}, {"in"}}
          \/ "err" \in fds[i].revents \/ "hup" \in fds[i].revents
  \/ /\ loc = "read"
     /\ \/ Ahead > 0 \/ (peer[c_i] \in {"shut", "closed"} /\ ~reset[c_i])
        \/ Ahead = 0 /\ (peer[c_i] = "connected" \/ reset[c_i])
  \/ loc = "write" /\ nr >= 0 /\ (nr > 0 => Room >= 0)

(* While a client asks for something the server goes on: poll reports it, as
   no accepted client is missing from the array, and no call between two
   polls blocks. *)
NobodyWaitsInVain ==
  Up /\ fds # <<>> /\ (\E c \in Client : Asks(c)) => ServerMayStep

\* What a client has not read of its echo fits into the send buffer.
Buffered ==
  \A c \in Client :
    /\ echo[c] \in Seq(Nat) /\ drained[c] <= Len(echo[c])
    /\ Len(echo[c]) - drained[c] <= space

\* Where the server is while it is up, and what it works with there.
Working ==
  Up =>
    /\ loc \in {"start", "poll", "listen", "scan", "read", "write"}
    /\ loc = "listen" => fds[1].revents \subseteq {"in", "err"}
    /\ loc = "write" => /\ nr \in Nat /\ nw \in Nat /\ nw + nr <= BufSize
                        /\ buf \in [1..BufSize -> Nat]

\* A step that neither writes to a connection nor reads an echo.
LEMMA BufferedStays ==
  ASSUME Buffered, UNCHANGED <<space, echo, drained>>
  PROVE  Buffered'
  BY DEF Buffered

\* A closed connection has nothing in its buffer.
LEMMA BufferedCloses ==
  ASSUME EchoInv, Buffered, UNCHANGED space, NEW cs \in SUBSET Client, CloseConnections(cs)
  PROVE  Buffered'
<1>1. Types /\ space \in Nat
  BY EchoAssumption DEF EchoInv, Types
<1>2. \A c \in Client : \/ echo'[c] = <<>> /\ drained'[c] = 0
                        \/ echo'[c] = echo[c] /\ drained'[c] = drained[c]
  BY <1>1, Closing
<1>3. <<>> \in Seq(Nat) /\ Len(<<>>) = 0 /\ 0 <= 0 /\ 0 - 0 <= space
  BY <1>1, EmptySeq
<1>4. ASSUME NEW c \in Client
      PROVE  /\ echo'[c] \in Seq(Nat) /\ drained'[c] <= Len(echo'[c])
             /\ Len(echo'[c]) - drained'[c] <= space'
  <2>1. CASE echo'[c] = <<>> /\ drained'[c] = 0
    BY Zenon, <1>3, <2>1
  <2>2. CASE echo'[c] = echo[c] /\ drained'[c] = drained[c]
    BY Zenon, <2>2 DEF Buffered
  <2> QED BY <1>2, <2>1, <2>2
<1> QED BY Zenon, <1>4 DEF Buffered

\* A client takes bytes out of its buffer, and is not otherwise heard of here.
LEMMA ClientLeavesRoom ==
  ASSUME EchoInv, Buffered, Working, NEW c \in Client, ClientStep(c)
  PROVE  Buffered' /\ Working'
<1>1. UNCHANGED <<space, fds, loc, server, i, buf, nr, nw, echo>>
  BY DEF ClientStep, locals, Connect, Send, ReadEcho, HalfClose, Leave
<1>2. Working'
  BY <1>1 DEF Working, Up
<1>3. CASE ReadEcho(c)
  <2>1. drained \in [Client -> Nat] /\ space \in Nat
    BY EchoAssumption DEF EchoInv, Types
  <2>2. /\ drained' = [drained EXCEPT ![c] = @ + 1] /\ drained[c] < Len(echo[c])
    BY <1>3 DEF ReadEcho
  <2>3. \A d \in Client : Len(echo[d]) \in Nat
    BY LenProperties DEF Buffered
  <2> QED BY <1>1, <1>2, <2>1, <2>2, <2>3 DEF Buffered
<1>4. CASE ~ReadEcho(c)
  <2>1. UNCHANGED drained
    BY <1>4 DEF ClientStep, Connect, Send, HalfClose, Leave
  <2> QED BY <1>1, <1>2, <2>1, BufferedStays
<1> QED BY <1>3, <1>4

\* A write puts no more into the send buffer than there is room for, and no
\* more than was read.
LEMMA WriteLeavesRoom ==
  ASSUME EchoInv, Buffered, Working, Up, UNCHANGED space, WriteSome
  PROVE  Buffered' /\ Working'
<1>1. /\ loc = "write" /\ UNCHANGED <<space, drained, fds, loc, server, buf>>
      /\ nr > 0 /\ Room > 0 /\ nw' = Least(nr, Room) /\ nr' = nr - nw'
      /\ echo' = [echo EXCEPT ![c_i] = @ \o Writes(nw, nw')]
  BY DEF WriteSome
<1>2. /\ nr \in Nat /\ nw \in Nat /\ nw + nr <= BufSize /\ buf \in [1..BufSize -> Nat]
      /\ BufSize \in Nat /\ space \in Nat /\ DOMAIN echo = Client /\ drained \in [Client -> Nat]
  BY <1>1, EchoAssumption DEF Working, EchoInv, Types
<1>3. PICK c \in Client : c = c_i
  BY <1>1, InHand
<1>4. /\ echo[c] \in Seq(Nat) /\ Len(echo[c]) \in Nat /\ drained[c] <= Len(echo[c])
      /\ Len(echo[c]) - drained[c] <= space
  BY LenProperties DEF Buffered
<1>5. Room = space - (Len(echo[c]) - drained[c])
  BY Zenon, <1>3 DEF Room
<1>6. /\ nw' \in Nat /\ nr' \in Nat /\ nw' <= nr /\ nw' <= Room /\ nw' + nr' <= BufSize
  <2>1. PICK room : room = Room
    OBVIOUS
  <2>2. room \in Int /\ room > 0 /\ nr > 0 /\ nw' = Least(nr, room) /\ nr' = nr - nw'
    <3>1. drained[c] \in Nat
      BY <1>2
    <3>2. room \in Int
      BY <1>2, <1>4, <1>5, <2>1, <3>1
    <3> QED BY <1>1, <2>1, <3>2
  <2>3. nw' \in Nat /\ nw' <= nr /\ nw' <= room
    BY <1>2, <2>2 DEF Least
  <2> QED BY <1>2, <2>1, <2>2, <2>3
<1>7. PICK w : w = Writes(nw, nw')
  OBVIOUS
<1>8. w \in Seq(Nat) /\ Len(w) = nw'
  <2>1. w = SubSeq(buf, nw + 1, nw + nw')
    BY <1>7 DEF Writes
  <2>2. buf \in Seq(Nat) /\ Len(buf) = BufSize
    BY <1>2
  <2>3. PICK from \in Nat, n \in Nat : from = nw /\ n = nw' /\ from + n <= BufSize
    <3>1. PICK left \in Nat : left = nr
      BY <1>2
    <3>2. PICK from \in Nat : from = nw
      BY <1>2
    <3>3. PICK n \in Nat : n = nw'
      BY <1>6
    <3>4. from + left <= BufSize /\ n <= left
      BY Zenon, <1>2, <1>6, <3>1, <3>2, <3>3
    <3>5. from + n <= BufSize
      BY <1>2, <3>4
    <3> QED BY <3>2, <3>3, <3>5
  <2>4. \A m \in (from + 1)..(from + n) : m \in 1..BufSize
    <3>1. BufSize \in Nat /\ from + n <= BufSize
      BY <1>2, <2>3
    <3> QED BY <3>1
  <2>5. \A m \in (from + 1)..(from + n) : buf[m] \in Nat
    BY Zenon, <1>2, <2>4
  <2>6. w = SubSeq(buf, from + 1, from + n)
    BY Zenon, <2>1, <2>3
  <2>7. from + 1 \in Nat /\ from + n \in Nat
    OBVIOUS
  <2>8. SubSeq(buf, from + 1, from + n) \in Seq(Nat)
        /\ Len(SubSeq(buf, from + 1, from + n)) =
             IF from + 1 <= from + n THEN (from + n) - (from + 1) + 1 ELSE 0
    BY <2>5, <2>7, SubSeqProperties
  <2>9. (IF from + 1 <= from + n THEN (from + n) - (from + 1) + 1 ELSE 0) = n
    OBVIOUS
  <2> QED BY Zenon, <2>3, <2>6, <2>8, <2>9
<1>9. /\ echo'[c] = echo[c] \o w
      /\ \A d \in Client \ {c} : echo'[d] = echo[d]
  BY <1>1, <1>2, <1>3, <1>7
<1>10. echo[c] \o w \in Seq(Nat) /\ Len(echo[c] \o w) = Len(echo[c]) + Len(w)
  BY <1>4, <1>8, ConcatProperties
<1>11. Buffered'
  <2>1. /\ echo'[c] \in Seq(Nat) /\ drained'[c] <= Len(echo'[c])
        /\ Len(echo'[c]) - drained'[c] <= space'
    <3>1. PICK n \in Nat : n = Len(echo[c])
      BY <1>4
    <3>2. PICK more \in Nat : more = nw'
      BY <1>6
    <3>3. PICK d \in Nat : d = drained[c] /\ d = drained'[c]
      BY <1>1, <1>2
    <3>4. Len(echo'[c]) = n + more /\ d <= n /\ more <= space - (n - d)
      BY <1>4, <1>5, <1>6, <1>8, <1>9, <1>10, <3>1, <3>2, <3>3
    <3>5. d <= n + more /\ (n + more) - d <= space
      BY <1>2, <3>4
    <3> QED BY <1>1, <1>9, <1>10, <3>3, <3>4, <3>5
  <2> QED BY <1>1, <1>9, <2>1 DEF Buffered
<1>12. Working'
  BY <1>1, <1>2, <1>6 DEF Working, Up
<1> QED BY <1>11, <1>12

\* No step of the server leaves the places it may be at.
LEMMA ServerKeepsWorking ==
  ASSUME EchoInv, Queued, Buffered, Working, Up, UNCHANGED space,
         ServerStep \/ PollFails \/ Poll({"err"})
  PROVE  Buffered' /\ Working'
<1>0. Types
  BY DEF EchoInv
<1>1. CASE Start
  <2>1. UNCHANGED <<echo, drained>> /\ (loc' = "poll" \/ ~Up')
    BY <1>1 DEF Start, kernel, Up
  <2> QED BY <2>1, BufferedStays DEF Working
<1>2. CASE Poll({}) \/ Poll({"err"})
  <2>1. PICK err \in SUBSET {"err"} : Poll(err)
    BY <1>2
  <2>2. /\ UNCHANGED <<echo, drained, server>> /\ loc' = "listen"
        /\ fds' = [m \in 1..Len(fds) |->
                     [fds[m] EXCEPT !.revents =
                        IF m = 1 THEN err \cup ListenEvents ELSE Events(fds[m].fd)]]
        /\ \E m \in 1..Len(fds) : fds'[m].revents # {}
    BY <2>1 DEF Poll, kernel
  <2>3. Len(fds) \in Nat /\ 1 \in 1..Len(fds) /\ fds[1] \in Entries
    BY <1>0, <2>2, LenProperties, ElementOfSeq DEF Types
  <2>4. fds'[1].revents = err \cup ListenEvents
    BY <2>2, <2>3 DEF Entries
  <2>5. fds'[1].revents \subseteq {"in", "err"}
    BY <2>4 DEF ListenEvents
  <2> QED BY <2>2, <2>5, BufferedStays DEF Working
<1>3. CASE PollFails \/ ListenError
  <2>1. CloseConnections(Client) /\ ~Up'
    BY <1>3 DEF PollFails, ListenError, Exit, Up
  <2> QED BY <2>1, BufferedCloses DEF Working
<1>4. CASE NoNewClient \/ ScanEnds \/ Skip \/ Readable \/ WriteFails
  <2>1. UNCHANGED <<echo, drained>> /\ loc' \in {"poll", "scan", "read"}
    BY <1>4 DEF NoNewClient, ScanEnds, Skip, Readable, WriteFails, NextEntry, kernel
  <2> QED BY <2>1, BufferedStays DEF Working
<1>5. CASE Accept
  <2>1. UNCHANGED <<echo, drained>> /\ loc' = "scan"
    BY <1>5 DEF Accept
  <2> QED BY <2>1, BufferedStays DEF Working
<1>6. CASE AcceptFails
  <2>1. loc' = "poll"
    BY <1>6 DEF AcceptFails
  <2>2. UNCHANGED <<echo, drained>> \/ \E c \in Client : CloseConnections({c})
    <3>1. backlog # <<>>
      BY <1>6 DEF AcceptFails, ClientWaits, Queued
    <3> QED BY <1>6, <3>1, Front DEF AcceptFails, kernel
  <2>3. Buffered'
    BY <2>2, BufferedStays, BufferedCloses
  <2> QED BY <2>1, <2>3 DEF Working
<1>7. CASE HungUp \/ WriteEnds
  <2>1. CloseConnections({c_i}) /\ loc' = "scan"
    BY <1>7 DEF HungUp, WriteEnds, Drop, NextEntry
  <2>2. c_i \in Client
    <3>1. CASE HungUp
      <4>1. i \in 2..Len(fds)
        BY <1>0, <3>1, LenProperties DEF HungUp, EchoInv, Walking, Types
      <4> QED BY <4>1, Current DEF c_i
    <3>2. CASE WriteEnds
      BY <3>2, InHand DEF WriteEnds
    <3> QED BY <1>7, <3>1, <3>2
  <2> QED BY <2>1, <2>2, BufferedCloses DEF Working
<1>8. CASE Read
  <2>1. /\ UNCHANGED <<echo, drained>> /\ loc' = "write" /\ nw' = 0 /\ nr' = Taken
        /\ buf' = [m \in 1..BufSize |-> IF m <= nr' THEN got[c_i] + m ELSE 0]
        /\ loc = "read"
        /\ Ahead > 0 \/ (peer[c_i] \in {"shut", "closed"} /\ ~reset[c_i])
    BY <1>8 DEF Read
  <2>2. PICK c \in Client : c = c_i
    BY <2>1, InHand
  <2>3. got[c] \in Nat /\ sent[c] \in Nat /\ got[c] <= sent[c] /\ BufSize \in Nat \ {0}
    BY <1>0, EchoAssumption DEF Types
  <2>4. Taken = Least(BufSize, sent[c] - got[c])
    BY Zenon, <2>2 DEF Taken, Ahead
  <2>5. nr' \in Nat /\ nr' <= BufSize
    BY <2>1, <2>3, <2>4 DEF Least
  <2>6. buf' \in [1..BufSize -> Nat]
    <3>1. buf' = [m \in 1..BufSize |-> IF m <= nr' THEN got[c] + m ELSE 0]
      BY Zenon, <2>1, <2>2
    <3> QED BY <2>3, <3>1
  <2> QED BY <2>1, <2>3, <2>5, <2>6, BufferedStays DEF Working
<1>9. CASE ReadFails
  <2>1. UNCHANGED <<echo, drained>> /\ loc' = "scan"
    BY <1>9 DEF ReadFails, NextEntry
  <2> QED BY <2>1, BufferedStays DEF Working
<1>10. CASE BrokenPipe
  <2>1. UNCHANGED <<echo, drained>> /\ ~Up'
    BY <1>10 DEF BrokenPipe, kernel, Up
  <2> QED BY <2>1, BufferedStays DEF Working
<1> QED BY <1>1, <1>2, <1>3, <1>4, <1>5, <1>6, <1>7, <1>8, <1>9, <1>10, WriteLeavesRoom
        DEF ServerStep

(* Wherever the server is when a client asks for something, it has a step
   to take, for any number of clients: no accepted client is missing from
   what poll reports, and nothing between two polls blocks.  This is the half
   of ClientIsRead, ClientIsAccepted and LeaverIsClosed that needs no
   fairness (server.c:110-184). *)
THEOREM ServerNeverHangs == Spec => []NobodyWaitsInVain
<1>1. Init => Buffered /\ Working
  BY EmptySeq, EchoAssumption DEF Init, Buffered, Working
<1>2. EchoInv /\ Queued /\ Buffered /\ Working /\ [Next]_vars => (Buffered /\ Working)'
  <2> SUFFICES ASSUME EchoInv, Queued, Buffered, Working, [Next]_vars PROVE Buffered' /\ Working'
    OBVIOUS
  <2>1. CASE UNCHANGED vars
    BY <2>1 DEF vars, Buffered, Working, Up
  <2>2. CASE \E c \in Client : ClientStep(c)
    BY <2>2, ClientLeavesRoom
  <2>3. CASE ServerStep \/ (server = "up" /\ (PollFails \/ Poll({"err"})) /\ UNCHANGED space)
    BY <2>3, ServerKeepsWorking DEF ServerStep, Up
  <2> QED BY <2>1, <2>2, <2>3 DEF Next
<1>3. EchoInv /\ Queued /\ Buffered /\ Working => NobodyWaitsInVain
  <2> SUFFICES ASSUME EchoInv, Queued, Buffered, Working, Up, fds # <<>>,
                      NEW c \in Client, Asks(c)
               PROVE  ServerMayStep
    BY DEF NobodyWaitsInVain
  <2>0. fds \in Seq(Entries) /\ Len(fds) \in Nat /\ Len(fds) >= 1 /\ Types
    BY LenProperties, EmptySeq DEF EchoInv, Types
  <2>1. CASE loc = "poll"
    <3>1. CASE c \in Pending
      <4>0. backlog # <<>>
        BY <3>1, EmptySeq DEF Pending
      <4>1. ListenEvents # {} /\ 1 \in 1..Len(fds)
        BY <2>0, <4>0 DEF ListenEvents
      <4> QED BY <2>1, <4>1 DEF ServerMayStep, PollReports
    <3>2. CASE c \in Open \ leaked /\ Events(c) # {}
      <4>1. c \in Polled
        BY <3>2 DEF EchoInv, Tracked, ArrayTracksSockets, Open
      <4>2. PICK m \in 2..Len(fds) : fds[m].fd = c
        BY <4>1 DEF Polled
      <4>3. m \in 1..Len(fds) /\ m # 1
        BY <2>0
      <4> QED BY <2>1, <3>2, <4>2, <4>3 DEF ServerMayStep, PollReports
    <3> QED BY <3>1, <3>2 DEF Asks
  <2>2. CASE loc = "listen"
    BY <2>2 DEF Working, Queued, ServerMayStep
  <2>3. CASE loc = "scan"
    <3>1. ASSUME i <= Len(fds)
          PROVE  \/ fds[i].revents \in {{}, {"in"}}
                 \/ "err" \in fds[i].revents \/ "hup" \in fds[i].revents
      <4>1. i \in 1..Len(fds)
        BY <2>0, <2>3, <3>1 DEF EchoInv, Walking, Types
      <4>2. fds[i] \in Entries
        BY <2>0, <4>1, ElementOfSeq
      <4>3. fds[i].revents \subseteq {"in", "hup", "err"}
        BY <4>2 DEF Entries
      <4> QED BY <4>3
    <3> QED BY <2>3, <3>1 DEF ServerMayStep
  <2>4. CASE loc = "read"
    <3>1. PICK d \in Client : d = c_i
      BY <2>4, InHand
    <3>2. /\ got[d] \in Nat /\ sent[d] \in Nat /\ got[d] <= sent[d]
          /\ Ahead = sent[d] - got[d]
      BY Zenon, <2>0, <3>1 DEF Types, Ahead
    <3>3. /\ i \in DOMAIN fds /\ "in" \in fds[i].revents /\ FreshFrom(i) /\ i \in Nat
      BY <2>0, <2>4, LenProperties DEF EchoInv, Fresh, Types, Walking
    <3>4. got[d] < sent[d] \/ peer[d] \in {"shut", "closed"}
      BY <3>1, <3>3 DEF FreshFrom, Ready, c_i
    <3>5. Ahead > 0 \/ (Ahead = 0 /\ peer[d] \in {"shut", "closed"})
      BY <3>2, <3>4
    <3> QED BY Zenon, <2>4, <3>1, <3>5 DEF ServerMayStep
  <2>5. CASE loc = "write"
    <3>1. PICK d \in Client : d = c_i
      BY <2>5, InHand
    <3>2. Room = space - (Len(echo[d]) - drained[d])
      BY Zenon, <3>1 DEF Room
    <3>3. Len(echo[d]) \in Nat /\ drained[d] \in Nat /\ space \in Nat
          /\ Len(echo[d]) - drained[d] <= space
      BY <2>0, LenProperties, EchoAssumption DEF Buffered, Types
    <3>4. Room >= 0
      BY <3>2, <3>3
    <3> QED BY <2>5, <3>4 DEF ServerMayStep, Working
  <2>6. loc # "start"
    BY DEF EchoInv, Walking
  <2> QED BY <2>1, <2>2, <2>3, <2>4, <2>5, <2>6 DEF Working
<1> QED BY <1>1, <1>2, <1>3, EchoInvariance, PTL DEF Spec
==============================================================================
