------------------------------ MODULE EchoServer ------------------------------
(***************************************************************************)
(* The poll server of sem21_sockets/echo (server.c with dynarray.c; the    *)
(* loop of server_tcp.c is the same).  One process polls the listening     *)
(* socket and its clients; the clients connect, send, read their echo and  *)
(* leave at any time between two steps of the server.                      *)
(*                                                                         *)
(* The bytes of a connection are numbered 1, 2, 3...: sent[c] of them were *)
(* sent, got[c] were read by the server, echo[c] is what it wrote back.    *)
(* The sockets are the kernel's (external).  A client's descriptor is the  *)
(* client itself.                                                          *)
(***************************************************************************)
EXTENDS Integers, Sequences, FiniteSets

CONSTANTS
  Client,
  Sfd,       \* the listening descriptor
  BufSize,   \* BUF_SIZE: what one read takes at most
  Spaces,    \* what the send buffer of a connection may hold
  MaxSend,   \* bound: the bytes a client sends in one connection
  PollFd,    \* sizeof(struct pollfd)
  MinBlock   \* the bytes the smallest block of malloc really holds

ASSUME EchoAssumption ==
  /\ Sfd \notin Client
  /\ BufSize \in Nat \ {0} /\ Spaces \subseteq Nat \ {0} /\ MaxSend \in Nat
  /\ PollFd \in Nat \ {0} /\ MinBlock \in Nat

VARIABLES
  space,     \* what the send buffer of a connection holds, in this kernel
  peer,      \* each client: "out", "connected", "shut", "closed", "dropped"
  sent, got, echo,
  drained,   \* how much of its echo a client has read
  reset,     \* a client closed with echo unread: its socket has an error
  sock,      \* "open" from accept to close, else "none"
  backlog,   \* the clients that wait for accept, in the order they connected
  fds,       \* fd_arr: the pollfd entries
  capacity,  \* fd_arr->capacity
  block,     \* the bytes the block at fd_arr->data really holds
  leaked,    \* history: accepted, never inserted, never closed
  loc,       \* where the server is
  i,         \* the index of the client loop, counted from 1
  buf, nr, nw, \* the locals of communicate
  server     \* "up", "exited" or "killed"

kernel == <<peer, sent, got, echo, drained, reset, sock, backlog>>
locals == <<i, buf, nr, nw>>
vars == <<space, peer, sent, got, echo, drained, reset, sock, backlog, fds,
          capacity, block, leaked, loc, i, buf, nr, nw, server>>

Least(a, b) == IF a < b THEN a ELSE b

Init ==
  /\ space \in Spaces
  /\ peer = [c \in Client |-> "out"]
  /\ sent = [c \in Client |-> 0] /\ got = sent /\ drained = sent
  /\ echo = [c \in Client |-> <<>>]
  /\ reset = [c \in Client |-> FALSE]
  /\ sock = [c \in Client |-> "none"]
  /\ backlog = <<>>
  /\ fds = <<>> /\ capacity = 1 /\ block = 0 /\ leaked = {}
  /\ loc = "start" /\ i = 0 /\ buf = <<>> /\ nr = 0 /\ nw = 0
  /\ server = "up"

-----------------------------------------------------------------------------
(* The clients *)

\* Connected and not yet accepted: what the listening socket reports.
Pending == {backlog[k] : k \in 1..Len(backlog)}

Connect(c) ==
  /\ peer[c] = "out" /\ loc # "start" /\ server = "up"
  /\ peer' = [peer EXCEPT ![c] = "connected"]
  /\ backlog' = Append(backlog, c)
  /\ UNCHANGED <<sent, got, echo, drained, reset, sock>>

Send(c) ==
  /\ peer[c] = "connected" /\ sent[c] < MaxSend
  /\ sent' = [sent EXCEPT ![c] = @ + 1]
  /\ UNCHANGED <<peer, got, echo, drained, reset, sock, backlog>>

ReadEcho(c) ==
  /\ peer[c] \in {"connected", "shut"} /\ drained[c] < Len(echo[c])
  /\ drained' = [drained EXCEPT ![c] = @ + 1]
  /\ UNCHANGED <<peer, sent, got, echo, reset, sock, backlog>>

\* The client stops sending, or leaves.
HalfClose(c) ==
  /\ peer[c] = "connected"
  /\ peer' = [peer EXCEPT ![c] = "shut"]
  /\ UNCHANGED <<sent, got, echo, drained, reset, sock, backlog>>

Leave(c) ==
  /\ \/ /\ peer[c] \in {"connected", "shut"}
        /\ peer' = [peer EXCEPT ![c] = "closed"]
        /\ reset' = [reset EXCEPT ![c] = drained[c] < Len(echo[c])]
     \/ /\ peer[c] = "dropped"
        /\ peer' = [peer EXCEPT ![c] = "out"]
        /\ UNCHANGED reset
  /\ UNCHANGED <<sent, got, echo, drained, sock, backlog>>

\* The server closes the connections of cs, or turns them away; what was
\* under way in them is lost.
CloseConnections(cs) ==
  /\ sock' = [c \in Client |-> IF c \in cs THEN "none" ELSE sock[c]]
  /\ peer' = [c \in Client |->
               IF c \notin cs THEN peer[c]
               ELSE IF peer[c] \in {"out", "closed"} THEN "out" ELSE "dropped"]
  /\ sent' = [c \in Client |-> IF c \in cs THEN 0 ELSE sent[c]]
  /\ got' = [c \in Client |-> IF c \in cs THEN 0 ELSE got[c]]
  /\ drained' = [c \in Client |-> IF c \in cs THEN 0 ELSE drained[c]]
  /\ echo' = [c \in Client |-> IF c \in cs THEN <<>> ELSE echo[c]]
  /\ reset' = [c \in Client |-> c \notin cs /\ reset[c]]

ClientStep(c) ==
  /\ Connect(c) \/ Send(c) \/ ReadEcho(c) \/ HalfClose(c) \/ Leave(c)
  /\ UNCHANGED <<space, fds, capacity, block, leaked, loc, server>>
  /\ UNCHANGED locals

-----------------------------------------------------------------------------
(* dynarray.c *)

Entry(fd) == [fd |-> fd, revents |-> {}]

MustGrow == Len(fds) >= capacity - 1

\* The bytes of a block of malloc that was asked for cap.
Block(cap) == IF cap > MinBlock THEN cap ELSE MinBlock

\* Mutant: the entry says what the server waits for, not what happened.
InsertedReady(fd) == Append(fds, [fd |-> fd, revents |-> {"in"}])

Inserted(fd) == Append(fds, Entry(fd))

\* realloc(d->data, d->capacity) where the entries seem to need it.  A write
\* past the block is undefined: it goes unnoticed or ends the process.
Insert(fd) ==
  /\ \/ /\ MustGrow
        /\ capacity' = 2 * capacity /\ block' = Block(capacity')
     \/ ~MustGrow /\ UNCHANGED <<capacity, block>>
  /\ fds' = Inserted(fd)
  /\ \/ server' = "up"
     \/ /\ (Len(fds) + 1) * PollFd > block'
        /\ server' = "killed"

\* realloc fails: the capacity has already been doubled, the block is as it was.
InsertFails ==
  /\ MustGrow
  /\ capacity' = 2 * capacity /\ UNCHANGED block

\* Mutant: the last entry is dropped instead of the one at k.
RemovedLast(k) == SubSeq(fds, 1, Len(fds) - 1)

\* The last entry takes the place of the one removed.
Removed(k) ==
  SubSeq([fds EXCEPT ![k] = fds[Len(fds)]], 1, Len(fds) - 1)

-----------------------------------------------------------------------------
(* main *)

\* socket, bind and listen, then the listening descriptor is inserted; the
\* result of that insertion is ignored.
Start ==
  /\ loc = "start"
  /\ \/ /\ Insert(Sfd) /\ loc' = "poll"
     \/ /\ InsertFails /\ loc' = "poll"
        /\ UNCHANGED <<fds, server>>
     \/ /\ server' = "exited" /\ loc' = "exit"
        /\ UNCHANGED <<fds, capacity, block>>
  /\ UNCHANGED leaked
  /\ UNCHANGED kernel
  /\ UNCHANGED locals

Events(c) ==
  (IF got[c] < sent[c] \/ peer[c] \in {"shut", "closed"} THEN {"in"} ELSE {})
    \cup (IF peer[c] = "closed" THEN {"hup"} ELSE {})
    \cup (IF reset[c] THEN {"err"} ELSE {})

\* Mutant: the events field of the listening descriptor is left 0.
ListenEventsNone == {}

ListenEvents == IF backlog = <<>> THEN {} ELSE {"in"}

\* poll returns when at least one descriptor has an event; err is the error
\* of the listening socket, if it has one.
Poll(err) ==
  /\ loc = "poll"
  /\ fds' = [k \in 1..Len(fds) |->
               [fds[k] EXCEPT !.revents =
                  IF k = 1 THEN err \cup ListenEvents
                           ELSE Events(fds[k].fd)]]
  /\ \E k \in 1..Len(fds) : fds'[k].revents # {}
  /\ loc' = "listen"
  /\ UNCHANGED <<capacity, block, leaked, server>>
  /\ UNCHANGED kernel
  /\ UNCHANGED locals

\* The process closes what it has and ends.
Exit ==
  /\ CloseConnections(Client)
  /\ loc' = "exit" /\ server' = "exited"
  /\ fds' = <<>> /\ backlog' = <<>>
  /\ UNCHANGED <<capacity, block, leaked>>
  /\ UNCHANGED locals

PollFails == loc = "poll" /\ Exit

\* The listening socket has an error and no client to accept.
ListenError == loc = "listen" /\ fds[1].revents = {"err"} /\ Exit

NoNewClient ==
  /\ loc = "listen" /\ fds[1].revents = {}
  /\ loc' = "scan" /\ i' = 2
  /\ UNCHANGED <<fds, capacity, block, leaked, buf, nr, nw, server>>
  /\ UNCHANGED kernel

ClientWaits == loc = "listen" /\ "in" \in fds[1].revents

\* The client that waits longest is accepted and inserted, and the client
\* loop follows.
Accept ==
  /\ ClientWaits
  /\ sock' = [sock EXCEPT ![Head(backlog)] = "open"]
  /\ backlog' = Tail(backlog)
  /\ Insert(Head(backlog))
  /\ loc' = "scan" /\ i' = 2
  /\ UNCHANGED <<peer, sent, got, echo, drained, reset, leaked, buf, nr, nw>>

\* accept fails, or set_nonblock does and the descriptor is forgotten, or the
\* array cannot grow and the client is closed.  None of these looks at the
\* clients this time round.
AcceptFails ==
  /\ ClientWaits
  /\ \/ /\ UNCHANGED <<leaked, capacity, block>>
        /\ UNCHANGED kernel
     \/ /\ sock' = [sock EXCEPT ![Head(backlog)] = "open"]
        /\ backlog' = Tail(backlog)
        /\ leaked' = leaked \cup {Head(backlog)}
        /\ UNCHANGED <<peer, sent, got, echo, drained, reset, capacity, block>>
     \/ /\ InsertFails
        /\ backlog' = Tail(backlog)
        /\ CloseConnections({Head(backlog)})
        /\ UNCHANGED leaked
  /\ loc' = "poll"
  /\ UNCHANGED <<fds, server>>
  /\ UNCHANGED locals

-----------------------------------------------------------------------------
(* The client loop.  After a removal the entry moved to i is not looked at  *)
(* before the next poll.                                                    *)

c_i == fds[i].fd

ScanEnds ==
  /\ loc = "scan" /\ i > Len(fds)
  /\ loc' = "poll" /\ i' = 0
  /\ UNCHANGED <<fds, capacity, block, leaked, buf, nr, nw, server>>
  /\ UNCHANGED kernel

\* On to the next entry; the locals of communicate are gone.
NextEntry ==
  /\ loc' = "scan" /\ i' = i + 1
  /\ buf' = <<>> /\ nr' = 0 /\ nw' = 0

\* Mutant: break instead of continue.
SkipAll ==
  /\ loc = "scan" /\ i <= Len(fds)
  /\ "err" \in fds[i].revents \/ fds[i].revents = {}
  /\ loc' = "poll" /\ i' = 0
  /\ UNCHANGED <<fds, capacity, block, leaked, buf, nr, nw, server>>
  /\ UNCHANGED kernel

\* An entry with an error, or without an event, is passed over.
Skip ==
  /\ loc = "scan" /\ i <= Len(fds)
  /\ "err" \in fds[i].revents \/ fds[i].revents = {}
  /\ NextEntry
  /\ UNCHANGED <<fds, capacity, block, leaked, server>>
  /\ UNCHANGED kernel

\* dynarr_remove and close.
Drop ==
  /\ fds' = Removed(i)
  /\ CloseConnections({c_i})
  /\ NextEntry
  /\ UNCHANGED <<backlog, capacity, block, leaked, server>>

\* Mutant: the entry of a client that left is passed over.
HungUpSkipped ==
  /\ loc = "scan" /\ i <= Len(fds)
  /\ "hup" \in fds[i].revents /\ "err" \notin fds[i].revents
  /\ NextEntry
  /\ UNCHANGED <<fds, capacity, block, leaked, server>>
  /\ UNCHANGED kernel

HungUp ==
  /\ loc = "scan" /\ i <= Len(fds)
  /\ "hup" \in fds[i].revents /\ "err" \notin fds[i].revents
  /\ Drop

Readable ==
  /\ loc = "scan" /\ i <= Len(fds)
  /\ fds[i].revents = {"in"}
  /\ loc' = "read"
  /\ UNCHANGED <<fds, capacity, block, leaked, i, buf, nr, nw, server>>
  /\ UNCHANGED kernel

Ahead == sent[c_i] - got[c_i]

Taken == Least(BufSize, Ahead)

\* communicate: read what is there; at the end of the stream, nothing.
Read ==
  /\ loc = "read"
  /\ Ahead > 0 \/ (peer[c_i] \in {"shut", "closed"} /\ ~reset[c_i])
  /\ nr' = Taken
  /\ buf' = [k \in 1..BufSize |-> IF k <= nr' THEN got[c_i] + k ELSE 0]
  /\ got' = [got EXCEPT ![c_i] = @ + nr']
  /\ nw' = 0
  /\ loc' = "write"
  /\ UNCHANGED <<peer, sent, echo, drained, reset, sock, backlog, fds, capacity,
                 block, leaked, i, server>>

\* read fails; a pending error of the socket is consumed.  The client stays.
ReadFails ==
  /\ loc = "read" /\ Ahead = 0 /\ (peer[c_i] = "connected" \/ reset[c_i])
  /\ reset' = [reset EXCEPT ![c_i] = FALSE]
  /\ NextEntry
  /\ UNCHANGED <<peer, sent, got, echo, drained, sock, backlog, fds, capacity,
                 block, leaked, server>>

Room == space - (Len(echo[c_i]) - drained[c_i])

\* Mutant: the whole buffer is written, whatever was read.
WritesAll(from, n) == buf

\* The next write takes n bytes at buf + nw, nw being what the last one took.
Writes(from, n) == SubSeq(buf, from + 1, from + n)

WriteSome ==
  /\ loc = "write" /\ peer[c_i] # "closed"
  /\ nr > 0 /\ Room > 0
  /\ nw' = Least(nr, Room)
  /\ nr' = nr - nw'
  /\ echo' = [echo EXCEPT ![c_i] = @ \o Writes(nw, nw')]
  /\ UNCHANGED <<peer, sent, got, drained, reset, sock, backlog, fds, capacity,
                 block, leaked, loc, i, buf, server>>

\* The send buffer is full: EAGAIN, and the rest of the message is dropped.
WriteFails ==
  /\ loc = "write" /\ peer[c_i] # "closed"
  /\ nr > 0 /\ Room = 0
  /\ NextEntry
  /\ UNCHANGED <<fds, capacity, block, leaked, server>>
  /\ UNCHANGED kernel

\* The last write takes nothing and returns 0, which the caller takes for the
\* end of the connection: a client is closed after its first message.
WriteEnds ==
  /\ loc = "write" /\ peer[c_i] # "closed" /\ nr = 0
  /\ Drop

\* The client has gone since poll: SIGPIPE ends the server.
BrokenPipe ==
  /\ loc = "write" /\ peer[c_i] = "closed"
  /\ server' = "killed"
  /\ UNCHANGED <<fds, capacity, block, leaked, loc>>
  /\ UNCHANGED kernel
  /\ UNCHANGED locals

ServerStep ==
  /\ server = "up" /\ UNCHANGED space
  /\ \/ Start \/ Poll({}) \/ ListenError \/ NoNewClient \/ Accept \/ AcceptFails
     \/ ScanEnds \/ Skip \/ HungUp \/ Readable \/ Read \/ ReadFails
     \/ WriteSome \/ WriteFails \/ WriteEnds \/ BrokenPipe

Next ==
  \/ ServerStep
  \/ server = "up" /\ (PollFails \/ Poll({"err"})) /\ UNCHANGED space
  \/ \E c \in Client : ClientStep(c)

Spec == Init /\ [][Next]_vars

(***************************************************************************)
(* Fairness: the server keeps running, and accept does not fail for ever.  *)
(* poll may block for ever, but need not fail, nor the listening socket    *)
(* have an error.  Nothing is asked of the clients.                        *)
(***************************************************************************)
FairSpec ==
  Spec /\ WF_vars(ServerStep) /\ SF_vars(ServerStep /\ Accept)
-----------------------------------------------------------------------------
(* Properties *)

Up == server = "up"
Polled == {fds[k].fd : k \in 2..Len(fds)}

(* fd_arr holds the listening descriptor first and every accepted client
   exactly once, through all insertions and swap-removals made while the
   loop walks it; only a client whose set_nonblock failed is missing
   (server.c:122-183, dynarray.c:44-52). *)
ArrayTracksSockets ==
  Up /\ fds # <<>> =>
    /\ fds[1].fd = Sfd
    /\ \A j, k \in 1..Len(fds) : fds[j].fd = fds[k].fd => j = k
    /\ Polled = {c \in Client : sock[c] = "open"} \ leaked

(* The server reads a client only when there is something to read: no entry
   carries an event of an earlier poll or of another descriptor to the
   place the loop looks at (server.c:154-173). *)
ReadsAreReady ==
  Up /\ loc = "read" => Ahead > 0 \/ peer[c_i] \in {"shut", "closed"}

(* What a client is sent is the beginning of what it sent, in order and
   without a hole, when the send buffer holds one message; when it does not,
   the rest of a message is dropped and the next one follows the gap
   (server.c:35-39). *)
EchoIsPrefix ==
  space >= BufSize => \A c \in Client :
    /\ Len(echo[c]) <= got[c]
    /\ \A k \in 1..Len(echo[c]) : echo[c][k] = k

\* The server is in communicate and has read a message of c.
Answers(c) == loc = "write" /\ c_i = c

(* A client that sends is read, whatever the other clients do and although a
   removal makes the loop pass over an entry, unless it stops sending or the
   server goes down.  What it sends while the server answers an earlier
   message is left out: the server closes the connection at the end of that
   answer, with those bytes unread (server.c:152-184). *)
ClientIsRead ==
  \A c \in Client, n \in 0..(MaxSend - 1) :
    (got[c] = n /\ n < sent[c] /\ c \in Polled /\ peer[c] = "connected" /\ ~Answers(c))
      ~> (got[c] > n \/ peer[c] \in {"shut", "closed"} \/ ~Up)

(* A client that waits is accepted, or turned away because the array cannot
   grow, however often others connect, are answered and come back, once the
   listening descriptor is in the array (server.c:122-145). *)
ClientIsAccepted ==
  \A c \in Client : (c \in Pending /\ fds # <<>>) ~> (c \notin Pending \/ ~Up)

(* The descriptor of a client that left is closed, unless its socket has
   an error: that entry is skipped for ever (server.c:158-168). *)
LeaverIsClosed ==
  \A c \in Client :
    (peer[c] = "closed" /\ c \in Polled /\ ~reset[c])
      ~> (peer[c] # "closed" \/ ~Up)

(* sem21_sockets/README.md:6 says that the server reads the data the client
   has sent: it does not close a client that is still there while it has data
   of it left to read. *)
ReadsWhatIsSent ==
  [][\A c \in Client :
        Up' /\ sock[c] = "open" /\ sock'[c] = "none" /\ peer[c] = "connected"
          => got[c] = sent[c]]_vars
==============================================================================
