------------------------------- MODULE TcpServer -------------------------------
(***************************************************************************)
(* The epoll reactor of src/tcp_server.cpp: the single thread that calls   *)
(* listen_loop() for ever, together with the part of the kernel it relies  *)
(* on (listen queue, descriptor table, epoll interest list).               *)
(*                                                                         *)
(* Clients are registered level-triggered with EPOLLIN | EPOLLRDHUP, the   *)
(* listening socket is registered edge-triggered.  The kernel hands out    *)
(* the lowest free descriptor, so a descriptor closed while a batch of     *)
(* events is being dispatched may name another connection before the batch *)
(* ends.  A message is a unit here: what deal_client_msg does with the     *)
(* bytes of one message is the subject of another module.                  *)
(***************************************************************************)
EXTENDS Integers, Sequences, FiniteSets

CONSTANTS
  Conns,                \* connections that peers may make, each at most once
  Fds,                  \* descriptor numbers left for client sockets (RLIMIT_NOFILE)
  listen_fd,            \* stands for this->listen_fd among the events of a batch
  None,                 \* no connection
  LISTEN_BACKLOG,       \* length of the listen queue, listen(new_socket, 5)
  MAX_EPOLL_EVENT_SIZE, \* events one epoll_wait may return
  WATCHES_SCARCE,       \* epoll_ctl(ADD) may fail: other programs use up the watches
  MAX_MSGS              \* bound of the model: unread messages per connection

ASSUME ConstantsAssumption ==
  /\ Fds \subseteq Nat
  /\ listen_fd \notin Fds
  /\ None \notin Conns
  /\ LISTEN_BACKLOG \in Nat \ {0}
  /\ MAX_EPOLL_EVENT_SIZE \in Nat \ {0}
  /\ WATCHES_SCARCE \in BOOLEAN
  /\ MAX_MSGS \in Nat

VARIABLES
  life,       \* the TcpServer object: not built, running, destroyed
  event,      \* what is left of the event[] array of the current listen_loop()
  accepting,  \* the thread is in the loop of accept_new_client
  acceptErr,  \* the last accept_new_client left by an exception (history)
  backlog,    \* the kernel's listen queue
  edge,       \* the listening socket is on epoll's ready list
  owner,      \* descriptor table: which connection a descriptor names
  watched,    \* descriptors of clients in the epoll interest list
  peer,       \* what the peer of a connection has done
  inbox,      \* messages received by the kernel and not yet read
  released,   \* connections closed by close_client
  refused     \* connections dropped without service

serverVars == <<life, event, accepting, acceptErr>>
kernelVars == <<backlog, edge, owner, watched>>
connVars   == <<peer, inbox, released, refused>>
vars       == <<serverVars, kernelVars, connVars>>

PeerStates == {"new", "up", "fin", "err"}

(* An entry of event[].  conn is a history field: the connection the       *)
(* descriptor named when epoll_wait filled the entry in.                   *)
Event       == [fd : Fds, what : {"rdhup", "err", "in"}, conn : Conns]
ListenEvent == [fd |-> listen_fd, what |-> "in", conn |-> None]

FreeFds == {fd \in Fds : owner[fd] = None}
OpenFds == Fds \ FreeFds
QueuedConns == {backlog[i] : i \in 1..Len(backlog)}
ServedConns == {owner[fd] : fd \in OpenFds}

TypeOK ==
  /\ life \in {"unbuilt", "running", "failed", "destroyed"}
  /\ event \subseteq Event \cup {ListenEvent}
  /\ accepting \in BOOLEAN
  /\ acceptErr \in BOOLEAN
  /\ backlog \in Seq(Conns)
  /\ edge \in BOOLEAN
  /\ owner \in [Fds -> Conns \cup {None}]
  /\ watched \subseteq Fds
  /\ peer \in [Conns -> PeerStates]
  /\ inbox \in [Conns -> 0..MAX_MSGS]
  /\ released \subseteq Conns
  /\ refused \subseteq Conns

Init ==
  /\ life = "unbuilt"
  /\ event = {}
  /\ accepting = FALSE
  /\ acceptErr = FALSE
  /\ backlog = <<>>
  /\ edge = FALSE
  /\ owner = [fd \in Fds |-> None]
  /\ watched = {}
  /\ peer = [c \in Conns |-> "new"]
  /\ inbox = [c \in Conns |-> 0]
  /\ released = {}
  /\ refused = {}

-----------------------------------------------------------------------------
(* Construction and destruction.                                           *)

(* Either every call of the constructor succeeds, or the one that fails    *)
(* closes what was opened before it and throws.                            *)
construct ==
  /\ life = "unbuilt"
  /\ life' \in {"running", "failed"}
  /\ UNCHANGED <<event, accepting, acceptErr, kernelVars, connVars>>

(* The destructor closes the listening socket, which resets the queued     *)
(* connections, and the epoll descriptor; client sockets stay open.        *)
destroy ==
  /\ life = "running"
  /\ event = {} /\ ~accepting
  /\ life' = "destroyed"
  /\ refused' = refused \cup QueuedConns
  /\ backlog' = <<>>
  /\ edge' = FALSE
  /\ watched' = {}
  /\ UNCHANGED <<event, accepting, acceptErr, owner, peer, inbox, released>>

-----------------------------------------------------------------------------
(* What peers and the kernel do on their own.                              *)

(* A connection enters the listen queue; this is the edge that puts the    *)
(* listening socket on the ready list.                                     *)
peer_connect(c) ==
  /\ life = "running"
  /\ peer[c] = "new"
  /\ Len(backlog) < LISTEN_BACKLOG
  /\ peer' = [peer EXCEPT ![c] = "up"]
  /\ backlog' = Append(backlog, c)
  /\ edge' = TRUE
  /\ UNCHANGED <<serverVars, owner, watched, inbox, released, refused>>

peer_send(c) ==
  /\ peer[c] = "up"
  /\ c \notin released \cup refused
  /\ inbox[c] < MAX_MSGS
  /\ inbox' = [inbox EXCEPT ![c] = @ + 1]
  /\ UNCHANGED <<serverVars, kernelVars, peer, released, refused>>

(* The peer closes, shuts down or resets the connection ("fin": reported   *)
(* with EPOLLRDHUP), or the socket fails without a hangup ("err").         *)
peer_leave(c) ==
  /\ peer[c] = "up"
  /\ peer' \in {[peer EXCEPT ![c] = "fin"], [peer EXCEPT ![c] = "err"]}
  /\ UNCHANGED <<serverVars, kernelVars, inbox, released, refused>>

-----------------------------------------------------------------------------
(* listen_loop: epoll_wait.                                                *)

Mask(c) == CASE peer[c] = "fin" -> "rdhup"
             [] peer[c] = "err" -> "err"
             [] OTHER           -> "in"

ReadyClients ==
  {fd \in watched : peer[owner[fd]] \in {"fin", "err"} \/ inbox[owner[fd]] > 0}

ReadyEvents ==
  {[fd |-> fd, what |-> Mask(owner[fd]), conn |-> owner[fd]] : fd \in ReadyClients}
    \cup (IF edge /\ backlog # <<>> THEN {ListenEvent} ELSE {})

(* One epoll_wait that returns events: as many of the ready ones as fit,   *)
(* at most one for each descriptor.  Reporting the edge consumes it.       *)
epoll_wait ==
  /\ life = "running"
  /\ event = {} /\ ~accepting
  /\ \E batch \in SUBSET ReadyEvents :
       /\ batch # {}
       /\ Cardinality(batch) <= MAX_EPOLL_EVENT_SIZE
       /\ batch = ReadyEvents \/ Cardinality(batch) = MAX_EPOLL_EVENT_SIZE
       /\ event' = batch
       /\ edge' = (edge /\ backlog # <<>> /\ ListenEvent \notin batch)
  /\ UNCHANGED <<life, accepting, acceptErr, backlog, owner, watched, connVars>>

-----------------------------------------------------------------------------
(* listen_loop: the for loop over the batch.  The order of the entries is  *)
(* the kernel's choice, so any entry may be the next one.                  *)

Dispatching == life = "running" /\ ~accepting

(* close(fd) of a mutated close_client that only leaves the interest list. *)
close_client_leak(fd) ==
  /\ watched' = watched \ {fd}
  /\ UNCHANGED <<owner, released>>

(* Throws, and changes nothing, for the descriptors of stdio.              *)
close_client(fd) ==
  IF fd <= 2
  THEN UNCHANGED <<owner, watched, released>>
  ELSE /\ watched' = watched \ {fd}
       /\ owner' = [owner EXCEPT ![fd] = None]
       /\ released' = released \cup {owner[fd]}

(* EPOLLRDHUP comes first: the peer is gone, close without reading.        *)
HangUp(e, entries) ==
  /\ Dispatching
  /\ e \in event /\ e.what = "rdhup"
  /\ close_client(e.fd)
  /\ event' = entries
  /\ UNCHANGED <<life, accepting, acceptErr, backlog, edge, peer, inbox, refused>>

(* A mutated branch that keeps the entry, to close it again later: close() *)
(* of a descriptor that is not open has no effect.                         *)
dispatch_hangup_again(e) == e.fd \in OpenFds /\ HangUp(e, event)

dispatch_hangup(e) == HangUp(e, event \ {e})

(* EPOLLERR or EPOLLHUP: close, then throw; the catch inside the loop goes *)
(* on with the next entry.                                                 *)
dispatch_error(e) ==
  /\ Dispatching
  /\ e \in event /\ e.what = "err"
  /\ close_client(e.fd)
  /\ event' = event \ {e}
  /\ UNCHANGED <<life, accepting, acceptErr, backlog, edge, peer, inbox, refused>>

(* The handler reads one message; whether it returns or throws (a bad      *)
(* length), the loop goes on with the next entry.                          *)
ReadMsgs(e, n) ==
  /\ Dispatching
  /\ e \in event /\ e.what = "in" /\ e.fd # listen_fd
  /\ inbox' = [inbox EXCEPT ![owner[e.fd]] = @ - n]
  /\ event' = event \ {e}
  /\ UNCHANGED <<life, accepting, acceptErr, kernelVars, peer, released, refused>>

(* A mutated handler that reads two messages for one readiness event.      *)
deal_client_msg_twice(e) == ReadMsgs(e, 2)

deal_client_msg(e) == ReadMsgs(e, 1)

dispatch_listen ==
  /\ Dispatching
  /\ ListenEvent \in event
  /\ event' = event \ {ListenEvent}
  /\ accepting' = TRUE
  /\ UNCHANGED <<life, acceptErr, kernelVars, connVars>>

-----------------------------------------------------------------------------
(* accept_new_client: the loop of accept4 and epoll_ctl(ADD) calls.  Its   *)
(* retry_times is never incremented, so it ends only when accept4 fails    *)
(* (EAGAIN: drained; anything else is thrown) or epoll_ctl fails (thrown). *)

LowestFree(fd) == fd \in FreeFds /\ \A other \in FreeFds : fd <= other

(* accept4 takes the first connection of the queue, epoll_ctl adds it.     *)
AcceptOne(watching, goesOn) ==
  /\ accepting
  /\ backlog # <<>>
  /\ \E fd \in Fds : /\ LowestFree(fd)
                     /\ owner' = [owner EXCEPT ![fd] = Head(backlog)]
                     /\ watched' = watched \cup (IF watching THEN {fd} ELSE {})
  /\ backlog' = Tail(backlog)
  /\ accepting' = goesOn
  /\ UNCHANGED <<life, event, acceptErr, edge, connVars>>

(* Mutated loops: one that stops after one connection, one that forgets to *)
(* register the new socket, and one that throws without closing it.        *)
accept_client_once == AcceptOne(TRUE, FALSE)
accept_client_unwatched == AcceptOne(FALSE, TRUE)
accept_unwatchable_leak == WATCHES_SCARCE /\ AcceptOne(FALSE, FALSE)

accept_client == AcceptOne(TRUE, TRUE)

(* accept4 succeeds, epoll_ctl does not: close the new socket and throw.   *)
accept_unwatchable ==
  /\ accepting
  /\ backlog # <<>>
  /\ FreeFds # {}
  /\ WATCHES_SCARCE
  /\ refused' = refused \cup {Head(backlog)}
  /\ backlog' = Tail(backlog)
  /\ accepting' = FALSE
  /\ acceptErr' = TRUE
  /\ UNCHANGED <<life, event, edge, owner, watched, peer, inbox, released>>

(* EAGAIN: every queued connection was accepted.                           *)
accept_drained ==
  /\ accepting
  /\ backlog = <<>>
  /\ FreeFds # {}
  /\ accepting' = FALSE
  /\ acceptErr' = FALSE
  /\ UNCHANGED <<life, event, kernelVars, connVars>>

(* EMFILE: accept4 needs a free descriptor before it looks at the queue.   *)
accept_failed ==
  /\ accepting
  /\ FreeFds = {}
  /\ accepting' = FALSE
  /\ acceptErr' = TRUE
  /\ UNCHANGED <<life, event, kernelVars, connVars>>

-----------------------------------------------------------------------------
accept_new_client ==
  accept_client \/ accept_unwatchable \/ accept_drained \/ accept_failed

listen_loop ==
  \/ epoll_wait
  \/ \E e \in event : dispatch_hangup(e) \/ dispatch_error(e) \/ deal_client_msg(e)
  \/ dispatch_listen
  \/ accept_new_client

Peers == \E c \in Conns : peer_connect(c) \/ peer_send(c) \/ peer_leave(c)

Next == construct \/ destroy \/ listen_loop \/ Peers

Spec == Init /\ [][Next]_vars

(* The main program calls listen_loop in an endless loop, so its thread is *)
(* never idle while epoll has something to report.  Epoll's ready list is  *)
(* a queue: what does not fit in one batch comes before what is ready      *)
(* again, so a descriptor that keeps being ready is reported.  Peers owe   *)
(* nothing.                                                                *)
Reports(fd) == epoll_wait /\ \E e \in event' : e.fd = fd

FairSpec ==
  /\ Spec
  /\ WF_vars(listen_loop)
  /\ \A fd \in Fds \cup {listen_fd} : SF_vars(Reports(fd))

-----------------------------------------------------------------------------
(* Safety.                                                                 *)

(* An entry still to be dispatched names the same connection, still open   *)
(* and still readable, as when epoll_wait filled it in: closing and        *)
(* accepting inside one batch, with descriptors reused, never makes a      *)
(* stale entry (tcp_server.cpp:200-225, the loop over event[]).            *)
BatchFresh ==
  \A e \in event \ {ListenEvent} :
    /\ e.fd \in watched
    /\ owner[e.fd] = e.conn
    /\ e.what = "in" => inbox[e.conn] > 0
    /\ \A f \in event : f.fd = e.fd => f = e

(* close_client is only ever applied to a connection whose own peer left:  *)
(* no live client is cut off because its descriptor number was in an older *)
(* event (tcp_server.cpp:203-212).                                         *)
OnlyHangupsClosed == \A c \in released : peer[c] \in {"fin", "err"}

(* A connection is in one place only: queued, served through exactly one   *)
(* descriptor, released, or refused; and one that was never made is in     *)
(* none.  While the server runs the open client sockets are exactly those  *)
(* in the interest list: an open socket outside it would never be read or  *)
(* closed (tcp_server.cpp:30-51, 60-68).                                   *)
OneHome ==
  /\ life = "running" => watched = OpenFds
  /\ \A fd, other \in OpenFds : owner[fd] = owner[other] => fd = other
  /\ \A i, j \in 1..Len(backlog) : backlog[i] = backlog[j] => i = j
  /\ QueuedConns \cap ServedConns = {}
  /\ (QueuedConns \cup ServedConns) \cap (released \cup refused) = {}
  /\ released \cap refused = {}
  /\ \A c \in QueuedConns \cup ServedConns \cup released \cup refused : peer[c] # "new"

(* The connections wait for an accept that the server still owes them.     *)
AcceptOwed == accepting \/ ListenEvent \in event \/ edge

(* With an edge-triggered listening socket a connection left in the queue  *)
(* is lost until the next one arrives.  The only way to leave one is an    *)
(* accept_new_client that ended with an exception (tcp_server.cpp:25-57).  *)
EdgeOrError == backlog # <<>> => AcceptOwed \/ acceptErr

(* What the comment at tcp_server.cpp:25-27 asks for: all new connections  *)
(* are processed in one event, so that none is left without an event.      *)
NoMissedEdge == backlog # <<>> => AcceptOwed

-----------------------------------------------------------------------------
(* What the invariants above need to be inductive.                         *)

(* An event mask says what the peer did, which it cannot undo.             *)
MaskHolds ==
  \A e \in event \ {ListenEvent} :
    /\ e.what = "rdhup" => peer[e.conn] = "fin"
    /\ e.what = "err" => peer[e.conn] = "err"

(* The loop is at work only while the object lives, and a server that is   *)
(* not running has no queue and no interest list.                          *)
AtRest ==
  /\ life # "running" =>
       event = {} /\ ~accepting /\ backlog = <<>> /\ watched = {} /\ ~edge
  /\ life \in {"unbuilt", "failed"} => \A fd \in Fds : owner[fd] = None

IInv ==
  /\ TypeOK
  /\ BatchFresh
  /\ MaskHolds
  /\ OnlyHangupsClosed
  /\ OneHome
  /\ AtRest
  /\ EdgeOrError

-----------------------------------------------------------------------------
(* Liveness, under FairSpec and with enough descriptors and watches.       *)

(* A queued connection is accepted (or the server is destroyed).           *)
AcceptedEventually ==
  \A c \in Conns : (c \in QueuedConns) ~> (c \notin QueuedConns)

(* A client that always has something unread is read again and again,      *)
(* unless it leaves or the server goes: level-triggered readiness is not   *)
(* lost although the handler reads a single message for each event, and no *)
(* other client's events keep this one from its turn.                      *)
ServedAgain ==
  \A c \in Conns :
    <>[](inbox[c] > 0 /\ peer[c] = "up" /\ life = "running")
      => []<><<inbox'[c] < inbox[c]>>_vars

(* The descriptor of a connection whose peer left is given back.           *)
ReleasedEventually ==
  \A c \in Conns :
    (peer[c] \in {"fin", "err"}) ~> (c \in released \/ life = "destroyed")
=============================================================================
