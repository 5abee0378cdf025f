----------------------------- MODULE SelectServer ------------------------------
(***************************************************************************)
(* The first version of the server, src/tcp_server_v1.c: one thread that   *)
(* calls accept_select() for ever, with a fixed array of client sockets    *)
(* and select() over the descriptors in it, and the clients of             *)
(* src/tcp_client_v1.c.                                                    *)
(*                                                                         *)
(* The first argument of select is not the highest descriptor plus one but *)
(* the number of slots plus one, so only lower descriptors are watched.    *)
(* The kernel hands out the lowest free descriptor.  A unit of an inbox is *)
(* any fixed number of bytes.                                              *)
(***************************************************************************)
EXTENDS Integers, Sequences, FiniteSets

CONSTANTS
  Conns,           \* connections that peers may make, each at most once
  None,            \* no connection
  listen_fd,       \* g_listenSocket; lower descriptors are in use
  LAST_FD,         \* the highest descriptor the process may have (RLIMIT_NOFILE)
  MAX_CLIENT_NUM,  \* slots of g_clientSocket, 1024 / 64
  LISTEN_BACKLOG,  \* length of the listen queue
  RECV_BUF_SIZE,   \* what one recv can take
  MAX_UNREAD       \* bound of the model: what a peer may have sent unread

ASSUME SelectAssumption ==
  /\ None \notin Conns
  /\ listen_fd \in Nat
  /\ MAX_CLIENT_NUM \in Nat /\ listen_fd <= MAX_CLIENT_NUM
  /\ LAST_FD \in Nat
  /\ LISTEN_BACKLOG \in Nat \ {0}
  /\ RECV_BUF_SIZE \in Nat \ {0}
  /\ MAX_UNREAD \in Nat

VARIABLES
  life,      \* main: before create_socket, in its loop, returned
  slots,     \* g_clientSocket
  phase,     \* of accept_select: before select, before accept, in the last loop
  readFds,   \* the descriptors that select has left in the set
  seen,      \* the descriptor table when select returned (history)
  p,         \* the slot that the last loop looks at next
  owner,     \* the descriptor table: which connection a descriptor names
  backlog,   \* the kernel's listen queue
  peer,      \* what the peer of a connection has done; closed by the server
  inbox      \* what the kernel received and the server has not read

loopVars == <<phase, readFds, seen, p>>
netVars  == <<backlog, peer, inbox>>
vars     == <<life, slots, loopVars, owner, netVars>>

Slots  == 1..MAX_CLIENT_NUM
Fds    == (listen_fd + 1)..LAST_FD
NFDS   == MAX_CLIENT_NUM + 1
NoFd   == -1
NoOwner == [fd \in Fds |-> None]

FreeFds == {fd \in Fds : owner[fd] = None}
OpenFds == Fds \ FreeFds
SlotFds == {slots[i] : i \in Slots} \ {NoFd}
QueuedConns == {backlog[i] : i \in 1..Len(backlog)}

TypeOK ==
  /\ life \in {"start", "running", "failed"}
  /\ slots \in [Slots -> Fds \cup {NoFd}]
  /\ phase \in {"select", "accept", "scan"}
  /\ readFds \subseteq Fds \cup {listen_fd}
  /\ seen \in [Fds -> Conns \cup {None}]
  /\ p \in 1..(MAX_CLIENT_NUM + 1)
  /\ owner \in [Fds -> Conns \cup {None}]
  /\ backlog \in Seq(Conns)
  /\ peer \in [Conns -> {"new", "up", "gone", "closed"}]
  /\ inbox \in [Conns -> 0..MAX_UNREAD]

Init ==
  /\ life = "start"
  /\ slots = [i \in Slots |-> NoFd]
  /\ phase = "select"
  /\ readFds = {}
  /\ seen = NoOwner
  /\ p = 1
  /\ owner = NoOwner
  /\ backlog = <<>>
  /\ peer = [c \in Conns |-> "new"]
  /\ inbox = [c \in Conns |-> 0]

-----------------------------------------------------------------------------
(* main sets up the listening socket, or returns.                          *)
create_socket ==
  /\ life = "start"
  /\ life' \in {"running", "failed"}
  /\ UNCHANGED <<slots, loopVars, owner, netVars>>

(* A client connects, sends what its user types, and is ended at any time. *)
peer_connect(c) ==
  /\ life = "running"
  /\ peer[c] = "new"
  /\ Len(backlog) < LISTEN_BACKLOG
  /\ peer' = [peer EXCEPT ![c] = "up"]
  /\ backlog' = Append(backlog, c)
  /\ UNCHANGED <<life, slots, loopVars, owner, inbox>>

peer_send(c) ==
  /\ peer[c] = "up"
  /\ inbox[c] < MAX_UNREAD
  /\ inbox' = [inbox EXCEPT ![c] = @ + 1]
  /\ UNCHANGED <<life, slots, loopVars, owner, backlog, peer>>

peer_leave(c) ==
  /\ peer[c] = "up"
  /\ peer' = [peer EXCEPT ![c] = "gone"]
  /\ UNCHANGED <<life, slots, loopVars, owner, backlog, inbox>>

-----------------------------------------------------------------------------
(* accept_select: select.                                                  *)

Readable(c) == inbox[c] > 0 \/ peer[c] = "gone"

ReadyBelow(nfds) ==
  {fd \in SlotFds : fd < nfds /\ Readable(owner[fd])}
    \cup (IF backlog # <<>> /\ listen_fd < nfds THEN {listen_fd} ELSE {})

SelectReturns(ready) ==
  /\ life = "running" /\ phase = "select"
  /\ ready # {}
  /\ readFds' = ready
  /\ seen' = owner
  /\ phase' = "accept"
  /\ UNCHANGED <<life, slots, p, owner, netVars>>

(* Mutated calls: one whose first argument does not count the listening     *)
(* socket, and one that leaves the bits it does not look at as they were.  *)
select_short == SelectReturns(ReadyBelow(NFDS - 1))
select_rest_kept ==
  SelectReturns(ReadyBelow(NFDS) \cup {fd \in SlotFds : fd >= NFDS})

(* Of the words of bits that it looks at select clears all that are not    *)
(* ready, those from NFDS on included; level-triggered, all at once.       *)
select == SelectReturns(ReadyBelow(NFDS))

-----------------------------------------------------------------------------
(* accept_select: the listening socket comes first.                        *)

LowestFree(fd) == fd \in FreeFds /\ \A other \in FreeFds : fd <= other

FreeSlots == {i \in Slots : slots[i] = NoFd}

(* Mutated searches: without the break, and one that ends with the last    *)
(* slot if none is free.                                                   *)
Store_everywhere(fd) == slots' = [i \in Slots |-> IF i \in FreeSlots THEN fd ELSE slots[i]]
Store_last(fd) ==
  \E i \in Slots :
    /\ \A j \in FreeSlots \cup {MAX_CLIENT_NUM} : i <= j
    /\ slots' = [slots EXCEPT ![i] = fd]

(* The first free slot.  With none the descriptor is forgotten, open.      *)
Store(fd) ==
  \/ /\ FreeSlots = {}
     /\ UNCHANGED slots
  \/ \E i \in FreeSlots :
       /\ \A j \in FreeSlots : i <= j
       /\ slots' = [slots EXCEPT ![i] = fd]

ToScan ==
  /\ phase' = "scan"
  /\ p' = 1
  /\ UNCHANGED <<readFds, seen>>

Accept(ready) ==
  /\ phase = "accept" /\ listen_fd \in readFds
  /\ ready
  /\ \E fd \in Fds : /\ LowestFree(fd)
                     /\ owner' = [owner EXCEPT ![fd] = Head(backlog)]
                     /\ Store(fd)
  /\ backlog' = Tail(backlog)
  /\ ToScan
  /\ UNCHANGED <<life, peer, inbox>>

(* A mutated accept that waits for a free slot.                            *)
accept_connection_guarded == Accept(FreeSlots # {})

accept_connection == Accept(TRUE)

(* EMFILE: the -1 that accept returns goes where a -1 is.                  *)
accept_failed ==
  /\ phase = "accept" /\ listen_fd \in readFds
  /\ FreeFds = {}
  /\ ToScan
  /\ UNCHANGED <<life, slots, owner, netVars>>

no_connection ==
  /\ phase = "accept" /\ listen_fd \notin readFds
  /\ ToScan
  /\ UNCHANGED <<life, slots, owner, netVars>>

-----------------------------------------------------------------------------
(* accept_select: the loop over the slots.                                 *)

Ready(i) == slots[i] # NoFd /\ slots[i] \in readFds

NextReady(i) ==
  /\ phase = "scan"
  /\ i \in p..MAX_CLIENT_NUM /\ Ready(i)
  /\ \A j \in p..(i - 1) : ~Ready(j)
  /\ p' = i + 1

Least(m, n) == IF m <= n THEN m ELSE n

(* A mutated recv whose result is taken to be the size of the buffer.      *)
recv_msg_full(i) ==
  LET c == owner[slots[i]]
  IN  /\ NextReady(i)
      /\ inbox[c] > 0
      /\ inbox' = [inbox EXCEPT ![c] = @ - RECV_BUF_SIZE]
      /\ UNCHANGED <<life, slots, phase, readFds, seen, owner, backlog, peer>>

recv_msg(i) ==
  LET c == owner[slots[i]]
  IN  /\ NextReady(i)
      /\ inbox[c] > 0
      /\ inbox' = [inbox EXCEPT ![c] = @ - Least(@, RECV_BUF_SIZE)]
      /\ UNCHANGED <<life, slots, phase, readFds, seen, owner, backlog, peer>>

(* Everything was read and the peer is gone: recv returns 0 or an error.   *)
CloseSlot(i, value) ==
  LET c == owner[slots[i]]
  IN  /\ NextReady(i)
      /\ inbox[c] = 0 /\ peer[c] = "gone"
      /\ peer' = [peer EXCEPT ![c] = "closed"]
      /\ owner' = [owner EXCEPT ![slots[i]] = None]
      /\ slots' = [slots EXCEPT ![i] = value]
      /\ UNCHANGED <<life, phase, readFds, seen, backlog, inbox>>

(* A mutated close that leaves the descriptor in its slot.                 *)
close_client_kept(i) == CloseSlot(i, slots[i])

close_client(i) == CloseSlot(i, NoFd)

scan_done ==
  /\ phase = "scan"
  /\ \A i \in p..MAX_CLIENT_NUM : ~Ready(i)
  /\ phase' = "select"
  /\ readFds' = {}
  /\ seen' = NoOwner
  /\ p' = 1
  /\ UNCHANGED <<life, slots, owner, netVars>>

-----------------------------------------------------------------------------
accept_select ==
  \/ select
  \/ accept_connection \/ accept_failed \/ no_connection
  \/ \E i \in Slots : recv_msg(i) \/ close_client(i)
  \/ scan_done

Next ==
  \/ create_socket \/ accept_select
  \/ \E c \in Conns : peer_connect(c) \/ peer_send(c) \/ peer_leave(c)

Spec == Init /\ [][Next]_vars

(* main calls accept_select in an endless loop; peers owe nothing.         *)
FairSpec == Spec /\ WF_vars(accept_select)

-----------------------------------------------------------------------------
(* Safety.                                                                 *)

(* The slots hold different open descriptors, and each connection has one  *)
(* home: select never fails for a closed descriptor (EBADF, which would    *)
(* end the service: main calls it again with the same set), and closing a  *)
(* slot never closes another one's client (tcp_server_v1.c:150-180).       *)
SlotsOpen ==
  /\ SlotFds \subseteq OpenFds
  /\ \A i, j \in Slots : slots[i] = slots[j] /\ slots[i] # NoFd => i = j
  /\ \A fd, other \in OpenFds : owner[fd] = owner[other] => fd = other
  /\ \A i, j \in 1..Len(backlog) : backlog[i] = backlog[j] => i = j
  /\ \A fd \in OpenFds : owner[fd] \notin QueuedConns

(* A descriptor that did not find a free slot is never closed, but it is   *)
(* above those the slots can ever hold: the leak does not push the clients *)
(* of later slots out of the range that fd_set can represent               *)
(* (tcp_server_v1.c:151-160).                                              *)
LeaksStayAbove ==
  \A fd \in OpenFds : fd \in SlotFds <=> fd <= listen_fd + MAX_CLIENT_NUM

(* What the loop over the slots finds in the set is as select reported it: *)
(* the same connection, with something to read.  So recv never fails with  *)
(* EAGAIN, and line 183 never writes buf[-1], although the accept between  *)
(* select and the loop may change a slot (tcp_server_v1.c:150-185).        *)
ReadyFresh ==
  \A i \in Slots :
    phase = "accept" \/ (phase = "scan" /\ i >= p) =>
      (Ready(i) => owner[slots[i]] = seen[slots[i]] /\ Readable(owner[slots[i]]))

(* A connection whose descriptor select does not look at, in a slot or     *)
(* not.                                                                    *)
Unheard(c) == \E fd \in OpenFds : owner[fd] = c /\ fd >= NFDS

(* Once accepted on such a descriptor a client is never read and never     *)
(* released, whatever it and the others do: a server with MAX_CLIENT_NUM   *)
(* slots serves listen_fd clients fewer (tcp_server_v1.c:141).             *)
UnheardForEver ==
  [][\A c \in Conns : Unheard(c) => Unheard(c)' /\ inbox'[c] >= inbox[c]]_vars

(* What the proofs of the above need to know of every state: what is in    *)
(* the set, and that a connection is made once.                            *)
SetFilled ==
  /\ \A fd \in readFds : fd < NFDS
  /\ phase = "accept" =>
       /\ readFds \subseteq SlotFds \cup {listen_fd}
       /\ listen_fd \in readFds => backlog # <<>>

NewUnknown ==
  \A c \in Conns :
    peer[c] = "new" => c \notin QueuedConns /\ \A fd \in OpenFds : owner[fd] # c

IInv ==
  TypeOK /\ SlotsOpen /\ NewUnknown /\ LeaksStayAbove /\ SetFilled /\ ReadyFresh

-----------------------------------------------------------------------------
(* Liveness.                                                               *)

Heard(c) == \E fd \in SlotFds : owner[fd] = c /\ fd < NFDS

(* A client on one of the lower descriptors is read again and again.       *)
ServedAgain ==
  \A c \in Conns :
    <>[](Heard(c) /\ inbox[c] > 0) => []<><<inbox'[c] < inbox[c]>>_vars

(* When it leaves its slot and its descriptor are given back, and a queued *)
(* connection is accepted while there is a descriptor left.                *)
Released ==
  \A c \in Conns : (Heard(c) /\ peer[c] = "gone") ~> (peer[c] = "closed")

AcceptedEventually ==
  \A c \in Conns : (c \in QueuedConns) ~> (c \notin QueuedConns \/ FreeFds = {})
=============================================================================
