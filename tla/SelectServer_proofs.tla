-------------------------- MODULE SelectServer_proofs --------------------------
(***************************************************************************)
(* The safety of the select server, for every number of connections,       *)
(* slots and descriptors and every number of the listening socket.  The    *)
(* argument about the descriptors that leak counts slots and descriptors:  *)
(* as long as a slot is free, so is one of the lowest MAX_CLIENT_NUM       *)
(* descriptors, and conversely.                                            *)
(***************************************************************************)
EXTENDS SelectServer, QueueLemmas, FiniteSetTheorems, TLAPS

-----------------------------------------------------------------------------
(* Slots and open descriptors, by their types.                             *)
LEMMA SlotFacts ==
  ASSUME IInv
  PROVE  /\ listen_fd \in Nat /\ MAX_CLIENT_NUM \in Nat /\ LAST_FD \in Nat
         /\ NoFd \notin Fds /\ listen_fd \notin Fds
         /\ \A fd \in Fds : fd \in Nat /\ fd > listen_fd
         /\ SlotFds \subseteq OpenFds /\ OpenFds \subseteq Fds
         /\ \A fd \in OpenFds : owner[fd] \in Conns
         /\ \A i \in Slots : slots[i] # NoFd => slots[i] \in SlotFds
<1>1. /\ listen_fd \in Nat /\ MAX_CLIENT_NUM \in Nat /\ LAST_FD \in Nat
  BY SelectAssumption
<1>2. /\ NoFd \notin Fds /\ listen_fd \notin Fds
      /\ \A fd \in Fds : fd \in Nat /\ fd > listen_fd
  BY <1>1 DEF NoFd, Fds
<1>3. SlotFds \subseteq OpenFds /\ OpenFds \subseteq Fds
  BY DEF IInv, SlotsOpen, OpenFds
<1>4. \A fd \in OpenFds : owner[fd] \in Conns
  BY DEF IInv, TypeOK, OpenFds, FreeFds
<1>5. \A i \in Slots : slots[i] # NoFd => slots[i] \in SlotFds
  BY DEF SlotFds
<1> QED BY <1>1, <1>2, <1>3, <1>4, <1>5

(* What is said of slots, descriptors and queue depends on nothing else.   *)
LEMMA Kept ==
  ASSUME UNCHANGED <<slots, owner, backlog>>
  PROVE  /\ UNCHANGED <<FreeFds, OpenFds, SlotFds, QueuedConns>>
         /\ SlotsOpen => SlotsOpen'
         /\ LeaksStayAbove => LeaksStayAbove'
<1>1. UNCHANGED <<FreeFds, OpenFds, SlotFds, QueuedConns>>
  BY DEF FreeFds, OpenFds, SlotFds, QueuedConns
<1> QED BY <1>1 DEF SlotsOpen, LeaksStayAbove

(* The server has not set up its socket.                                   *)
LEMMA InitIInv == Init => IInv
<1> SUFFICES ASSUME Init PROVE IInv
  OBVIOUS
<1>1. backlog = <<>> /\ backlog \in Seq(Conns) /\ Len(backlog) = 0
  BY EmptySeq DEF Init
<1>2. OpenFds = {} /\ SlotFds = {} /\ QueuedConns = {}
  BY <1>1 DEF Init, OpenFds, FreeFds, SlotFds, QueuedConns, NoOwner
<1>3. TypeOK
  <2>1. 0 \in 0..MAX_UNREAD /\ 1 \in 1..(MAX_CLIENT_NUM + 1)
    BY SelectAssumption
  <2> QED BY <1>1, <2>1 DEF Init, TypeOK, NoOwner
<1>4. SlotsOpen
  BY <1>1, <1>2 DEF Init, SlotsOpen
<1>5. NewUnknown /\ LeaksStayAbove
  BY <1>2 DEF NewUnknown, LeaksStayAbove
<1>6. SetFilled /\ ReadyFresh
  BY DEF Init, SetFilled, ReadyFresh, Ready
<1> QED BY <1>3, <1>4, <1>5, <1>6 DEF IInv

-----------------------------------------------------------------------------
(* The peers.                                                              *)

(* A new connection waits in the queue.                                    *)
LEMMA ConnectStep ==
  ASSUME IInv, NEW c \in Conns, peer_connect(c)
  PROVE  IInv'
<1>1. /\ peer[c] = "new" /\ peer' = [peer EXCEPT ![c] = "up"]
      /\ backlog' = Append(backlog, c) /\ backlog \in Seq(Conns)
      /\ UNCHANGED <<life, slots, phase, readFds, seen, p, owner, inbox>>
  BY DEF peer_connect, loopVars, IInv, TypeOK
<1>2. /\ backlog' \in Seq(Conns) /\ Len(backlog) \in Nat
      /\ backlog' # <<>>
      /\ Len(backlog') = Len(backlog) + 1
      /\ \A i \in 1..Len(backlog) : backlog'[i] = backlog[i]
      /\ backlog'[Len(backlog) + 1] = c
  BY <1>1, AppendElems
<1>3. QueuedConns' = QueuedConns \cup {c}
  BY <1>1, AppendElems DEF QueuedConns
<1>4. c \notin QueuedConns /\ \A fd \in OpenFds : owner[fd] # c
  BY <1>1 DEF IInv, NewUnknown
<1>5. UNCHANGED <<FreeFds, OpenFds, SlotFds>>
  BY <1>1 DEF FreeFds, OpenFds, SlotFds
<1>6. TypeOK'
  BY <1>1, <1>2 DEF IInv, TypeOK
<1>7. SlotsOpen'
  <2>1. \A i, j \in 1..Len(backlog') : backlog'[i] = backlog'[j] => i = j
    <3>1. \A i \in 1..Len(backlog) : backlog[i] # c
      BY <1>4 DEF QueuedConns
    <3>2. \A i, j \in 1..Len(backlog) : backlog[i] = backlog[j] => i = j
      BY DEF IInv, SlotsOpen
    <3> QED BY <1>2, <3>1, <3>2
  <2>2. \A fd \in OpenFds : owner[fd] \notin QueuedConns'
    BY <1>3, <1>4 DEF IInv, SlotsOpen
  <2> QED BY <1>1, <1>5, <2>1, <2>2 DEF IInv, SlotsOpen
<1>8. NewUnknown'
  BY <1>1, <1>3, <1>5 DEF IInv, NewUnknown, TypeOK
<1>9. LeaksStayAbove' /\ SetFilled'
  BY <1>1, <1>2, <1>5 DEF IInv, LeaksStayAbove, SetFilled
<1>10. ReadyFresh'
  <2>1. \A d \in Conns : Readable(d) => Readable(d)'
    BY <1>1 DEF Readable, IInv, TypeOK
  <2>2. \A i \in Slots : Ready(i)' = Ready(i)
    BY <1>1 DEF Ready
  <2>3. \A i \in Slots : Ready(i) => owner[slots[i]] \in Conns
    BY SlotFacts DEF Ready
  <2> QED BY <1>1, <2>1, <2>2, <2>3 DEF IInv, ReadyFresh
<1> QED BY <1>6, <1>7, <1>8, <1>9, <1>10 DEF IInv

(* Sending and leaving make a connection readable if anything.             *)
LEMMA PeerStep ==
  ASSUME IInv, NEW c \in Conns, peer_send(c) \/ peer_leave(c)
  PROVE  IInv'
<1>1. UNCHANGED <<life, slots, phase, readFds, seen, p, owner, backlog>>
  BY DEF peer_send, peer_leave, loopVars
<1>2. /\ peer[c] = "up"
      /\ \/ peer' = peer /\ inbox[c] < MAX_UNREAD /\ inbox' = [inbox EXCEPT ![c] = @ + 1]
         \/ inbox' = inbox /\ peer' = [peer EXCEPT ![c] = "gone"]
  BY DEF peer_send, peer_leave
<1>3. MAX_UNREAD \in Nat
  BY SelectAssumption
<1>4. TypeOK'
  <2>1. inbox' \in [Conns -> 0..MAX_UNREAD]
    <3>1. inbox \in [Conns -> 0..MAX_UNREAD]
      BY DEF IInv, TypeOK
    <3>2. inbox[c] < MAX_UNREAD => inbox[c] + 1 \in 0..MAX_UNREAD
      BY <1>3, <3>1
    <3> QED BY <1>2, <3>1, <3>2
  <2>2. peer' \in [Conns -> {"new", "up", "gone", "closed"}]
    BY <1>2 DEF IInv, TypeOK
  <2> QED BY <1>1, <2>1, <2>2 DEF IInv, TypeOK
<1>5. SlotsOpen' /\ LeaksStayAbove' /\ UNCHANGED <<OpenFds, SlotFds, QueuedConns>>
  BY <1>1, Kept DEF IInv
<1>a. /\ \A d \in Conns : peer'[d] = "new" => peer[d] = "new"
      /\ \A d \in Conns : peer[d] = "gone" => peer'[d] = "gone"
  BY <1>2 DEF IInv, TypeOK
<1>b. \A d \in Conns : inbox[d] > 0 => inbox'[d] > 0
  <2> SUFFICES ASSUME NEW d \in Conns, inbox[d] > 0 PROVE inbox'[d] > 0
    OBVIOUS
  <2>1. inbox \in [Conns -> 0..MAX_UNREAD]
    BY DEF IInv, TypeOK
  <2>2. inbox'[d] = inbox[d] \/ inbox'[d] = inbox[d] + 1
    BY <1>2, <2>1
  <2> QED BY <1>3, <2>1, <2>2
<1>6. NewUnknown'
  BY <1>1, <1>5, <1>a DEF IInv, NewUnknown
<1>7. SetFilled'
  BY <1>1, <1>5 DEF IInv, SetFilled
<1>8. ReadyFresh'
  <2>1. \A d \in Conns : Readable(d) => Readable(d)'
    BY <1>a, <1>b DEF Readable
  <2>2. \A i \in Slots : Ready(i)' = Ready(i)
    BY <1>1 DEF Ready
  <2>3. \A i \in Slots : Ready(i) => owner[slots[i]] \in Conns
    BY SlotFacts DEF Ready
  <2> QED BY <1>1, <2>1, <2>2, <2>3 DEF IInv, ReadyFresh
<1> QED BY <1>4, <1>5, <1>6, <1>7, <1>8 DEF IInv

-----------------------------------------------------------------------------
(* select leaves descriptors of slots in the set, whose peers sent or left.*)
LEMMA SelectStep ==
  ASSUME IInv, select
  PROVE  IInv'
<1>1. /\ phase = "select" /\ phase' = "accept"
      /\ readFds' = ReadyBelow(NFDS) /\ seen' = owner
      /\ UNCHANGED <<life, slots, p, owner, backlog, peer, inbox>>
  BY DEF select, SelectReturns, netVars
<1>2. /\ readFds' \subseteq SlotFds \cup {listen_fd}
      /\ \A fd \in readFds' : fd < NFDS
      /\ listen_fd \in readFds' => backlog # <<>>
      /\ \A fd \in readFds' : fd \in SlotFds => Readable(owner[fd])
  BY <1>1, SlotFacts DEF ReadyBelow
<1>3. TypeOK'
  BY <1>1, <1>2, SlotFacts DEF IInv, TypeOK
<1>4. SlotsOpen' /\ LeaksStayAbove' /\ UNCHANGED <<OpenFds, SlotFds, QueuedConns>>
  BY <1>1, Kept DEF IInv
<1>5. NewUnknown'
  BY <1>1, <1>4 DEF IInv, NewUnknown
<1>6. SetFilled'
  BY <1>1, <1>2, <1>4 DEF SetFilled
<1>7. ReadyFresh'
  <2>1. \A i \in Slots : Ready(i)' => slots[i] \in SlotFds /\ slots[i] \in readFds'
    BY <1>1, SlotFacts DEF Ready
  <2>2. \A c \in Conns : Readable(c)' = Readable(c)
    BY <1>1 DEF Readable
  <2>3. \A fd \in SlotFds : owner[fd] \in Conns
    BY SlotFacts
  <2> QED BY <1>1, <1>2, <2>1, <2>2, <2>3 DEF ReadyFresh
<1> QED BY <1>3, <1>4, <1>5, <1>6, <1>7 DEF IInv

-----------------------------------------------------------------------------
(* accept: the lowest free descriptor is among the lowest MAX_CLIENT_NUM   *)
(* just when there is a slot for it.                                       *)
LEMMA AcceptedFd ==
  ASSUME IInv, NEW fd, LowestFree(fd)
  PROVE  /\ fd \in Fds /\ fd \notin OpenFds /\ fd \notin SlotFds
         /\ FreeSlots # {} => fd <= listen_fd + MAX_CLIENT_NUM
         /\ FreeSlots = {} => fd > listen_fd + MAX_CLIENT_NUM
<1> DEFINE Low == (listen_fd + 1)..(listen_fd + MAX_CLIENT_NUM)
<1>1. /\ fd \in Fds /\ fd \in Nat /\ fd \notin OpenFds /\ fd \notin SlotFds
      /\ fd > listen_fd /\ fd <= LAST_FD
      /\ \A other \in FreeFds : fd <= other
  BY SlotFacts DEF LowestFree, FreeFds, OpenFds, Fds
<1>2. listen_fd \in Nat /\ MAX_CLIENT_NUM \in Nat /\ LAST_FD \in Nat
  BY SlotFacts
<1>3. /\ IsFiniteSet(Low) /\ Cardinality(Low) = MAX_CLIENT_NUM
      /\ IsFiniteSet(Slots) /\ Cardinality(Slots) = MAX_CLIENT_NUM
  <2>1. listen_fd + 1 \in Int /\ listen_fd + MAX_CLIENT_NUM \in Int
    BY <1>2
  <2>2. /\ IsFiniteSet(Low)
        /\ Cardinality(Low) = IF listen_fd + 1 > listen_fd + MAX_CLIENT_NUM THEN 0
                             ELSE (listen_fd + MAX_CLIENT_NUM) - (listen_fd + 1) + 1
    BY <2>1, FS_Interval
  <2>3. /\ IsFiniteSet(1..MAX_CLIENT_NUM)
        /\ Cardinality(1..MAX_CLIENT_NUM) = IF 1 > MAX_CLIENT_NUM THEN 0
                                           ELSE MAX_CLIENT_NUM - 1 + 1
    BY <1>2, FS_Interval
  <2> HIDE DEF Low
  <2> QED BY <1>2, <2>2, <2>3 DEF Slots
<1>4. ASSUME FreeSlots # {}, fd > listen_fd + MAX_CLIENT_NUM
      PROVE  FALSE
  <2>1. \A x \in Low : \E i \in Slots : slots[i] = x
    <3> SUFFICES ASSUME NEW x \in Low PROVE \E i \in Slots : slots[i] = x
      OBVIOUS
    <3>1. x \in Fds /\ ~(fd <= x) /\ x <= listen_fd + MAX_CLIENT_NUM
      BY <1>1, <1>2, <1>4 DEF Fds
    <3>2. x \in OpenFds
      BY <1>1, <3>1 DEF OpenFds
    <3>3. x \in SlotFds
      BY <3>1, <3>2 DEF IInv, LeaksStayAbove
    <3> QED BY <3>3 DEF SlotFds
  <2>2. PICK s \in Slots : slots[s] = NoFd
    BY <1>4 DEF FreeSlots
  <2> DEFINE slotOf == [x \in Low |-> CHOOSE i \in Slots : slots[i] = x]
  <2>3. \A x \in Low : slotOf[x] \in Slots /\ slots[slotOf[x]] = x
    BY <2>1
  <2>4. \A x \in Low : x # NoFd
    BY <1>2 DEF NoFd
  <2>5. slotOf \in [Low -> Slots \ {s}]
    BY <2>2, <2>3, <2>4
  <2>6. IsFiniteSet(Slots \ {s}) /\ Cardinality(Slots \ {s}) < Cardinality(Low)
    <3> HIDE DEF Low
    <3>1. IsFiniteSet(Slots \ {s}) /\ Cardinality(Slots \ {s}) = Cardinality(Slots) - 1
      BY <1>3, FS_RemoveElement
    <3> QED BY <1>2, <1>3, <3>1
  <2> HIDE DEF Low, slotOf
  <2>7. PICK x, y \in Low : x # y /\ slotOf[x] = slotOf[y]
    BY <1>3, <2>5, <2>6, FS_PigeonHole
  <2> QED BY <2>3, <2>7
<1>5. ASSUME FreeSlots = {}, fd <= listen_fd + MAX_CLIENT_NUM
      PROVE  FALSE
  <2>1. fd \in Low
    BY <1>1, <1>2, <1>5
  <2>2. \A i \in Slots : slots[i] \in SlotFds
    BY <1>5, SlotFacts DEF FreeSlots
  <2>3. \A other \in SlotFds : other \in Low /\ other # fd
    <3> SUFFICES ASSUME NEW other \in SlotFds PROVE other \in Low /\ other # fd
      OBVIOUS
    <3>1. other \in OpenFds /\ other \in Nat /\ other > listen_fd
      BY SlotFacts
    <3>2. other <= listen_fd + MAX_CLIENT_NUM
      BY <3>1 DEF IInv, LeaksStayAbove
    <3> QED BY <1>1, <1>2, <3>1, <3>2
  <2>4. slots \in [Slots -> Low \ {fd}]
    BY <2>2, <2>3 DEF IInv, TypeOK
  <2> HIDE DEF Low
  <2>5. IsFiniteSet(Low \ {fd}) /\ Cardinality(Low \ {fd}) < Cardinality(Slots)
    <3>1. IsFiniteSet(Low \ {fd}) /\ Cardinality(Low \ {fd}) = Cardinality(Low) - 1
      BY <1>3, <2>1, FS_RemoveElement
    <3> QED BY <1>2, <1>3, <3>1
  <2>6. PICK i, j \in Slots : i # j /\ slots[i] = slots[j]
    BY <1>3, <2>4, <2>5, FS_PigeonHole
  <2>7. slots[i] # NoFd
    BY <1>5 DEF FreeSlots
  <2> QED BY <2>6, <2>7 DEF IInv, SlotsOpen
<1> QED BY <1>1, <1>2, <1>4, <1>5

(* A connection moves from the queue to a descriptor, and that to the      *)
(* first free slot or to none.                                             *)
LEMMA AcceptStep ==
  ASSUME IInv, accept_connection
  PROVE  IInv'
<1>1. PICK fd \in Fds :
        /\ LowestFree(fd)
        /\ owner' = [owner EXCEPT ![fd] = Head(backlog)]
        /\ Store(fd)
  BY DEF accept_connection, Accept
<1>2. /\ phase = "accept" /\ listen_fd \in readFds
      /\ backlog' = Tail(backlog) /\ phase' = "scan" /\ p' = 1
      /\ UNCHANGED <<life, readFds, seen, peer, inbox>>
  BY DEF accept_connection, Accept, ToScan
<1>3. backlog \in Seq(Conns) /\ backlog # <<>>
  BY <1>2 DEF IInv, TypeOK, SetFilled
<1>4. /\ Head(backlog) \in Conns /\ backlog' \in Seq(Conns)
      /\ \A i, j \in 1..Len(backlog') : backlog'[i] = backlog'[j] => i = j
      /\ QueuedConns' = QueuedConns \ {Head(backlog)}
      /\ Head(backlog) \in QueuedConns
  <2>1. \A i, j \in 1..Len(backlog) : backlog[i] = backlog[j] => i = j
    BY DEF IInv, SlotsOpen
  <2> QED BY <1>2, <1>3, <2>1, TailDistinct DEF QueuedConns
<1>5. /\ fd \notin OpenFds /\ fd \notin SlotFds /\ fd \notin readFds
      /\ fd \in Nat /\ fd # listen_fd /\ fd # NoFd
      /\ FreeSlots # {} => fd <= listen_fd + MAX_CLIENT_NUM
      /\ FreeSlots = {} => fd > listen_fd + MAX_CLIENT_NUM
  <2>1. fd \in Nat /\ fd # listen_fd /\ fd # NoFd
    BY SlotFacts
  <2>2. /\ fd \notin OpenFds /\ fd \notin SlotFds
        /\ FreeSlots # {} => fd <= listen_fd + MAX_CLIENT_NUM
        /\ FreeSlots = {} => fd > listen_fd + MAX_CLIENT_NUM
    BY <1>1, AcceptedFd
  <2>3. fd \notin readFds
    BY <1>2, <2>1, <2>2 DEF IInv, SetFilled
  <2> QED BY <2>1, <2>2, <2>3
<1>6. /\ owner'[fd] = Head(backlog)
      /\ \A other \in Fds \ {fd} : owner'[other] = owner[other]
      /\ OpenFds' = OpenFds \cup {fd}
  <2>1. Head(backlog) # None
    BY <1>4, SelectAssumption
  <2>2. /\ owner'[fd] = Head(backlog)
        /\ \A other \in Fds \ {fd} : owner'[other] = owner[other]
    BY <1>1 DEF IInv, TypeOK
  <2> QED BY <2>1, <2>2 DEF OpenFds, FreeFds
<1>7. \/ FreeSlots = {} /\ slots' = slots
      \/ \E s \in FreeSlots : slots' = [slots EXCEPT ![s] = fd]
  BY <1>1 DEF Store
<1>8. TypeOK'
  <2>1. owner' \in [Fds -> Conns \cup {None}]
    BY <1>1, <1>4 DEF IInv, TypeOK
  <2>2. slots' \in [Slots -> Fds \cup {NoFd}]
    BY <1>7 DEF IInv, TypeOK
  <2>3. 1 \in 1..(MAX_CLIENT_NUM + 1)
    BY SelectAssumption
  <2> QED BY <1>2, <1>4, <2>1, <2>2, <2>3 DEF IInv, TypeOK
<1>9. /\ FreeSlots = {} => SlotFds' = SlotFds
      /\ FreeSlots # {} => SlotFds' = SlotFds \cup {fd}
      /\ \A i \in Slots : slots'[i] = slots[i] \/ (slots'[i] = fd /\ slots[i] = NoFd)
      /\ \A i, j \in Slots : slots'[i] = slots'[j] /\ slots'[i] # NoFd => i = j
  <2>1. CASE FreeSlots = {}
    <3>1. slots' = slots
      BY <1>7, <2>1
    <3>2. \A i, j \in Slots : slots[i] = slots[j] /\ slots[i] # NoFd => i = j
      BY DEF IInv, SlotsOpen
    <3> QED BY <2>1, <3>1, <3>2 DEF SlotFds
  <2>2. CASE FreeSlots # {}
    <3>1. PICK s \in FreeSlots : slots' = [slots EXCEPT ![s] = fd]
      BY <1>7, <2>2
    <3>2. s \in Slots /\ slots[s] = NoFd /\ slots \in [Slots -> Fds \cup {NoFd}]
      BY DEF FreeSlots, IInv, TypeOK
    <3>3. slots'[s] = fd /\ \A i \in Slots \ {s} : slots'[i] = slots[i]
      BY <3>1, <3>2
    <3>4. SlotFds' = SlotFds \cup {fd}
      BY <1>5, <3>2, <3>3 DEF SlotFds
    <3>5. \A i \in Slots : slots[i] # fd
      BY <1>5, <3>2 DEF SlotFds
    <3>6. \A i, j \in Slots : slots[i] = slots[j] /\ slots[i] # NoFd => i = j
      BY DEF IInv, SlotsOpen
    <3> QED BY <1>5, <2>2, <3>2, <3>3, <3>4, <3>5, <3>6
  <2> QED BY <2>1, <2>2
<1>10. SlotsOpen'
  <2>1. SlotFds' \subseteq OpenFds'
    BY <1>6, <1>9 DEF IInv, SlotsOpen
  <2>2. \A other \in OpenFds : /\ owner'[other] = owner[other]
                               /\ owner[other] \notin QueuedConns
                               /\ owner[other] # Head(backlog)
    BY <1>4, <1>5, <1>6, SlotFacts DEF IInv, SlotsOpen
  <2>3. \A one, other \in OpenFds' : owner'[one] = owner'[other] => one = other
    BY <1>6, <2>2 DEF IInv, SlotsOpen
  <2>4. \A other \in OpenFds' : owner'[other] \notin QueuedConns'
    BY <1>4, <1>6, <2>2
  <2> QED BY <1>4, <1>9, <2>1, <2>3, <2>4 DEF SlotsOpen
<1>11. NewUnknown'
  <2>1. peer[Head(backlog)] # "new"
    BY <1>4 DEF IInv, NewUnknown
  <2>2. \A other \in OpenFds : owner'[other] = owner[other]
    BY <1>5, <1>6, SlotFacts
  <2> QED BY <1>2, <1>4, <1>6, <2>1, <2>2 DEF IInv, NewUnknown
<1>12. LeaksStayAbove'
  <2>1. \A other \in OpenFds : other \in SlotFds' <=> other \in SlotFds
    BY <1>5, <1>9
  <2>2. fd \in SlotFds' <=> fd <= listen_fd + MAX_CLIENT_NUM
    <3>1. listen_fd + MAX_CLIENT_NUM \in Nat
      BY SlotFacts
    <3> QED BY <1>5, <1>9, <3>1
  <2>3. \A other \in OpenFds : other \in SlotFds <=> other <= listen_fd + MAX_CLIENT_NUM
    BY DEF IInv, LeaksStayAbove
  <2> QED BY <1>6, <2>1, <2>2, <2>3 DEF LeaksStayAbove
<1>13. SetFilled'
  BY <1>2 DEF IInv, SetFilled
<1>14. ReadyFresh'
  <2> SUFFICES ASSUME NEW i \in Slots, Ready(i)'
               PROVE  (owner[slots[i]] = seen[slots[i]] /\ Readable(owner[slots[i]]))'
    BY DEF ReadyFresh
  <2>1. slots'[i] = slots[i] /\ slots[i] # NoFd /\ slots[i] \in readFds
    BY <1>2, <1>5, <1>9 DEF Ready
  <2>2. slots[i] \in OpenFds
    BY <2>1, SlotFacts
  <2>3. owner'[slots[i]] = owner[slots[i]]
    BY <1>5, <1>6, <2>2, SlotFacts
  <2>4. owner[slots[i]] = seen[slots[i]] /\ Readable(owner[slots[i]])
    BY <1>2, <2>1 DEF IInv, ReadyFresh, Ready
  <2>5. Readable(owner[slots[i]])' = Readable(owner[slots[i]])
    BY <1>2, <2>1, <2>3 DEF Readable
  <2> QED BY <1>2, <2>1, <2>3, <2>4, <2>5
<1> QED BY <1>8, <1>10, <1>11, <1>12, <1>13, <1>14 DEF IInv

(* No connection is accepted.                                              *)
LEMMA NoAcceptStep ==
  ASSUME IInv, accept_failed \/ no_connection
  PROVE  IInv'
<1>1. /\ phase = "accept" /\ phase' = "scan" /\ p' = 1
      /\ UNCHANGED <<life, slots, readFds, seen, owner, backlog, peer, inbox>>
  BY DEF accept_failed, no_connection, ToScan, netVars
<1>2. TypeOK'
  BY <1>1, SelectAssumption DEF IInv, TypeOK
<1>3. SlotsOpen' /\ LeaksStayAbove' /\ UNCHANGED <<OpenFds, SlotFds, QueuedConns>>
  BY <1>1, Kept DEF IInv
<1>4. NewUnknown' /\ SetFilled'
  BY <1>1, <1>3 DEF IInv, NewUnknown, SetFilled
<1>5. ReadyFresh'
  <2>1. \A c \in Conns : Readable(c)' = Readable(c)
    BY <1>1 DEF Readable
  <2>2. \A i \in Slots : Ready(i)' = Ready(i) /\ (Ready(i) => owner[slots[i]] \in Conns)
    BY <1>1, SlotFacts DEF Ready
  <2> QED BY <1>1, <2>1, <2>2 DEF IInv, ReadyFresh
<1> QED BY <1>2, <1>3, <1>4, <1>5 DEF IInv

-----------------------------------------------------------------------------
(* The loop over the slots.                                                *)

(* The slot that the loop takes is beyond those it has taken, and what it  *)
(* holds is as select reported it.                                         *)
LEMMA TakenSlot ==
  ASSUME IInv, NEW i \in Slots, NextReady(i)
  PROVE  /\ phase = "scan" /\ i >= p /\ i \in Nat /\ p \in Nat
         /\ p' = i + 1 /\ i + 1 \in 1..(MAX_CLIENT_NUM + 1)
         /\ slots[i] # NoFd /\ slots[i] \in SlotFds /\ slots[i] \in Fds
         /\ slots[i] \in readFds
         /\ owner[slots[i]] \in Conns
<1>1. /\ phase = "scan" /\ i \in p..MAX_CLIENT_NUM /\ p' = i + 1
      /\ slots[i] # NoFd /\ slots[i] \in readFds
  BY DEF NextReady, Ready
<1>2. p \in Nat /\ i \in Nat /\ i <= MAX_CLIENT_NUM /\ i >= 1 /\ MAX_CLIENT_NUM \in Nat
  BY SlotFacts DEF IInv, TypeOK, Slots
<1>3. slots[i] \in SlotFds /\ slots[i] \in Fds /\ owner[slots[i]] \in Conns
  BY <1>1, SlotFacts
<1> QED BY <1>1, <1>2, <1>3

(* Of the slots yet to come none holds the connection of the slot taken.   *)
LEMMA OthersHome ==
  ASSUME IInv, NEW i \in Slots, NextReady(i), NEW j \in Slots, j # i, slots[j] # NoFd
  PROVE  slots[j] # slots[i] /\ owner[slots[j]] # owner[slots[i]]
<1>1. slots[i] # NoFd /\ slots[i] \in OpenFds /\ slots[j] \in OpenFds
  BY TakenSlot, SlotFacts
<1>2. slots[j] # slots[i]
  BY <1>1 DEF IInv, SlotsOpen
<1> QED BY <1>1, <1>2 DEF IInv, SlotsOpen

(* One recv takes bytes of the connection of its slot only.                *)
LEMMA RecvStep ==
  ASSUME IInv, NEW i \in Slots, recv_msg(i)
  PROVE  IInv'
<1> DEFINE c == owner[slots[i]]
<1>1. /\ NextReady(i) /\ inbox[c] > 0
      /\ inbox' = [inbox EXCEPT ![c] = @ - Least(@, RECV_BUF_SIZE)]
      /\ UNCHANGED <<life, slots, phase, readFds, seen, owner, backlog, peer>>
  BY DEF recv_msg
<1>2. /\ phase = "scan" /\ i >= p /\ i \in Nat /\ p \in Nat
      /\ p' = i + 1 /\ i + 1 \in 1..(MAX_CLIENT_NUM + 1)
      /\ c \in Conns
  BY <1>1, TakenSlot
<1>3. inbox' \in [Conns -> 0..MAX_UNREAD]
  <2>1. inbox \in [Conns -> 0..MAX_UNREAD]
    BY DEF IInv, TypeOK
  <2>2. MAX_UNREAD \in Nat /\ RECV_BUF_SIZE \in Nat
    BY SelectAssumption
  <2>3. inbox[c] - Least(inbox[c], RECV_BUF_SIZE) \in 0..MAX_UNREAD
    BY <1>2, <2>1, <2>2 DEF Least
  <2> QED BY <1>1, <2>1, <2>3
<1>4. TypeOK'
  BY <1>1, <1>2, <1>3 DEF IInv, TypeOK
<1>5. SlotsOpen' /\ LeaksStayAbove' /\ UNCHANGED <<OpenFds, SlotFds, QueuedConns>>
  BY <1>1, Kept DEF IInv
<1>6. NewUnknown' /\ SetFilled'
  BY <1>1, <1>2, <1>5 DEF IInv, NewUnknown, SetFilled
<1>7. ReadyFresh'
  <2> SUFFICES ASSUME NEW j \in Slots, (phase = "accept" \/ (phase = "scan" /\ j >= p))',
                      Ready(j)'
               PROVE  (owner[slots[j]] = seen[slots[j]] /\ Readable(owner[slots[j]]))'
    BY DEF ReadyFresh
  <2>1. j >= i + 1 /\ j \in Nat /\ j # i /\ j >= p
    BY <1>1, <1>2 DEF Slots
  <2>2. Ready(j) /\ slots[j] # NoFd
    BY <1>1 DEF Ready
  <2>3. owner[slots[j]] = seen[slots[j]] /\ Readable(owner[slots[j]])
    BY <1>2, <2>1, <2>2 DEF IInv, ReadyFresh
  <2>4. owner[slots[j]] # c /\ owner[slots[j]] \in Conns
    BY <1>1, <2>1, <2>2, OthersHome, SlotFacts
  <2>5. inbox'[owner[slots[j]]] = inbox[owner[slots[j]]]
    BY <1>1, <2>4 DEF IInv, TypeOK
  <2> QED BY <1>1, <2>3, <2>5 DEF Readable
<1> QED BY <1>4, <1>5, <1>6, <1>7 DEF IInv

(* A slot and its descriptor are given back together.                      *)
LEMMA CloseStep ==
  ASSUME IInv, NEW i \in Slots, close_client(i)
  PROVE  IInv'
<1> DEFINE c == owner[slots[i]]
           fd == slots[i]
<1>1. /\ NextReady(i) /\ peer[c] = "gone"
      /\ peer' = [peer EXCEPT ![c] = "closed"]
      /\ owner' = [owner EXCEPT ![fd] = None]
      /\ slots' = [slots EXCEPT ![i] = NoFd]
      /\ UNCHANGED <<life, phase, readFds, seen, backlog, inbox>>
  BY DEF close_client, CloseSlot
<1>2. /\ phase = "scan" /\ i >= p /\ i \in Nat /\ p \in Nat
      /\ p' = i + 1 /\ i + 1 \in 1..(MAX_CLIENT_NUM + 1)
      /\ fd # NoFd /\ fd \in SlotFds /\ fd \in Fds /\ c \in Conns
  BY <1>1, TakenSlot
<1>3. /\ owner \in [Fds -> Conns \cup {None}] /\ slots \in [Slots -> Fds \cup {NoFd}]
      /\ peer \in [Conns -> {"new", "up", "gone", "closed"}]
  BY DEF IInv, TypeOK
<1>4. TypeOK'
  BY <1>1, <1>2, <1>3 DEF IInv, TypeOK
<1>5. /\ owner'[fd] = None /\ \A other \in Fds \ {fd} : owner'[other] = owner[other]
      /\ slots'[i] = NoFd /\ \A j \in Slots \ {i} : slots'[j] = slots[j]
      /\ \A d \in Conns \ {c} : peer'[d] = peer[d]
      /\ peer'[c] = "closed"
  BY <1>1, <1>2, <1>3
<1>6. OpenFds' = OpenFds \ {fd}
  BY <1>5 DEF OpenFds, FreeFds
<1>7. SlotFds' = SlotFds \ {fd}
  <2>1. \A j \in Slots \ {i} : slots[j] # NoFd => slots[j] # fd
    BY <1>1, OthersHome
  <2> QED BY <1>2, <1>5, <2>1 DEF SlotFds
<1>8. QueuedConns' = QueuedConns
  BY <1>1 DEF QueuedConns
<1>9. \A other \in OpenFds' : other \in OpenFds /\ owner'[other] = owner[other]
  BY <1>5, <1>6, SlotFacts
<1>10. SlotsOpen'
  <2>1. SlotFds' \subseteq OpenFds'
    BY <1>6, <1>7 DEF IInv, SlotsOpen
  <2>2. \A j, k \in Slots : slots'[j] = slots'[k] /\ slots'[j] # NoFd => j = k
    <3>1. \A j, k \in Slots : slots[j] = slots[k] /\ slots[j] # NoFd => j = k
      BY DEF IInv, SlotsOpen
    <3> QED BY <1>5, <3>1
  <2>3. \A one, other \in OpenFds' : owner'[one] = owner'[other] => one = other
    BY <1>9 DEF IInv, SlotsOpen
  <2>4. \A other \in OpenFds' : owner'[other] \notin QueuedConns'
    BY <1>8, <1>9 DEF IInv, SlotsOpen
  <2>5. \A j, k \in 1..Len(backlog') : backlog'[j] = backlog'[k] => j = k
    BY <1>1 DEF IInv, SlotsOpen
  <2> QED BY <2>1, <2>2, <2>3, <2>4, <2>5 DEF SlotsOpen
<1>11. NewUnknown'
  BY <1>5, <1>8, <1>9 DEF IInv, NewUnknown
<1>12. LeaksStayAbove'
  BY <1>6, <1>7 DEF IInv, LeaksStayAbove
<1>13. SetFilled'
  BY <1>1, <1>2 DEF IInv, SetFilled
<1>14. ReadyFresh'
  <2> SUFFICES ASSUME NEW j \in Slots, (phase = "accept" \/ (phase = "scan" /\ j >= p))',
                      Ready(j)'
               PROVE  (owner[slots[j]] = seen[slots[j]] /\ Readable(owner[slots[j]]))'
    BY DEF ReadyFresh
  <2>1. j >= i + 1 /\ j \in Nat /\ j # i /\ j >= p
    BY <1>1, <1>2 DEF Slots
  <2>2. slots'[j] = slots[j] /\ Ready(j) /\ slots[j] # NoFd
    BY <1>1, <1>5, <2>1 DEF Ready
  <2>3. owner[slots[j]] = seen[slots[j]] /\ Readable(owner[slots[j]])
    BY <1>2, <2>1, <2>2 DEF IInv, ReadyFresh
  <2>4. /\ owner[slots[j]] # c /\ owner[slots[j]] \in Conns
        /\ slots[j] # fd /\ slots[j] \in Fds
    BY <1>1, <2>1, <2>2, OthersHome, SlotFacts
  <2>5. owner'[slots[j]] = owner[slots[j]] /\ peer'[owner[slots[j]]] = peer[owner[slots[j]]]
    BY <1>5, <2>4
  <2> QED BY <1>1, <2>2, <2>3, <2>5 DEF Readable
<1> QED BY <1>4, <1>10, <1>11, <1>12, <1>13, <1>14 DEF IInv

(* The steps that leave slots, descriptors and connections as they are.    *)
LEMMA QuietStep ==
  ASSUME IInv, create_socket \/ scan_done \/ UNCHANGED vars
  PROVE  IInv'
<1>1. UNCHANGED <<slots, owner, backlog, peer, inbox>>
  BY DEF create_socket, scan_done, vars, loopVars, netVars
<1>2. \/ /\ life' \in {"start", "running", "failed"}
         /\ UNCHANGED <<phase, readFds, seen, p>>
      \/ /\ phase' = "select" /\ readFds' = {} /\ seen' = NoOwner /\ p' = 1
         /\ life' = life
  BY DEF create_socket, scan_done, vars, loopVars, IInv, TypeOK
<1>3. TypeOK'
  <2>1. NoOwner \in [Fds -> Conns \cup {None}]
    BY DEF NoOwner
  <2>2. 1 \in 1..(MAX_CLIENT_NUM + 1)
    BY SelectAssumption
  <2> QED BY <1>1, <1>2, <2>1, <2>2 DEF IInv, TypeOK
<1>4. SlotsOpen' /\ LeaksStayAbove' /\ UNCHANGED <<OpenFds, SlotFds, QueuedConns>>
  BY <1>1, Kept DEF IInv
<1>5. NewUnknown' /\ SetFilled'
  BY <1>1, <1>2, <1>4 DEF IInv, NewUnknown, SetFilled
<1>6. ReadyFresh'
  <2>1. CASE UNCHANGED <<phase, readFds, seen, p>>
    <3>1. \A c \in Conns : Readable(c)' = Readable(c)
      BY <1>1 DEF Readable
    <3>2. \A i \in Slots : Ready(i)' = Ready(i) /\ (Ready(i) => owner[slots[i]] \in Conns)
      BY <1>1, <2>1, SlotFacts DEF Ready
    <3> QED BY <1>1, <2>1, <3>1, <3>2 DEF IInv, ReadyFresh
  <2>2. CASE phase' = "select"
    BY <2>2 DEF ReadyFresh
  <2> QED BY <1>2, <2>1, <2>2
<1> QED BY <1>3, <1>4, <1>5, <1>6 DEF IInv

-----------------------------------------------------------------------------
(* Every step.                                                             *)
LEMMA IInvStep == IInv /\ [Next]_vars => IInv'
<1> SUFFICES ASSUME IInv, [Next]_vars PROVE IInv'
  OBVIOUS
<1>1. CASE create_socket \/ UNCHANGED vars
  BY <1>1, QuietStep
<1>2. CASE accept_select
  <2>1. CASE select
    BY <2>1, SelectStep
  <2>2. CASE accept_connection
    BY <2>2, AcceptStep
  <2>3. CASE accept_failed \/ no_connection
    BY <2>3, NoAcceptStep
  <2>4. ASSUME NEW i \in Slots, recv_msg(i) \/ close_client(i) PROVE IInv'
    BY <2>4, RecvStep, CloseStep
  <2>5. CASE scan_done
    BY <2>5, QuietStep
  <2> QED BY <1>2, <2>1, <2>2, <2>3, <2>4, <2>5 DEF accept_select
<1>3. ASSUME NEW c \in Conns, peer_connect(c) \/ peer_send(c) \/ peer_leave(c)
      PROVE  IInv'
  BY <1>3, ConnectStep, PeerStep
<1> QED BY <1>1, <1>2, <1>3 DEF Next

(* The inductive invariant holds in every reachable state.                 *)
THEOREM Invariance == Spec => []IInv
<1> QED BY InitIInv, IInvStep, PTL DEF Spec

(* The variables keep their types.                                         *)
THEOREM TypeCorrect == Spec => []TypeOK
<1>1. IInv => TypeOK
  BY DEF IInv
<1> QED BY <1>1, Invariance, PTL

(* The slots hold different open descriptors and each connection has one   *)
(* home: select never fails for a descriptor that was closed.              *)
THEOREM SlotsAlwaysOpen == Spec => []SlotsOpen
<1>1. IInv => SlotsOpen
  BY DEF IInv
<1> QED BY <1>1, Invariance, PTL

(* The descriptors that leak are above those the slots can ever hold, for  *)
(* every number of slots, although descriptors are reused.                 *)
THEOREM LeaksAlwaysAbove == Spec => []LeaksStayAbove
<1>1. IInv => LeaksStayAbove
  BY DEF IInv
<1> QED BY <1>1, Invariance, PTL

(* What the loop over the slots finds in the set is as select reported it. *)
THEOREM ReadyAlwaysFresh == Spec => []ReadyFresh
<1>1. IInv => ReadyFresh
  BY DEF IInv
<1> QED BY <1>1, Invariance, PTL

-----------------------------------------------------------------------------
(* The clients that select does not look at.                               *)

(* One step does not read or release such a client: what the loop takes is *)
(* in the set, and that is below NFDS.                                     *)
LEMMA UnheardStep ==
  ASSUME IInv, [Next]_vars, NEW c \in Conns, Unheard(c)
  PROVE  Unheard(c)' /\ inbox'[c] >= inbox[c]
<1>1. PICK fd \in OpenFds : owner[fd] = c /\ fd >= NFDS
  BY DEF Unheard
<1>2. fd \in Fds /\ fd \in Nat /\ NFDS \in Nat /\ owner[fd] # None
  BY SlotFacts DEF OpenFds, FreeFds, NFDS
<1>3. inbox \in [Conns -> 0..MAX_UNREAD] /\ MAX_UNREAD \in Nat
      /\ owner \in [Fds -> Conns \cup {None}]
  BY SelectAssumption DEF IInv, TypeOK
<1>4. inbox[c] \in Nat
  BY <1>3
<1>5. ASSUME owner'[fd] = owner[fd] PROVE Unheard(c)'
  BY <1>1, <1>2, <1>5 DEF Unheard, OpenFds, FreeFds
<1>6. ASSUME NEW i \in Slots, NextReady(i)
      PROVE  slots[i] # fd /\ owner[slots[i]] # c
  <2>1. slots[i] \in readFds /\ slots[i] \in OpenFds
    BY <1>6, TakenSlot, SlotFacts
  <2>2. slots[i] # fd
    BY <1>1, <1>2, <2>1, SlotFacts DEF IInv, SetFilled
  <2> QED BY <1>1, <2>1, <2>2 DEF IInv, SlotsOpen
<1>7. CASE UNCHANGED <<owner, inbox>>
  BY <1>4, <1>5, <1>7
<1>8. CASE accept_connection
  <2>1. PICK new \in Fds : LowestFree(new) /\ owner' = [owner EXCEPT ![new] = Head(backlog)]
    BY <1>8 DEF accept_connection, Accept
  <2>2. new # fd
    BY <1>1, <2>1, AcceptedFd
  <2>3. inbox' = inbox
    BY <1>8 DEF accept_connection, Accept
  <2> QED BY <1>2, <1>3, <1>4, <1>5, <2>1, <2>2, <2>3
<1>9. ASSUME NEW i \in Slots, recv_msg(i)
      PROVE  Unheard(c)' /\ inbox'[c] >= inbox[c]
  <2>1. NextReady(i) /\ owner' = owner
        /\ inbox' = [inbox EXCEPT ![owner[slots[i]]] = @ - Least(@, RECV_BUF_SIZE)]
    BY <1>9 DEF recv_msg
  <2>2. inbox'[c] = inbox[c]
    BY <1>3, <1>6, <2>1
  <2> QED BY <1>4, <1>5, <2>1, <2>2
<1>10. ASSUME NEW i \in Slots, close_client(i)
       PROVE  Unheard(c)' /\ inbox'[c] >= inbox[c]
  <2>1. NextReady(i) /\ inbox' = inbox /\ owner' = [owner EXCEPT ![slots[i]] = None]
    BY <1>10 DEF close_client, CloseSlot
  <2>2. owner'[fd] = owner[fd]
    BY <1>2, <1>3, <1>6, <2>1
  <2> QED BY <1>4, <1>5, <2>1, <2>2
<1>11. ASSUME NEW d \in Conns, peer_send(d)
       PROVE  Unheard(c)' /\ inbox'[c] >= inbox[c]
  <2>1. owner' = owner /\ inbox' = [inbox EXCEPT ![d] = @ + 1]
    BY <1>11 DEF peer_send
  <2>2. inbox'[c] = inbox[c] \/ inbox'[c] = inbox[c] + 1
    BY <1>3, <2>1
  <2> QED BY <1>4, <1>5, <2>1, <2>2
<1>12. create_socket \/ select \/ accept_failed \/ no_connection \/ scan_done
         \/ (\E d \in Conns : peer_connect(d) \/ peer_leave(d)) \/ UNCHANGED vars
       => UNCHANGED <<owner, inbox>>
  BY DEF create_socket, select, SelectReturns, accept_failed, no_connection, scan_done,
         peer_connect, peer_leave, vars, netVars
<1> QED BY <1>7, <1>8, <1>9, <1>10, <1>11, <1>12 DEF Next, accept_select

(* Once accepted on a descriptor that select does not look at, a client is *)
(* never read and never released.                                          *)
THEOREM UnheardStays == Spec => UnheardForEver
<1>1. IInv /\ [Next]_vars =>
        [\A c \in Conns : Unheard(c) => Unheard(c)' /\ inbox'[c] >= inbox[c]]_vars
  BY UnheardStep
<1> QED BY <1>1, Invariance, PTL DEF Spec, UnheardForEver
=============================================================================
