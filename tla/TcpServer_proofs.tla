--------------------------- MODULE TcpServer_proofs ---------------------------
(***************************************************************************)
(* The safety invariants of the reactor, for every number of connections,  *)
(* descriptors, events per batch and messages.  IInv is their inductive    *)
(* strengthening: each lemma below shows that a step from a state of IInv  *)
(* keeps one of its parts.                                                 *)
(***************************************************************************)
EXTENDS TcpServer, SequenceTheorems, QueueLemmas, TLAPS

-----------------------------------------------------------------------------
(* Before the constructor nothing is open and nothing is queued.           *)
LEMMA InitIInv == Init => IInv
<1> SUFFICES ASSUME Init PROVE IInv
  OBVIOUS
<1>1. backlog \in Seq(Conns) /\ Len(backlog) = 0
  BY EmptySeq DEF Init
<1>2. TypeOK
  <2>1. 0 \in 0..MAX_MSGS
    BY ConstantsAssumption
  <2>2. owner \in [Fds -> Conns \cup {None}] /\ peer \in [Conns -> PeerStates]
    BY DEF Init, PeerStates
  <2>3. inbox \in [Conns -> 0..MAX_MSGS]
    BY <2>1 DEF Init
  <2> QED
    BY <1>1, <2>2, <2>3 DEF Init, TypeOK
<1>3. BatchFresh /\ MaskHolds /\ OnlyHangupsClosed /\ EdgeOrError
  BY DEF Init, BatchFresh, MaskHolds, OnlyHangupsClosed, EdgeOrError, AcceptOwed
<1>4. OpenFds = {} /\ QueuedConns = {} /\ ServedConns = {}
  BY <1>1 DEF Init, OpenFds, FreeFds, QueuedConns, ServedConns
<1>5. OneHome
  BY <1>1, <1>4 DEF Init, OneHome
<1>6. AtRest
  BY DEF Init, AtRest
<1> QED
  BY <1>2, <1>3, <1>5, <1>6 DEF IInv

-----------------------------------------------------------------------------
(* The facts about one entry of the batch that its dispatcher relies on.   *)
LEMMA EntryFacts ==
  ASSUME IInv, NEW e \in event, e # ListenEvent
  PROVE  /\ e \in Event
         /\ e.fd \in Fds /\ e.fd \in Nat /\ e.fd # listen_fd /\ e.fd \in watched
         /\ e.conn \in Conns /\ owner[e.fd] = e.conn
         /\ life = "running"
  BY ConstantsAssumption DEF IInv, TypeOK, BatchFresh, AtRest, Event

(* What epoll_wait puts in the batch.                                      *)
LEMMA ReadyFacts ==
  ASSUME IInv, NEW e \in ReadyEvents, e # ListenEvent
  PROVE  /\ e \in Event
         /\ e.fd \in watched /\ owner[e.fd] = e.conn
         /\ e.what = "rdhup" <=> peer[e.conn] = "fin"
         /\ e.what = "err" <=> peer[e.conn] = "err"
         /\ e.what = "in" => inbox[e.conn] > 0
<1>1. PICK fd \in ReadyClients :
        e = [fd |-> fd, what |-> Mask(owner[fd]), conn |-> owner[fd]]
  BY DEF ReadyEvents
<1>2. fd \in watched /\ fd \in Fds /\ owner[fd] \in Conns
  <2>1. fd \in watched /\ fd \in Fds
    BY DEF ReadyClients, IInv, TypeOK
  <2>2. owner[fd] # None
    <3>1. CASE life = "running"
      BY <2>1, <3>1 DEF IInv, OneHome, OpenFds, FreeFds
    <3>2. CASE life # "running"
      BY <2>1, <3>2 DEF IInv, AtRest
    <3> QED BY <3>1, <3>2
  <2> QED BY <2>1, <2>2 DEF IInv, TypeOK
<1>3. /\ Mask(owner[fd]) \in {"rdhup", "err", "in"}
      /\ Mask(owner[fd]) = "rdhup" <=> peer[owner[fd]] = "fin"
      /\ Mask(owner[fd]) = "err" <=> peer[owner[fd]] = "err"
  BY DEF Mask
<1>4. Mask(owner[fd]) = "in" => inbox[owner[fd]] > 0
  BY <1>3 DEF ReadyClients
<1> QED
  BY <1>1, <1>2, <1>3, <1>4 DEF Event

-----------------------------------------------------------------------------
(* The batch: TypeOK, BatchFresh and MaskHolds.                            *)

(* Every step keeps the types.                                             *)
LEMMA TypeStep ==
  ASSUME IInv, [Next]_vars
  PROVE  TypeOK'
<1> USE DEF IInv, TypeOK
<1>1. ASSUME construct PROVE TypeOK'
  BY <1>1 DEF construct, kernelVars, connVars
<1>2. ASSUME destroy PROVE TypeOK'
  <2>1. QueuedConns \subseteq Conns
    BY ElementOfSeq DEF QueuedConns
  <2> QED BY <1>2, <2>1, EmptySeq DEF destroy
<1>3. ASSUME NEW c \in Conns, peer_connect(c) PROVE TypeOK'
  BY <1>3, AppendProperties DEF peer_connect, serverVars, PeerStates
<1>4. ASSUME NEW c \in Conns, peer_send(c) PROVE TypeOK'
  <2>1. inbox[c] + 1 \in 0..MAX_MSGS
    BY <1>4, ConstantsAssumption DEF peer_send
  <2> QED BY <1>4, <2>1 DEF peer_send, serverVars, kernelVars
<1>5. ASSUME NEW c \in Conns, peer_leave(c) PROVE TypeOK'
  BY <1>5 DEF peer_leave, serverVars, kernelVars, PeerStates
<1>6. ASSUME epoll_wait PROVE TypeOK'
  <2>1. ReadyEvents \subseteq Event \cup {ListenEvent}
    BY ReadyFacts
  <2> QED BY <1>6, <2>1 DEF epoll_wait, connVars
<1>7. ASSUME NEW e \in event, dispatch_hangup(e) \/ dispatch_error(e) PROVE TypeOK'
  <2>1. e # ListenEvent
    BY <1>7 DEF dispatch_hangup, HangUp, dispatch_error, ListenEvent
  <2>2. e.fd \in Fds /\ owner[e.fd] \in Conns
    BY <2>1, EntryFacts
  <2>3. owner' \in [Fds -> Conns \cup {None}] /\ watched' \subseteq Fds /\ released' \subseteq Conns
    BY <1>7, <2>2 DEF dispatch_hangup, HangUp, dispatch_error, close_client
  <2> QED BY <1>7, <2>3 DEF dispatch_hangup, HangUp, dispatch_error
<1>8. ASSUME NEW e \in event, deal_client_msg(e) PROVE TypeOK'
  <2>1. e # ListenEvent /\ owner[e.fd] \in Conns /\ inbox[owner[e.fd]] > 0
    BY <1>8, EntryFacts DEF deal_client_msg, ReadMsgs, ListenEvent, BatchFresh
  <2>2. inbox[owner[e.fd]] - 1 \in 0..MAX_MSGS
    BY <2>1, ConstantsAssumption
  <2> QED BY <1>8, <2>2 DEF deal_client_msg, ReadMsgs, kernelVars
<1>9. ASSUME dispatch_listen PROVE TypeOK'
  BY <1>9 DEF dispatch_listen, kernelVars, connVars
<1>10. ASSUME accept_client PROVE TypeOK'
  BY <1>10, TailElems DEF accept_client, AcceptOne, serverVars, connVars
<1>11. ASSUME accept_unwatchable PROVE TypeOK'
  <2>1. Head(backlog) \in Conns /\ Tail(backlog) \in Seq(Conns)
    BY <1>11, HeadTailProperties DEF accept_unwatchable
  <2>2. backlog' \in Seq(Conns) /\ refused' \subseteq Conns
    BY <1>11, <2>1 DEF accept_unwatchable
  <2> QED BY <1>11, <2>2 DEF accept_unwatchable
<1>12. ASSUME accept_drained \/ accept_failed PROVE TypeOK'
  BY <1>12 DEF accept_drained, accept_failed, kernelVars, connVars
<1>13. ASSUME UNCHANGED vars PROVE TypeOK'
  BY <1>13 DEF vars, serverVars, kernelVars, connVars
<1> QED
  BY <1>1, <1>2, <1>3, <1>4, <1>5, <1>6, <1>7, <1>8, <1>9, <1>10, <1>11, <1>12, <1>13
  DEF Next, listen_loop, accept_new_client, Peers

(* A step that adds nothing to the batch keeps an entry fresh if it leaves *)
(* its descriptor, its connection and its unread messages alone.           *)
LEMMA BatchStep ==
  ASSUME IInv, [Next]_vars
  PROVE  BatchFresh' /\ MaskHolds'
<1> DEFINE Kept == \A e \in event' : e # ListenEvent =>
                     /\ e \in event
                     /\ e.fd \in watched'
                     /\ owner'[e.fd] = owner[e.fd]
                     /\ e.what = "in" => inbox'[e.conn] >= inbox[e.conn]
                     /\ peer[e.conn] \in {"fin", "err"} => peer'[e.conn] = peer[e.conn]
<1>a. ASSUME event' \subseteq event, Kept PROVE BatchFresh' /\ MaskHolds'
  <2>1. \A e \in event : e # ListenEvent =>
          e.conn \in Conns /\ inbox[e.conn] \in Nat /\ inbox'[e.conn] \in Nat
    BY EntryFacts, TypeStep, ConstantsAssumption DEF IInv, TypeOK
  <2>2. BatchFresh'
    BY <1>a, <2>1 DEF IInv, BatchFresh
  <2>3. MaskHolds'
    BY <1>a DEF IInv, MaskHolds
  <2> QED BY <2>2, <2>3
<1>b. ASSUME event' \subseteq event, UNCHANGED <<owner, watched, peer, inbox>>
      PROVE  BatchFresh' /\ MaskHolds'
  <2>1. \A e \in event : e # ListenEvent => inbox[e.conn] \in Nat
    BY EntryFacts, ConstantsAssumption DEF IInv, TypeOK
  <2>2. Kept
    BY <1>b, <2>1 DEF IInv, BatchFresh
  <2> QED BY <1>a, <1>b, <2>2
<1>1. ASSUME construct PROVE BatchFresh' /\ MaskHolds'
  BY <1>1, <1>b DEF construct, kernelVars, connVars
<1>2. ASSUME destroy PROVE BatchFresh' /\ MaskHolds'
  BY <1>2 DEF destroy, BatchFresh, MaskHolds
<1>3. ASSUME NEW c \in Conns, peer_connect(c) \/ peer_send(c) \/ peer_leave(c)
      PROVE  BatchFresh' /\ MaskHolds'
  <2>1. event' = event /\ UNCHANGED <<owner, watched>>
    BY <1>3 DEF peer_connect, peer_send, peer_leave, serverVars, kernelVars
  <2>2. \A d \in Conns : inbox'[d] >= inbox[d]
    BY <1>3, ConstantsAssumption DEF peer_connect, peer_send, peer_leave, IInv, TypeOK
  <2>3. \A d \in Conns : peer[d] \in {"fin", "err"} => peer'[d] = peer[d]
    BY <1>3 DEF peer_connect, peer_send, peer_leave, IInv, TypeOK
  <2>4. Kept
    BY <2>1, <2>2, <2>3, EntryFacts
  <2> QED BY <1>a, <2>1, <2>4
<1>4. ASSUME epoll_wait PROVE BatchFresh' /\ MaskHolds'
  <2>1. event' \subseteq ReadyEvents /\ UNCHANGED <<owner, watched, peer, inbox>>
    BY <1>4 DEF epoll_wait, connVars
  <2>2. \A e \in event', f \in event' : f.fd = e.fd => f = e
    <3> SUFFICES ASSUME NEW e \in ReadyEvents, NEW f \in ReadyEvents, f.fd = e.fd PROVE f = e
      BY <2>1
    <3>1. \A g \in ReadyEvents : g = ListenEvent \/ g.fd \in Fds
      BY ReadyFacts DEF IInv, TypeOK
    <3>2. ListenEvent.fd \notin Fds
      BY ConstantsAssumption DEF ListenEvent
    <3> QED BY <3>1, <3>2 DEF ReadyEvents
  <2>3. BatchFresh'
    BY <2>1, <2>2, ReadyFacts DEF BatchFresh
  <2>4. MaskHolds'
    BY <2>1, ReadyFacts DEF MaskHolds
  <2> QED BY <2>3, <2>4
<1>5. ASSUME NEW e \in event, dispatch_hangup(e) \/ dispatch_error(e)
      PROVE  BatchFresh' /\ MaskHolds'
  <2>1. e # ListenEvent
    BY <1>5 DEF dispatch_hangup, HangUp, dispatch_error, ListenEvent
  <2>2. /\ event' = event \ {e} /\ UNCHANGED <<peer, inbox>>
        /\ \A fd \in Fds : fd # e.fd => owner'[fd] = owner[fd] /\ (fd \in watched => fd \in watched')
    BY <1>5, <2>1, EntryFacts DEF dispatch_hangup, HangUp, dispatch_error,
        close_client, IInv, TypeOK
  <2>3. \A f \in event' : f # ListenEvent => f.fd # e.fd
    BY <2>1, <2>2 DEF IInv, BatchFresh
  <2>4. \A f \in event' : f # ListenEvent => inbox[f.conn] \in Nat
    BY <2>2, EntryFacts, ConstantsAssumption DEF IInv, TypeOK
  <2>5. Kept
    BY <2>2, <2>3, <2>4, EntryFacts
  <2> QED BY <1>a, <2>2, <2>5
<1>6. ASSUME NEW e \in event, deal_client_msg(e) PROVE BatchFresh' /\ MaskHolds'
  <2>1. e # ListenEvent
    BY <1>6 DEF deal_client_msg, ReadMsgs, ListenEvent
  <2>2. event' = event \ {e} /\ UNCHANGED <<peer, owner, watched>>
    BY <1>6 DEF deal_client_msg, ReadMsgs, kernelVars
  <2>3. \A f \in event' : f # ListenEvent => f.conn # e.conn
    <3> SUFFICES ASSUME NEW f \in event', f # ListenEvent, f.conn = e.conn PROVE FALSE
      OBVIOUS
    <3>1. f \in event /\ f # e /\ f.fd # e.fd
      BY <2>1, <2>2 DEF IInv, BatchFresh
    <3>2. /\ e.fd \in Fds /\ f.fd \in Fds /\ e.conn \in Conns /\ f.conn \in Conns
          /\ owner[e.fd] = e.conn /\ owner[f.fd] = f.conn
      BY <2>1, <3>1, EntryFacts
    <3>3. e.fd \in OpenFds /\ f.fd \in OpenFds
      BY <3>2, ConstantsAssumption DEF OpenFds, FreeFds
    <3> QED BY <3>1, <3>2, <3>3 DEF IInv, OneHome
  <2>4. \A d \in Conns : d # e.conn => inbox'[d] = inbox[d] /\ inbox[d] \in Nat
    BY <1>6, <2>1, EntryFacts, ConstantsAssumption DEF deal_client_msg, ReadMsgs,
        IInv, TypeOK
  <2>5. Kept
    BY <2>2, <2>3, <2>4, EntryFacts
  <2> QED BY <1>a, <2>2, <2>5
<1>7. ASSUME dispatch_listen PROVE BatchFresh' /\ MaskHolds'
  BY <1>7, <1>b DEF dispatch_listen, kernelVars, connVars
<1>8. ASSUME accept_client PROVE BatchFresh' /\ MaskHolds'
  <2>1. PICK fd \in Fds : /\ LowestFree(fd)
                          /\ owner' = [owner EXCEPT ![fd] = Head(backlog)]
                          /\ watched' = watched \cup {fd}
    BY <1>8 DEF accept_client, AcceptOne
  <2>2. event' = event /\ UNCHANGED <<peer, inbox>>
    BY <1>8 DEF accept_client, AcceptOne, serverVars, connVars
  <2>3. \A e \in event : e # ListenEvent => e.fd # fd
    BY <2>1, EntryFacts, ConstantsAssumption DEF LowestFree, FreeFds
  <2>4. \A e \in event : e # ListenEvent => inbox[e.conn] \in Nat
    BY EntryFacts, ConstantsAssumption DEF IInv, TypeOK
  <2>5. Kept
    BY <2>1, <2>2, <2>3, <2>4, EntryFacts DEF IInv, TypeOK
  <2> QED BY <1>a, <2>2, <2>5
<1>9. ASSUME accept_unwatchable \/ accept_drained \/ accept_failed
      PROVE  BatchFresh' /\ MaskHolds'
  BY <1>9, <1>b DEF accept_unwatchable, accept_drained, accept_failed, kernelVars, connVars
<1>10. ASSUME UNCHANGED vars PROVE BatchFresh' /\ MaskHolds'
  BY <1>10, <1>b DEF vars, serverVars, kernelVars, connVars
<1> QED
  BY <1>1, <1>2, <1>3, <1>4, <1>5, <1>6, <1>7, <1>8, <1>9, <1>10
  DEF Next, listen_loop, accept_new_client, Peers

-----------------------------------------------------------------------------
(* The connections: OnlyHangupsClosed and OneHome.                         *)

(* Every step keeps it that only clients that left are closed.             *)
LEMMA ClosedStep ==
  ASSUME IInv, [Next]_vars
  PROVE  OnlyHangupsClosed'
<1>1. \A c \in Conns : peer[c] \in {"fin", "err"} => peer'[c] = peer[c]
  BY DEF Next, listen_loop, accept_new_client, Peers, construct, destroy, peer_connect,
         peer_send, peer_leave, epoll_wait, dispatch_hangup, HangUp, dispatch_error,
         deal_client_msg, ReadMsgs, dispatch_listen, accept_client, AcceptOne,
         accept_unwatchable,
         accept_drained, accept_failed, vars, connVars, IInv, TypeOK
<1>2. CASE released' = released
  BY <1>1, <1>2 DEF OnlyHangupsClosed, IInv, TypeOK
<1>3. CASE \E e \in event : dispatch_hangup(e) \/ dispatch_error(e)
  <2>1. PICK e \in event : dispatch_hangup(e) \/ dispatch_error(e)
    BY <1>3
  <2>2. e # ListenEvent
    BY <2>1 DEF dispatch_hangup, HangUp, dispatch_error, ListenEvent
  <2>3. peer[owner[e.fd]] \in {"fin", "err"} /\ owner[e.fd] \in Conns
    BY <2>1, <2>2, EntryFacts DEF dispatch_hangup, HangUp, dispatch_error, IInv, MaskHolds
  <2>4. released' \subseteq released \cup {owner[e.fd]}
    BY <2>1 DEF dispatch_hangup, HangUp, dispatch_error, close_client
  <2> QED BY <1>1, <2>3, <2>4 DEF OnlyHangupsClosed, IInv, TypeOK
<1> QED
  BY <1>2, <1>3 DEF Next, listen_loop, accept_new_client, Peers, construct, destroy,
     peer_connect, peer_send, peer_leave, epoll_wait, deal_client_msg, ReadMsgs,
     dispatch_listen,
     accept_client, AcceptOne, accept_unwatchable, accept_drained, accept_failed,
     vars, connVars

(* Steps that move no connection.                                          *)
LEMMA HomeKept ==
  ASSUME IInv,
         UNCHANGED <<owner, watched, backlog, released, refused>>,
         life' = "running" => watched = OpenFds,
         \A c \in Conns : peer[c] # "new" => peer'[c] # "new"
  PROVE  OneHome'
<1>1. UNCHANGED <<OpenFds, QueuedConns, ServedConns>>
  BY DEF OpenFds, FreeFds, QueuedConns, ServedConns
<1>2. QueuedConns \cup ServedConns \cup released \cup refused \subseteq Conns
  BY ElementOfSeq DEF IInv, TypeOK, QueuedConns, ServedConns, OpenFds, FreeFds
<1> QED
  BY <1>1, <1>2 DEF IInv, OneHome

(* Every step keeps each connection in one place.                          *)
LEMMA HomeStep ==
  ASSUME IInv, [Next]_vars
  PROVE  OneHome'
<1>a. /\ QueuedConns \subseteq Conns /\ ServedConns \subseteq Conns
      /\ released \subseteq Conns /\ refused \subseteq Conns
  BY ElementOfSeq DEF IInv, TypeOK, QueuedConns, ServedConns, OpenFds, FreeFds
<1>1. ASSUME construct PROVE OneHome'
  <2>1. watched = {} /\ OpenFds = {}
    BY <1>1 DEF construct, IInv, AtRest, OpenFds, FreeFds
  <2> QED BY <1>1, <2>1, HomeKept DEF construct, kernelVars, connVars
<1>2. ASSUME destroy PROVE OneHome'
  <2>1. UNCHANGED <<OpenFds, ServedConns, released, peer>>
    BY <1>2 DEF destroy, OpenFds, FreeFds, ServedConns
  <2>2. QueuedConns' = {} /\ backlog' = <<>> /\ refused' = refused \cup QueuedConns
    BY <1>2, EmptySeq DEF destroy, QueuedConns
  <2>3. \A i, j \in 1..Len(backlog') : backlog'[i] = backlog'[j] => i = j
    BY <2>2, EmptySeq
  <2> QED BY <1>2, <2>1, <2>2, <2>3 DEF destroy, IInv, OneHome
<1>3. ASSUME NEW c \in Conns, peer_connect(c) PROVE OneHome'
  <2>1. UNCHANGED <<life, watched, owner, released, refused, OpenFds, ServedConns>>
    BY <1>3 DEF peer_connect, serverVars, OpenFds, FreeFds, ServedConns
  <2>2. /\ backlog \in Seq(Conns) /\ backlog' = Append(backlog, c)
        /\ QueuedConns' = QueuedConns \cup {c}
    <3>1. backlog \in Seq(Conns) /\ backlog' = Append(backlog, c)
      BY <1>3 DEF peer_connect, IInv, TypeOK
    <3> QED BY <3>1, AppendElems DEF QueuedConns
  <2>3. c \notin QueuedConns \cup ServedConns \cup released \cup refused
    BY <1>3 DEF peer_connect, IInv, OneHome
  <2>4. \A i, j \in 1..Len(backlog') : backlog'[i] = backlog'[j] => i = j
    <3>1. /\ Len(backlog) \in Nat /\ Len(backlog') = Len(backlog) + 1
          /\ backlog'[Len(backlog) + 1] = c
          /\ \A i \in 1..Len(backlog) : backlog'[i] = backlog[i] /\ backlog[i] # c
      BY <2>2, <2>3, AppendElems, LenProperties DEF QueuedConns
    <3> QED BY <3>1 DEF IInv, OneHome
  <2>5. \A d \in Conns : d = c \/ peer[d] # "new" => peer'[d] # "new"
    BY <1>3 DEF peer_connect, IInv, TypeOK
  <2> QED BY <1>a, <2>1, <2>2, <2>3, <2>4, <2>5 DEF IInv, OneHome
<1>4. ASSUME NEW c \in Conns, peer_send(c) \/ peer_leave(c) PROVE OneHome'
  <2>1. /\ UNCHANGED <<owner, watched, backlog, released, refused, life>>
        /\ \A d \in Conns : peer[d] # "new" => peer'[d] # "new"
    BY <1>4 DEF peer_send, peer_leave, serverVars, kernelVars, IInv, TypeOK
  <2> QED BY <2>1, HomeKept DEF IInv, OneHome
<1>5. ASSUME epoll_wait \/ dispatch_listen \/ accept_drained \/ accept_failed
             \/ (\E e \in event : deal_client_msg(e)) \/ UNCHANGED vars
      PROVE  OneHome'
  <2>1. UNCHANGED <<owner, watched, backlog, released, refused, life, peer>>
    BY <1>5 DEF epoll_wait, dispatch_listen, accept_drained, accept_failed,
        deal_client_msg, ReadMsgs,
       vars, serverVars, kernelVars, connVars
  <2> QED BY <2>1, HomeKept DEF IInv, OneHome
<1>6. ASSUME NEW e \in event, dispatch_hangup(e) \/ dispatch_error(e) PROVE OneHome'
  <2>1. e # ListenEvent
    BY <1>6 DEF dispatch_hangup, HangUp, dispatch_error, ListenEvent
  <2>2. UNCHANGED <<life, backlog, peer, refused, QueuedConns>>
    BY <1>6 DEF dispatch_hangup, HangUp, dispatch_error, QueuedConns
  <2>3. CASE e.fd <= 2
    BY <1>6, <2>2, <2>3, HomeKept
    DEF dispatch_hangup, HangUp, dispatch_error, close_client, IInv, OneHome
  <2>4. CASE ~ (e.fd <= 2)
    <3>1. /\ watched' = watched \ {e.fd}
          /\ owner' = [owner EXCEPT ![e.fd] = None]
          /\ released' = released \cup {owner[e.fd]}
      BY <1>6, <2>4 DEF dispatch_hangup, HangUp, dispatch_error, close_client
    <3>2. e.fd \in Fds /\ owner[e.fd] \in Conns /\ life = "running"
      BY <2>1, EntryFacts
    <3>3. e.fd \in OpenFds /\ owner[e.fd] \in ServedConns
      BY <3>2, ConstantsAssumption DEF OpenFds, FreeFds, ServedConns
    <3>4. /\ OpenFds' = OpenFds \ {e.fd}
          /\ \A fd \in OpenFds' : owner'[fd] = owner[fd]
      BY <3>1, <3>2 DEF OpenFds, FreeFds, IInv, TypeOK
    <3>5. ServedConns' = ServedConns \ {owner[e.fd]}
      BY <3>3, <3>4 DEF ServedConns, IInv, OneHome
    <3> QED BY <1>a, <2>2, <3>1, <3>3, <3>4, <3>5 DEF IInv, OneHome
  <2> QED BY <2>3, <2>4
<1>7. ASSUME accept_client PROVE OneHome'
  <2>1. PICK fd \in Fds : /\ LowestFree(fd)
                          /\ owner' = [owner EXCEPT ![fd] = Head(backlog)]
                          /\ watched' = watched \cup {fd}
    BY <1>7 DEF accept_client, AcceptOne
  <2>2. /\ backlog \in Seq(Conns) /\ backlog # <<>> /\ backlog' = Tail(backlog)
        /\ UNCHANGED <<life, peer, released, refused>>
    BY <1>7 DEF accept_client, AcceptOne, serverVars, connVars, IInv, TypeOK
  <2>3. /\ Head(backlog) \in QueuedConns /\ Head(backlog) \in Conns
        /\ QueuedConns' \subseteq QueuedConns /\ Head(backlog) \notin QueuedConns'
    BY <2>2, TailElems DEF QueuedConns, IInv, OneHome
  <2>4. \A i, j \in 1..Len(backlog') : backlog'[i] = backlog'[j] => i = j
    BY <2>2, TailElems, LenProperties DEF IInv, OneHome
  <2>5. /\ OpenFds' = OpenFds \cup {fd} /\ fd \notin OpenFds
        /\ owner'[fd] = Head(backlog)
        /\ \A other \in OpenFds : owner'[other] = owner[other]
    BY <2>1, <2>3, ConstantsAssumption DEF LowestFree, OpenFds, FreeFds, IInv, TypeOK
  <2>6. ServedConns' = ServedConns \cup {Head(backlog)}
    BY <2>5 DEF ServedConns
  <2>7. \A f, g \in OpenFds' : owner'[f] = owner'[g] => f = g
    <3>1. \A f \in OpenFds : owner[f] # Head(backlog)
      BY <2>3 DEF ServedConns, IInv, OneHome
    <3> QED BY <2>5, <3>1 DEF IInv, OneHome
  <2> QED BY <1>a, <2>1, <2>2, <2>3, <2>4, <2>5, <2>6, <2>7 DEF IInv, OneHome
<1>8. ASSUME accept_unwatchable PROVE OneHome'
  <2>1. UNCHANGED <<life, watched, owner, released, peer, OpenFds, ServedConns>>
    BY <1>8 DEF accept_unwatchable, OpenFds, FreeFds, ServedConns
  <2>2. /\ backlog \in Seq(Conns) /\ backlog # <<>> /\ backlog' = Tail(backlog)
        /\ refused' = refused \cup {Head(backlog)}
    BY <1>8 DEF accept_unwatchable, IInv, TypeOK
  <2>3. /\ Head(backlog) \in QueuedConns
        /\ QueuedConns' \subseteq QueuedConns /\ Head(backlog) \notin QueuedConns'
    BY <2>2, TailElems DEF QueuedConns, IInv, OneHome
  <2>4. \A i, j \in 1..Len(backlog') : backlog'[i] = backlog'[j] => i = j
    BY <2>2, TailElems, LenProperties DEF IInv, OneHome
  <2> QED BY <1>a, <2>1, <2>2, <2>3, <2>4 DEF IInv, OneHome
<1> QED
  BY <1>1, <1>2, <1>3, <1>4, <1>5, <1>6, <1>7, <1>8
  DEF Next, listen_loop, accept_new_client, Peers

-----------------------------------------------------------------------------
(* The loop and the listen queue: AtRest and EdgeOrError.                  *)

(* The loop works only while the object lives.                             *)
LEMMA RestStep ==
  ASSUME IInv, [Next]_vars
  PROVE  AtRest'
<1>1. CASE construct
  BY <1>1 DEF construct, kernelVars, connVars, IInv, AtRest
<1>2. CASE destroy
  BY <1>2 DEF destroy, IInv, AtRest
<1>3. CASE \E c \in Conns : peer_connect(c) \/ peer_send(c) \/ peer_leave(c)
  BY <1>3 DEF peer_connect, peer_send, peer_leave, serverVars, kernelVars, IInv, AtRest
<1>4. CASE listen_loop
  <2>1. life = "running"
    BY <1>4 DEF listen_loop, accept_new_client, epoll_wait, dispatch_hangup, HangUp,
        dispatch_error,
       deal_client_msg, ReadMsgs, dispatch_listen, Dispatching, accept_client,
       AcceptOne, accept_unwatchable,
       accept_drained, accept_failed, IInv, AtRest
  <2>2. life' = life
    BY <1>4 DEF listen_loop, accept_new_client, epoll_wait, dispatch_hangup, HangUp,
        dispatch_error,
       deal_client_msg, ReadMsgs, dispatch_listen, accept_client, AcceptOne,
       accept_unwatchable,
       accept_drained, accept_failed, serverVars
  <2> QED BY <2>1, <2>2 DEF AtRest
<1>5. CASE UNCHANGED vars
  BY <1>5 DEF vars, serverVars, kernelVars, IInv, AtRest
<1> QED
  BY <1>1, <1>2, <1>3, <1>4, <1>5 DEF Next, Peers

(* A connection enters the queue with an edge; the edge becomes an event,  *)
(* the event an accept loop, and the loop ends with an empty queue or an   *)
(* exception.                                                              *)
LEMMA EdgeStep ==
  ASSUME IInv, [Next]_vars
  PROVE  EdgeOrError'
<1> USE DEF EdgeOrError, AcceptOwed
<1>1. CASE construct \/ (\E c \in Conns : peer_send(c) \/ peer_leave(c)) \/ UNCHANGED vars
  BY <1>1 DEF construct, peer_send, peer_leave, vars, serverVars, kernelVars, connVars, IInv
<1>2. CASE destroy
  BY <1>2 DEF destroy
<1>3. CASE \E c \in Conns : peer_connect(c)
  BY <1>3 DEF peer_connect
<1>4. CASE epoll_wait
  <2>1. event = {} /\ ~accepting /\ UNCHANGED <<accepting, acceptErr, backlog>>
    BY <1>4 DEF epoll_wait
  <2>2. edge' = (edge /\ backlog # <<>> /\ ListenEvent \notin event')
    BY <1>4 DEF epoll_wait
  <2> QED BY <2>1, <2>2 DEF IInv
<1>5. CASE \E e \in event : dispatch_hangup(e) \/ dispatch_error(e) \/ deal_client_msg(e)
  <2>1. PICK e \in event : dispatch_hangup(e) \/ dispatch_error(e) \/ deal_client_msg(e)
    BY <1>5
  <2>2. e # ListenEvent
    BY <2>1 DEF dispatch_hangup, HangUp, dispatch_error, deal_client_msg, ReadMsgs,
        ListenEvent
  <2>3. event' = event \ {e} /\ UNCHANGED <<accepting, acceptErr, backlog, edge>>
    BY <2>1 DEF dispatch_hangup, HangUp, dispatch_error, deal_client_msg, ReadMsgs,
        kernelVars
  <2> QED BY <2>2, <2>3 DEF IInv
<1>6. CASE dispatch_listen
  BY <1>6 DEF dispatch_listen
<1>7. CASE accept_client
  BY <1>7 DEF accept_client, AcceptOne, serverVars
<1>8. CASE accept_unwatchable \/ accept_failed
  BY <1>8 DEF accept_unwatchable, accept_failed
<1>9. CASE accept_drained
  BY <1>9 DEF accept_drained, kernelVars
<1> QED
  BY <1>1, <1>2, <1>3, <1>4, <1>5, <1>6, <1>7, <1>8, <1>9
  DEF Next, listen_loop, accept_new_client, Peers

-----------------------------------------------------------------------------
(* IInv holds in every state the reactor reaches.                          *)
THEOREM Invariance == Spec => []IInv
<1>1. IInv /\ [Next]_vars => IInv'
  BY TypeStep, BatchStep, ClosedStep, HomeStep, RestStep, EdgeStep DEF IInv
<1> QED
  BY InitIInv, <1>1, PTL DEF Spec

(* The variables keep their types; in particular a readiness event always  *)
(* finds a message, so the count of unread ones never goes below zero.     *)
THEOREM TypeCorrect == Spec => []TypeOK
<1>1. IInv => TypeOK
  BY DEF IInv
<1> QED
  BY Invariance, <1>1, PTL

(* An entry of the batch still names the open, readable connection it was  *)
(* filled in for when listen_loop comes to it, whatever was closed and     *)
(* accepted before it in the same batch.                                   *)
THEOREM BatchAlwaysFresh == Spec => []BatchFresh
<1>1. IInv => BatchFresh
  BY DEF IInv
<1> QED
  BY Invariance, <1>1, PTL

(* close_client never cuts off a client that did not leave.                *)
THEOREM NoLiveClientClosed == Spec => []OnlyHangupsClosed
<1>1. IInv => OnlyHangupsClosed
  BY DEF IInv
<1> QED
  BY Invariance, <1>1, PTL

(* No connection is lost between the queue, the descriptor table and the   *)
(* interest list, and none is in two places.                               *)
THEOREM EveryConnectionHasOneHome == Spec => []OneHome
<1>1. IInv => OneHome
  BY DEF IInv
<1> QED
  BY Invariance, <1>1, PTL

(* A queue left without an edge is always the work of a failed accept.     *)
THEOREM EdgeLostOnlyByError == Spec => []EdgeOrError
<1>1. IInv => EdgeOrError
  BY DEF IInv
<1> QED
  BY Invariance, <1>1, PTL
=============================================================================
