--------------------------- MODULE HttpServer_proofs ---------------------------
(***************************************************************************)
(* The safety invariants of the worker pool, for every number of workers   *)
(* and requests, and the refinement of RequestPool.                        *)
(***************************************************************************)
EXTENDS HttpServer, SequenceTheorems, QueueLemmas, FiniteSetTheorems, TLAPS

-----------------------------------------------------------------------------
(* The constructor has not begun: nothing holds anything.                  *)
LEMMA InitIInv == Init => IInv
<1> SUFFICES ASSUME Init PROVE IInv
  OBVIOUS
<1>1. request_queue \in Seq(Requests) /\ Len(request_queue) = 0
  BY EmptySeq DEF Init
<1>2. pc \in [Workers -> WorkerPoints] /\ request \in [Workers -> Requests \cup {None}]
  BY DEF Init, WorkerPoints
<1>3. TypeOK
  BY <1>1, <1>2 DEF Init, TypeOK, ReactorPoints
<1>4. \A p \in WorkerPoints \ {"unborn"} : At(p) = {}
  BY DEF Init, At
<1>5. Holding = {} /\ Queued = {} /\ InHand = {} /\ At("waiting") = {} /\ At("dozing") = {}
  BY <1>1, <1>4 DEF Holding, Queued, InHand, WorkerPoints
<1>6. MutexInv /\ NoIdleWhileQueued
  BY <1>5 DEF MutexInv, NoIdleWhileQueued
<1>7. Phases /\ MissedOnlyInWindow
  BY DEF Init, Phases, MissedOnlyInWindow
<1>8. EachOnce
  BY <1>1, <1>5, ServerAssumption DEF Init, EachOnce, Held, At
<1> QED
  BY <1>3, <1>6, <1>7, <1>8 DEF IInv

-----------------------------------------------------------------------------
(* Every step keeps the types.                                             *)
LEMMA TypeStep ==
  ASSUME IInv, [Next]_vars
  PROVE  TypeOK'
<1> USE DEF IInv, TypeOK, workerVars, reactorVars, clientVars, workerKeeps, Go
<1>1. ASSUME NEW w \in Workers,
             start_worker(w) \/ loop_test(w) \/ lock(w) \/ quit(w) \/ doze(w) \/ wait(w)
               \/ wake_spuriously(w)
      PROVE  TypeOK'
  BY <1>1 DEF start_worker, loop_test, lock, quit, doze, wait, wake_spuriously,
     WorkerPoints, ReactorPoints
<1>2. ASSUME NEW w \in Workers, take(w) PROVE TypeOK'
  <2>1. Head(request_queue) \in Requests /\ Tail(request_queue) \in Seq(Requests)
    BY <1>2, HeadTailProperties DEF take
  <2> QED BY <1>2, <2>1 DEF take, WorkerPoints
<1>3. ASSUME NEW w \in Workers, handle_request(w) PROVE TypeOK'
  <2>1. request[w] \in Requests
    BY <1>3 DEF handle_request, EachOnce
  <2> QED BY <1>3, <2>1 DEF handle_request, WorkerPoints
<1>4. ASSUME NEW w \in Workers, handle_escaped(w) PROVE TypeOK'
  BY <1>4 DEF handle_escaped
<1>5. ASSUME NEW r \in Requests, client_send(r) \/ recv_begin(r) \/ close_client(r)
      PROVE  TypeOK'
  BY <1>5 DEF client_send, recv_begin, close_client, Unread, ReactorPoints
<1>6. ASSUME recv_end PROVE TypeOK'
  <2>1. incoming \in Requests
    BY <1>6 DEF recv_end, Phases
  <2>2. lost' \subseteq Requests
    BY <1>6 DEF recv_end, Unread
  <2> QED BY <1>6, <2>1, <2>2 DEF recv_end, ReactorPoints
<1>7. ASSUME push PROVE TypeOK'
  <2>1. incoming \in Requests
    BY <1>7 DEF push, PushAs, Phases
  <2>2. Append(request_queue, incoming) \in Seq(Requests)
    BY <2>1, AppendProperties
  <2> QED BY <1>7, <2>2 DEF push, PushAs, ReactorPoints
<1>8. ASSUME notify_one PROVE TypeOK'
  <2>1. pc' \in [Workers -> WorkerPoints]
    BY <1>8 DEF notify_one, WorkerPoints, At
  <2> QED BY <1>8, <2>1 DEF notify_one, ReactorPoints
<1>9. ASSUME construct_failed \/ signal_handler \/ stop_store \/ stop_join PROVE TypeOK'
  BY <1>9 DEF construct_failed, signal_handler, stop_store, stop_join, ReactorPoints
<1>10. ASSUME stop_notify PROVE TypeOK'
  <2>1. pc' \in [Workers -> WorkerPoints] /\ missed' \subseteq Workers
    BY <1>10 DEF stop_notify, WorkerPoints, At
  <2> QED BY <1>10, <2>1 DEF stop_notify, ReactorPoints
<1>11. ASSUME UNCHANGED vars PROVE TypeOK'
  BY <1>11 DEF vars
<1> QED
  BY <1>1, <1>2, <1>3, <1>4, <1>5, <1>6, <1>7, <1>8, <1>9, <1>10, <1>11
  DEF Next, process_requests, listen_loop, deal_client_msg, stop

-----------------------------------------------------------------------------
(* The points of the workers after a step of one of them.                  *)
LEMMA MovePoint ==
  ASSUME TypeOK, NEW w \in Workers, NEW p \in WorkerPoints, Go(w, p),
         NEW q \in WorkerPoints
  PROVE  /\ At(q)' = IF q = p THEN At(q) \cup {w} ELSE At(q) \ {w}
         /\ \A v \in Workers : v # w => pc'[v] = pc[v]
         /\ pc'[w] = p
  BY DEF TypeOK, Go, At

(* The sets of workers that are finite, and how one more or one less       *)
(* counts.                                                                 *)
LEMMA CountAwake ==
  ASSUME NEW S \in SUBSET Workers, NEW w
  PROVE  /\ IsFiniteSet(S) /\ Cardinality(S) \in Nat
         /\ w \notin S => Cardinality(S \cup {w}) = Cardinality(S) + 1
         /\ w \in S => Cardinality(S \ {w}) = Cardinality(S) - 1
<1>1. IsFiniteSet(S)
  BY FS_Subset, ServerAssumption
<1> QED
  BY <1>1, FS_CardinalityType, FS_AddElement, FS_RemoveElement

(* The reactor's place and what it has set move together.                  *)
LEMMA PhaseStep ==
  ASSUME IInv, [Next]_vars
  PROVE  Phases'
<1> USE DEF IInv, Phases
<1>1. CASE UNCHANGED <<stop_flag, reactor, incoming>>
  BY <1>1
<1>2. CASE \E w \in Workers : start_worker(w)
  BY <1>2 DEF start_worker
<1>3. CASE construct_failed \/ notify_one \/ push \/ stop_store \/ stop_notify \/ stop_join
  BY <1>3 DEF construct_failed, notify_one, push, PushAs, stop_store, stop_notify, stop_join
<1>4. CASE \E r \in Requests : recv_begin(r)
  BY <1>4, ServerAssumption DEF recv_begin
<1>5. CASE recv_end
  BY <1>5 DEF recv_end
<1> QED
  BY <1>1, <1>2, <1>3, <1>4, <1>5
  DEF Next, process_requests, listen_loop, deal_client_msg, stop, vars, workerKeeps, reactorVars,
      client_send, close_client, signal_handler, loop_test, lock, take, quit, doze,
      wait, wake_spuriously, handle_request, handle_escaped

(* Only lock enters the critical section, and only push fills the queue.   *)
LEMMA MutexStep ==
  ASSUME IInv, [Next]_vars
  PROVE  MutexInv'
<1> USE DEF IInv, MutexInv
<1>a. ASSUME Holding' \subseteq Holding, At("dozing")' \subseteq At("dozing"),
             request_queue' = request_queue
      PROVE  MutexInv'
  BY <1>a
<1>b. ASSUME UNCHANGED <<pc, request_queue>> PROVE MutexInv'
  BY <1>a, <1>b DEF Holding, At
<1>1. ASSUME NEW w \in Workers,
             start_worker(w) \/ loop_test(w) \/ wake_spuriously(w) \/ handle_request(w)
      PROVE  MutexInv'
  <2>1. request_queue' = request_queue
        /\ (Go(w, "loop") \/ Go(w, "lock") \/ Go(w, "exited"))
    BY <1>1 DEF start_worker, loop_test, wake_spuriously, handle_request
  <2>2. Holding' \subseteq Holding /\ At("dozing")' \subseteq At("dozing")
    BY <2>1, MovePoint DEF Holding, WorkerPoints
  <2> QED BY <1>a, <2>1, <2>2
<1>2. ASSUME NEW w \in Workers, lock(w) PROVE MutexInv'
  <2>1. Holding = {} /\ Go(w, "locked") /\ request_queue' = request_queue
    BY <1>2 DEF lock
  <2>2. Holding' = {w} /\ At("dozing")' = {}
    BY <2>1, MovePoint DEF Holding, WorkerPoints
  <2> QED BY <2>2
<1>3. ASSUME NEW w \in Workers, take(w) PROVE MutexInv'
  <2>1. w \in Holding /\ w \notin At("dozing") /\ Go(w, "handle")
    BY <1>3 DEF take, Holding, At
  <2>2. At("dozing") = {}
    BY <2>1 DEF Holding
  <2>3. Holding' = {} /\ At("dozing")' = {}
    BY <2>1, <2>2, MovePoint DEF Holding, WorkerPoints
  <2> QED BY <2>3
<1>4. ASSUME NEW w \in Workers, quit(w) \/ wait(w) PROVE MutexInv'
  <2>1. request_queue' = request_queue /\ (Go(w, "exited") \/ Go(w, "waiting"))
    BY <1>4 DEF quit, wait
  <2>2. Holding' \subseteq Holding /\ At("dozing")' \subseteq At("dozing")
    BY <2>1, MovePoint DEF Holding, WorkerPoints
  <2> QED BY <1>a, <2>1, <2>2
<1>5. ASSUME NEW w \in Workers, doze(w) PROVE MutexInv'
  <2>1. w \in Holding /\ Go(w, "dozing") /\ request_queue' = <<>>
    BY <1>5 DEF doze, Holding, At
  <2>2. Holding' \subseteq Holding
    BY <2>1, MovePoint DEF Holding, WorkerPoints
  <2> QED BY <2>1, <2>2
<1>6. ASSUME push PROVE MutexInv'
  <2>1. Holding' = {} /\ At("dozing")' = {}
    BY <1>6 DEF push, PushAs, workerVars, Holding, At
  <2> QED BY <2>1
<1>7. ASSUME notify_one \/ stop_notify PROVE MutexInv'
  <2>1. Holding' \subseteq Holding /\ At("dozing")' \subseteq At("dozing")
    BY <1>7 DEF notify_one, stop_notify, Go, Holding, At, TypeOK
  <2>2. request_queue' = request_queue
    BY <1>7 DEF notify_one, stop_notify
  <2> QED BY <1>a, <2>1, <2>2
<1> QED
  BY <1>b, <1>1, <1>2, <1>3, <1>4, <1>5, <1>6, <1>7
  DEF Next, process_requests, listen_loop, deal_client_msg, stop, vars, workerVars, construct_failed,
      client_send, signal_handler, close_client, recv_begin, recv_end, stop_store,
      stop_join, handle_escaped

(* After notify_all nobody begins to wait, except who was about to.        *)
LEMMA MissedStep ==
  ASSUME IInv, [Next]_vars
  PROVE  MissedOnlyInWindow'
<1> USE DEF IInv, MissedOnlyInWindow
<1>a. ASSUME UNCHANGED <<reactor, missed>>,
             \A w \in Workers : pc'[w] \in {"dozing", "waiting"} =>
                                  reactor # "join" \/ pc[w] \in {"dozing", "waiting"}
      PROVE  MissedOnlyInWindow'
  BY <1>a
<1>1. ASSUME NEW w \in Workers,
             loop_test(w) \/ lock(w) \/ take(w) \/ quit(w) \/ wake_spuriously(w)
               \/ handle_request(w) \/ handle_escaped(w)
      PROVE  MissedOnlyInWindow'
  <2>1. UNCHANGED <<reactor, missed>>
    BY <1>1 DEF loop_test, lock, take, quit, wake_spuriously, handle_request,
       handle_escaped, workerKeeps, reactorVars
  <2>2. \A v \in Workers : pc'[v] \in {"dozing", "waiting"} => pc[v] \in {"dozing", "waiting"}
    BY <1>1 DEF loop_test, lock, take, quit, wake_spuriously, handle_request,
       handle_escaped, workerVars, Go, TypeOK
  <2> QED BY <1>a, <2>1, <2>2
<1>2. ASSUME NEW w \in Workers, doze(w) \/ wait(w) PROVE MissedOnlyInWindow'
  <2>1. UNCHANGED <<reactor, missed>>
    BY <1>2 DEF doze, wait, workerKeeps, reactorVars
  <2>2. \A v \in Workers : pc'[v] \in {"dozing", "waiting"} =>
          reactor # "join" \/ pc[v] \in {"dozing", "waiting"}
    BY <1>2 DEF doze, wait, Go, TypeOK, Phases
  <2> QED BY <1>a, <2>1, <2>2
<1>3. ASSUME stop_notify PROVE MissedOnlyInWindow'
  BY <1>3 DEF stop_notify, At, TypeOK
<1>4. ASSUME NEW r \in Requests, client_send(r) \/ close_client(r) PROVE MissedOnlyInWindow'
  BY <1>4 DEF client_send, close_client, workerVars, reactorVars
<1>5. ASSUME signal_handler \/ UNCHANGED vars PROVE MissedOnlyInWindow'
  BY <1>5 DEF signal_handler, vars, workerVars, reactorVars
<1>6. CASE (\E w \in Workers : start_worker(w)) \/ (\E r \in Requests : recv_begin(r))
  BY <1>6 DEF start_worker, recv_begin
<1>7. CASE recv_end \/ push \/ notify_one \/ stop_store \/ stop_join \/ construct_failed
  BY <1>7 DEF recv_end, push, PushAs, notify_one, stop_store, stop_join, construct_failed
<1> QED
  BY <1>1, <1>2, <1>3, <1>4, <1>5, <1>6, <1>7
  DEF Next, process_requests, listen_loop, deal_client_msg, stop

-----------------------------------------------------------------------------
(* A request moves from the reactor to the queue to a worker to answered,  *)
(* and never back.                                                         *)

(* What is queued or in hand are requests.                                *)
LEMMA Elements ==
  ASSUME IInv
  PROVE  /\ Queued \subseteq Requests
         /\ InHand \subseteq Requests
         /\ \A w \in At("handle") : request[w] \in Requests /\ request[w] \in InHand
         /\ None \notin Queued \cup InHand \cup answered
<1>1. Queued \subseteq Requests
  BY ElementOfSeq DEF IInv, TypeOK, Queued
<1>2. \A w \in At("handle") : request[w] \in Requests /\ request[w] \in InHand
  BY DEF IInv, TypeOK, EachOnce, At, InHand
<1>3. InHand \subseteq Requests
  BY <1>2 DEF InHand
<1> QED
  BY <1>1, <1>2, <1>3, ServerAssumption DEF IInv, TypeOK

(* Only unread requests get lost, and no lost one is read.                 *)
LEMMA LostStep ==
  ASSUME IInv, [Next]_vars
  PROVE  (Held \cap lost = {})'
<1> USE Elements
<1>0. Held \cap lost = {} /\ None \notin lost
  BY ServerAssumption DEF IInv, TypeOK, EachOnce
<1>a. ASSUME Held' \subseteq Held \cup {None}, lost' = lost PROVE (Held \cap lost = {})'
  BY <1>0, <1>a
<1>b. ASSUME UNCHANGED <<pc, request, request_queue, incoming, answered, lost>>
      PROVE  (Held \cap lost = {})'
  BY <1>a, <1>b DEF Held, Queued, InHand, At
<1>1. ASSUME NEW w \in Workers,
             start_worker(w) \/ loop_test(w) \/ lock(w) \/ quit(w) \/ doze(w) \/ wait(w)
               \/ wake_spuriously(w)
      PROVE  (Held \cap lost = {})'
  <2>1. UNCHANGED <<request_queue, request, incoming, answered, lost>>
    BY <1>1 DEF start_worker, loop_test, lock, quit, doze, wait, wake_spuriously,
       workerKeeps, reactorVars, clientVars
  <2>2. At("handle")' = At("handle")
    BY <1>1 DEF start_worker, loop_test, lock, quit, doze, wait, wake_spuriously,
       IInv, TypeOK, Go, At
  <2> QED BY <1>a, <2>1, <2>2 DEF Held, Queued, InHand
<1>2. ASSUME NEW w \in Workers, take(w) PROVE (Held \cap lost = {})'
  <2>1. /\ request_queue # <<>> /\ request_queue' = Tail(request_queue)
        /\ request' = [request EXCEPT ![w] = Head(request_queue)]
        /\ Go(w, "handle") /\ UNCHANGED <<incoming, answered, lost>>
    BY <1>2 DEF take, workerKeeps, reactorVars
  <2>2. /\ Queued' \subseteq Queued
        /\ Head(request_queue) \in Queued
    BY <2>1, TailElems DEF Queued, IInv, TypeOK
  <2>3. \A v \in At("handle")' : v \in Workers /\ (v = w \/ v \in At("handle"))
    BY <2>1 DEF IInv, TypeOK, Go, At
  <2>4. \A v \in Workers : request'[v] = IF v = w THEN Head(request_queue) ELSE request[v]
    BY <2>1 DEF IInv, TypeOK
  <2>5. InHand' \subseteq InHand \cup {Head(request_queue)}
    BY <2>3, <2>4 DEF InHand
  <2> QED BY <1>a, <2>1, <2>2, <2>5 DEF Held
<1>3. ASSUME NEW w \in Workers, handle_request(w) PROVE (Held \cap lost = {})'
  <2>1. /\ w \in At("handle") /\ request' = [request EXCEPT ![w] = None] /\ Go(w, "loop")
        /\ answered' = answered \cup {request[w]}
        /\ UNCHANGED <<request_queue, incoming, lost>>
    BY <1>3 DEF handle_request, workerKeeps, reactorVars, At
  <2>2. \A v \in At("handle")' : v \in At("handle") /\ request'[v] = request[v]
    BY <2>1 DEF IInv, TypeOK, Go, At
  <2>3. InHand' \subseteq InHand /\ request[w] \in InHand
    BY <2>1, <2>2 DEF InHand
  <2> QED BY <1>a, <2>1, <2>3 DEF Held, Queued
<1>4. ASSUME NEW r \in Requests, client_send(r) PROVE (Held \cap lost = {})'
  BY <1>b, <1>4 DEF client_send, workerVars, reactorVars
<1>5. ASSUME NEW r \in Requests, close_client(r) PROVE (Held \cap lost = {})'
  <2>1. r \notin Held /\ lost' = lost \cup {r}
    BY <1>5 DEF close_client, Unread, Held
  <2>2. Held' = Held
    BY <1>5 DEF close_client, workerVars, reactorVars, Held, Queued, InHand, At
  <2> QED BY <1>0, <2>1, <2>2
<1>6. ASSUME NEW r \in Requests, recv_begin(r) PROVE (Held \cap lost = {})'
  <2>1. Held' \subseteq Held \cup {r} /\ lost' = lost /\ r \notin lost
    BY <1>6 DEF recv_begin, Unread, workerVars, clientVars, Held, Queued, InHand, At
  <2> QED BY <1>0, <2>1
<1>7. ASSUME recv_end PROVE (Held \cap lost = {})'
  <2>1. PICK behind \in SUBSET (Unread \cap Pipelined) : lost' = lost \cup behind
    BY <1>7 DEF recv_end
  <2>2. behind \cap Held = {} /\ None \notin behind
    BY <2>1, ServerAssumption DEF Unread, Held, IInv, TypeOK
  <2>3. UNCHANGED <<Queued, InHand>> /\ {incoming'} \cup answered' \subseteq Held \cup {None}
    BY <1>7 DEF recv_end, workerVars, Held, Queued, InHand, At
  <2>4. Held' \subseteq Held \cup {None}
    BY <2>3 DEF Held
  <2> QED BY <1>0, <2>1, <2>2, <2>4
<1>8. ASSUME push PROVE (Held \cap lost = {})'
  <2>1. /\ request_queue' = Append(request_queue, incoming) /\ incoming' = None
        /\ incoming \in Requests /\ UNCHANGED <<pc, request, answered, lost>>
    BY <1>8 DEF push, PushAs, workerVars, clientVars, IInv, Phases, TypeOK
  <2>2. Queued' = Queued \cup {incoming}
    BY <2>1, AppendElems DEF Queued, IInv, TypeOK
  <2>3. InHand' = InHand
    BY <2>1 DEF InHand, At
  <2> QED BY <1>a, <2>1, <2>2, <2>3 DEF Held
<1>9. ASSUME notify_one \/ stop_notify PROVE (Held \cap lost = {})'
  <2>1. UNCHANGED <<request_queue, request, incoming, answered, lost>>
    BY <1>9 DEF notify_one, stop_notify, clientVars
  <2>2. At("handle")' = At("handle")
    BY <1>9 DEF notify_one, stop_notify, IInv, TypeOK, Go, At
  <2> QED BY <1>a, <2>1, <2>2 DEF Held, Queued, InHand
<1>10. ASSUME \/ construct_failed \/ signal_handler \/ stop_store \/ stop_join
              \/ (\E w \in Workers : handle_escaped(w)) \/ UNCHANGED vars
       PROVE  (Held \cap lost = {})'
  BY <1>b, <1>10 DEF construct_failed, signal_handler, stop_store, stop_join,
     handle_escaped, vars, workerVars, reactorVars, clientVars
<1> QED
  BY <1>1, <1>2, <1>3, <1>4, <1>5, <1>6, <1>7, <1>8, <1>9, <1>10
  DEF Next, process_requests, listen_loop, deal_client_msg, stop

(* Every step keeps each request in one place.                             *)
LEMMA OnceStep ==
  ASSUME IInv, [Next]_vars
  PROVE  EachOnce'
<1> USE Elements
<1>z. (Held \cap lost = {})'
  BY LostStep
<1> USE <1>z
<1>a. ASSUME request_queue' = request_queue, request' = request, At("handle")' = At("handle"),
             \/ UNCHANGED <<incoming, answered>>
             \/ incoming' = None /\ answered' = answered \cup {incoming}
                  /\ incoming \in Requests
      PROVE  EachOnce'
  <2>1. Queued' = Queued /\ InHand' = InHand
    BY <1>a DEF Queued, InHand
  <2>2. \A w \in Workers : (pc'[w] = "handle") <=> (pc[w] = "handle")
    BY <1>a DEF At
  <2> QED BY <1>a, <2>1, <2>2, ServerAssumption DEF IInv, EachOnce
<1>b. ASSUME UNCHANGED <<request_queue, request, pc, incoming, answered>> PROVE EachOnce'
  BY <1>a, <1>b DEF At
<1>1. ASSUME NEW w \in Workers,
             start_worker(w) \/ loop_test(w) \/ lock(w) \/ quit(w) \/ doze(w) \/ wait(w)
               \/ wake_spuriously(w)
      PROVE  EachOnce'
  <2>1. UNCHANGED <<request_queue, request, incoming, answered>>
    BY <1>1 DEF start_worker, loop_test, lock, quit, doze, wait, wake_spuriously,
       workerKeeps, reactorVars, clientVars
  <2>2. At("handle")' = At("handle")
    BY <1>1 DEF start_worker, loop_test, lock, quit, doze, wait, wake_spuriously,
       IInv, TypeOK, Go, At
  <2> QED BY <1>a, <2>1, <2>2
<1>2. ASSUME NEW w \in Workers, take(w) PROVE EachOnce'
  <2>1. /\ pc[w] = "locked" /\ request_queue # <<>> /\ request_queue' = Tail(request_queue)
        /\ request' = [request EXCEPT ![w] = Head(request_queue)]
        /\ Go(w, "handle") /\ UNCHANGED <<incoming, answered>>
    BY <1>2 DEF take, workerKeeps, reactorVars
  <2>2. /\ request_queue \in Seq(Requests)
        /\ \A i, j \in 1..Len(request_queue) : request_queue[i] = request_queue[j] => i = j
    BY DEF IInv, TypeOK, EachOnce
  <2>3. /\ \A i, j \in 1..Len(request_queue') : request_queue'[i] = request_queue'[j] => i = j
        /\ Queued' = Queued \ {Head(request_queue)}
        /\ Head(request_queue) \in Queued
    BY <2>1, <2>2, TailDistinct DEF Queued
  <2>4. At("handle")' = At("handle") \cup {w} /\ w \notin At("handle")
    BY <2>1 DEF IInv, TypeOK, Go, At
  <2>5. /\ request'[w] = Head(request_queue)
        /\ \A v \in Workers : v # w => request'[v] = request[v] /\ pc'[v] = pc[v]
        /\ pc'[w] = "handle"
    BY <2>1 DEF IInv, TypeOK, Go
  <2>6. InHand' = InHand \cup {Head(request_queue)}
    BY <2>4, <2>5 DEF InHand, At
  <2>7. \A v \in Workers : (pc'[v] = "handle") <=> (request'[v] # None)
    BY <2>3, <2>5 DEF IInv, EachOnce
  <2>8. \A u, v \in At("handle")' : request'[u] = request'[v] => u = v
    BY <2>3, <2>4, <2>5 DEF IInv, EachOnce, At
  <2>9. Head(request_queue) \notin InHand \cup answered \cup {incoming}
    BY <2>3 DEF IInv, EachOnce
  <2> QED BY <2>1, <2>3, <2>6, <2>7, <2>8, <2>9 DEF IInv, EachOnce
<1>3. ASSUME NEW w \in Workers, handle_request(w) PROVE EachOnce'
  <2>1. /\ pc[w] = "handle" /\ request' = [request EXCEPT ![w] = None] /\ Go(w, "loop")
        /\ answered' = answered \cup {request[w]} /\ UNCHANGED <<request_queue, incoming>>
    BY <1>3 DEF handle_request, workerKeeps, reactorVars
  <2>2. At("handle")' = At("handle") \ {w} /\ w \in At("handle")
    BY <2>1 DEF IInv, TypeOK, Go, At
  <2>3. /\ request'[w] = None /\ pc'[w] # "handle"
        /\ \A v \in Workers : v # w => request'[v] = request[v] /\ pc'[v] = pc[v]
    BY <2>1 DEF IInv, TypeOK, Go
  <2>4. InHand' = InHand \ {request[w]}
    BY <2>2, <2>3 DEF InHand, At, IInv, EachOnce
  <2>5. Queued' = Queued
    BY <2>1 DEF Queued
  <2>6. \A v \in Workers : (pc'[v] = "handle") <=> (request'[v] # None)
    BY <2>3 DEF IInv, EachOnce
  <2>7. \A u, v \in At("handle")' : request'[u] = request'[v] => u = v
    BY <2>2, <2>3 DEF IInv, EachOnce, At
  <2> QED BY <2>1, <2>2, <2>4, <2>5, <2>6, <2>7 DEF IInv, EachOnce
<1>4. ASSUME NEW w \in Workers, handle_escaped(w) PROVE EachOnce'
  BY <1>b, <1>4 DEF handle_escaped, workerVars, reactorVars, clientVars
<1>5. ASSUME NEW r \in Requests, client_send(r) \/ close_client(r) PROVE EachOnce'
  BY <1>b, <1>5 DEF client_send, close_client, workerVars, reactorVars
<1>6. ASSUME NEW r \in Requests, recv_begin(r) PROVE EachOnce'
  <2>1. UNCHANGED <<Queued, InHand, answered, pc, request, request_queue, At("handle")>>
    BY <1>6 DEF recv_begin, workerVars, clientVars, Queued, InHand, At
  <2>2. incoming' \notin Queued \cup InHand \cup answered
    BY <1>6 DEF recv_begin, Unread
  <2> QED BY <2>1, <2>2 DEF IInv, EachOnce
<1>7. ASSUME recv_end PROVE EachOnce'
  <2>1. UNCHANGED <<request_queue, request, pc>> /\ incoming \in Requests
    BY <1>7 DEF recv_end, workerVars, IInv, Phases, TypeOK
  <2>2. \/ UNCHANGED <<incoming, answered>>
        \/ incoming' = None /\ answered' = answered \cup {incoming}
    BY <1>7 DEF recv_end
  <2>3. At("handle")' = At("handle")
    BY <2>1 DEF At
  <2> QED BY <1>a, <2>1, <2>2, <2>3
<1>8. ASSUME push PROVE EachOnce'
  <2>1. /\ request_queue' = Append(request_queue, incoming) /\ incoming' = None
        /\ incoming \in Requests /\ UNCHANGED <<pc, request, answered>>
    BY <1>8 DEF push, PushAs, workerVars, clientVars, IInv, Phases, TypeOK
  <2>2. UNCHANGED <<InHand, At("handle")>>
    BY <2>1 DEF InHand, At
  <2>3. /\ Queued' = Queued \cup {incoming} /\ Len(request_queue) \in Nat
        /\ Len(request_queue') = Len(request_queue) + 1
        /\ request_queue'[Len(request_queue) + 1] = incoming
        /\ \A i \in 1..Len(request_queue) : request_queue'[i] = request_queue[i]
    BY <2>1, AppendElems DEF Queued, IInv, TypeOK
  <2>4. \A i \in 1..Len(request_queue) : request_queue[i] # incoming
    BY DEF IInv, EachOnce, Queued
  <2>5. \A i, j \in 1..Len(request_queue') : request_queue'[i] = request_queue'[j] => i = j
    BY <2>3, <2>4 DEF IInv, EachOnce
  <2>6. \A v \in Workers : (pc'[v] = "handle") <=> (request'[v] # None)
    BY <2>1 DEF IInv, EachOnce
  <2>7. incoming' \notin Queued' \cup InHand' \cup answered'
    BY <2>1, <2>2, <2>3, ServerAssumption
  <2>8. Queued' \cap InHand' = {} /\ (Queued' \cup InHand') \cap answered' = {}
    BY <2>1, <2>2, <2>3 DEF IInv, EachOnce
  <2>9. \A u, v \in At("handle")' : request'[u] = request'[v] => u = v
    BY <2>1, <2>2 DEF IInv, EachOnce
  <2> QED BY <2>5, <2>6, <2>7, <2>8, <2>9 DEF EachOnce
<1>9. ASSUME notify_one \/ stop_notify PROVE EachOnce'
  <2>1. UNCHANGED <<request_queue, request, incoming, answered>>
    BY <1>9 DEF notify_one, stop_notify, clientVars
  <2>2. At("handle")' = At("handle")
    BY <1>9 DEF notify_one, stop_notify, IInv, TypeOK, Go, At
  <2> QED BY <1>a, <2>1, <2>2
<1>10. ASSUME construct_failed \/ signal_handler \/ stop_store \/ stop_join \/ UNCHANGED vars
       PROVE  EachOnce'
  BY <1>b, <1>10 DEF construct_failed, signal_handler, stop_store, stop_join, vars,
     workerVars, reactorVars, clientVars
<1> QED
  BY <1>1, <1>2, <1>3, <1>4, <1>5, <1>6, <1>7, <1>8, <1>9, <1>10
  DEF Next, process_requests, listen_loop, deal_client_msg, stop

-----------------------------------------------------------------------------
(* Every request pushed brings an awake worker or a notification; a worker *)
(* stops being awake only with a request, or with the queue empty.         *)

(* Every step keeps enough workers awake for the queue.                    *)
LEMMA IdleStep ==
  ASSUME IInv, [Next]_vars
  PROVE  NoIdleWhileQueued'
<1> DEFINE Due == IF reactor = "notify" THEN 1 ELSE 0
<1>a. /\ Awake \in SUBSET Workers /\ Awake' \in SUBSET Workers
      /\ Cardinality(Awake) \in Nat /\ Cardinality(Awake') \in Nat
      /\ Due \in Nat /\ Due' \in Nat
      /\ Len(request_queue) \in Nat
  BY CountAwake, LenProperties DEF Awake, At, IInv, TypeOK
<1>b. ASSUME stop_flag' = stop_flag, At("waiting")' \subseteq At("waiting"),
             Len(request_queue') <= Len(request_queue),
             Awake \subseteq Awake', Due' >= Due
      PROVE  NoIdleWhileQueued'
  <2>1. Cardinality(Awake) <= Cardinality(Awake')
    BY <1>a, <1>b, FS_Subset, ServerAssumption
  <2> QED BY <1>a, <1>b, <2>1, TypeStep, LenProperties DEF IInv, NoIdleWhileQueued, TypeOK
<1>c. ASSUME UNCHANGED <<stop_flag, pc, request_queue>>, reactor # "notify"
      PROVE  NoIdleWhileQueued'
  <2>1. UNCHANGED <<Awake, At("waiting")>>
    BY <1>c DEF Awake, At
  <2> QED BY <1>a, <1>b, <1>c, <2>1
<1>1. ASSUME NEW w \in Workers, start_worker(w) \/ handle_request(w) PROVE NoIdleWhileQueued'
  <2>1. Go(w, "loop") /\ UNCHANGED <<stop_flag, request_queue>>
    BY <1>1 DEF start_worker, handle_request, workerKeeps
  <2>2. At("waiting")' \subseteq At("waiting") /\ Awake \subseteq Awake'
    BY <2>1, MovePoint DEF Awake, WorkerPoints, IInv
  <2>3. Due' >= Due
    BY <1>1 DEF start_worker, handle_request, workerKeeps, reactorVars
  <2> QED BY <1>a, <1>b, <2>1, <2>2, <2>3
<1>2. ASSUME NEW w \in Workers, loop_test(w) \/ lock(w) \/ wake_spuriously(w)
      PROVE  NoIdleWhileQueued'
  <2>1. UNCHANGED <<stop_flag, request_queue, reactor>>
    BY <1>2 DEF loop_test, lock, wake_spuriously, workerKeeps, reactorVars
  <2>2. CASE Go(w, "lock") \/ Go(w, "locked")
    <3>1. At("waiting")' \subseteq At("waiting") /\ Awake \subseteq Awake'
      BY <2>2, MovePoint DEF Awake, WorkerPoints, IInv
    <3> QED BY <1>a, <1>b, <2>1, <3>1
  <2>3. CASE stop_flag
    BY <2>1, <2>3 DEF NoIdleWhileQueued
  <2> QED BY <1>2, <2>2, <2>3 DEF loop_test, lock, wake_spuriously
<1>3. ASSUME NEW w \in Workers, take(w) PROVE NoIdleWhileQueued'
  <2>1. /\ pc[w] = "locked" /\ request_queue # <<>> /\ request_queue' = Tail(request_queue)
        /\ Go(w, "handle") /\ UNCHANGED <<stop_flag, reactor>>
    BY <1>3 DEF take, workerKeeps, reactorVars
  <2>2. Len(request_queue') = Len(request_queue) - 1
    BY <2>1, HeadTailProperties DEF IInv, TypeOK
  <2>3. At("waiting")' = At("waiting") \ {w} /\ Awake' = Awake \ {w} /\ w \in Awake
    BY <2>1, MovePoint DEF Awake, WorkerPoints, IInv, At
  <2>4. Cardinality(Awake') = Cardinality(Awake) - 1
    BY <1>a, <2>3, CountAwake
  <2> QED BY <1>a, <2>1, <2>2, <2>3, <2>4 DEF IInv, NoIdleWhileQueued
<1>4. ASSUME NEW w \in Workers, doze(w) \/ wait(w) PROVE NoIdleWhileQueued'
  <2>1. request_queue' = <<>>
    BY <1>4 DEF doze, wait, IInv, MutexInv, At
  <2> QED BY <1>a, <2>1, EmptySeq DEF NoIdleWhileQueued
<1>5. ASSUME NEW w \in Workers, quit(w) PROVE NoIdleWhileQueued'
  BY <1>5 DEF quit, workerKeeps, NoIdleWhileQueued
<1>6. ASSUME push PROVE NoIdleWhileQueued'
  <2>1. /\ reactor = "push" /\ reactor' = "notify" /\ UNCHANGED <<stop_flag, pc>>
        /\ request_queue' = Append(request_queue, incoming) /\ incoming \in Requests
    BY <1>6 DEF push, PushAs, workerVars, IInv, Phases, TypeOK
  <2>2. Len(request_queue') = Len(request_queue) + 1
    BY <2>1, AppendElems DEF IInv, TypeOK
  <2>3. UNCHANGED <<Awake, At("waiting")>>
    BY <2>1 DEF Awake, At
  <2> QED BY <1>a, <2>1, <2>2, <2>3 DEF IInv, NoIdleWhileQueued
<1>7. ASSUME notify_one PROVE NoIdleWhileQueued'
  <2>1. reactor = "notify" /\ reactor' = "idle" /\ UNCHANGED <<stop_flag, request_queue>>
    BY <1>7 DEF notify_one
  <2>2. CASE At("waiting") = {}
    BY <1>7, <2>2 DEF notify_one, At, NoIdleWhileQueued
  <2>3. CASE At("waiting") # {}
    <3>1. PICK w \in At("waiting") : Go(w, "lock")
      BY <1>7, <2>3 DEF notify_one
    <3>2. w \in Workers /\ w \notin Awake
      BY <3>1 DEF At, Awake
    <3>3. Awake' = Awake \cup {w}
      BY <3>1, <3>2, MovePoint DEF Awake, WorkerPoints, IInv
    <3>4. Cardinality(Awake') = Cardinality(Awake) + 1
      BY <1>a, <3>2, <3>3, CountAwake
    <3> QED BY <1>a, <2>1, <2>3, <3>4 DEF IInv, NoIdleWhileQueued
  <2> QED BY <2>2, <2>3
<1>8. ASSUME stop_store \/ stop_notify \/ stop_join PROVE NoIdleWhileQueued'
  BY <1>8 DEF stop_store, stop_notify, stop_join, IInv, Phases, NoIdleWhileQueued
<1>9. ASSUME NEW r \in Requests, recv_begin(r) PROVE NoIdleWhileQueued'
  BY <1>9, <1>c DEF recv_begin, workerVars
<1>10. ASSUME recv_end \/ construct_failed PROVE NoIdleWhileQueued'
  BY <1>10, <1>c DEF recv_end, construct_failed, workerVars
<1>11. ASSUME UNCHANGED <<stop_flag, pc, request_queue, reactor>> PROVE NoIdleWhileQueued'
  <2>1. UNCHANGED <<Awake, At("waiting")>>
    BY <1>11 DEF Awake, At
  <2> QED BY <1>a, <1>b, <1>11, <2>1
<1>12. CASE \/ \E w \in Workers : handle_escaped(w)
            \/ \E r \in Requests : client_send(r) \/ close_client(r)
            \/ signal_handler
            \/ UNCHANGED vars
  BY <1>11, <1>12 DEF handle_escaped, client_send, close_client, signal_handler, vars, workerVars,
      reactorVars
<1> QED
  BY <1>1, <1>2, <1>3, <1>4, <1>5, <1>6, <1>7, <1>8, <1>9, <1>10, <1>12
  DEF Next, process_requests, listen_loop, deal_client_msg, stop

-----------------------------------------------------------------------------
(* IInv holds in every state of the server.                                *)
THEOREM Invariance == Spec => []IInv
<1>1. IInv /\ [Next]_vars => IInv'
  BY TypeStep, MutexStep, PhaseStep, OnceStep, IdleStep, MissedStep DEF IInv
<1> QED
  BY InitIInv, <1>1, PTL DEF Spec

(* The variables keep their types.                                         *)
THEOREM TypeCorrect == Spec => []TypeOK
<1>1. IInv => TypeOK
  BY DEF IInv
<1> QED
  BY Invariance, <1>1, PTL

(* A request is in one place only, hence answered at most once.            *)
THEOREM EachRequestOnce == Spec => []EachOnce
<1>1. IInv => EachOnce
  BY DEF IInv
<1> QED
  BY Invariance, <1>1, PTL

(* Until the server is stopped no notification is lost: while a worker     *)
(* waits, every queued request has an awake worker or a notification on    *)
(* its way.                                                                *)
THEOREM NoLostWakeup == Spec => []NoIdleWhileQueued
<1>1. IInv => NoIdleWhileQueued
  BY DEF IInv
<1> QED
  BY Invariance, <1>1, PTL

(* A worker that the join of stop() waits for in vain was between the test *)
(* of its predicate and its wait when stop() notified.                     *)
THEOREM OnlyWindowIsMissed == Spec => []MissedOnlyInWindow
<1>1. IInv => MissedOnlyInWindow
  BY DEF IInv
<1> QED
  BY Invariance, <1>1, PTL

-----------------------------------------------------------------------------
(* The refinement of RequestPool: push is Submit, recv_end may Refuse,     *)
(* take is Take, handle_request is Finish, stop_store is Close, the end of *)
(* the process is Die, and every other step is a stutter.                  *)

PoolState == IF ~alive THEN "dead" ELSE IF stop_flag THEN "closed" ELSE "open"

(* A worker about to take a request leaves room for it in the pool.        *)
LEMMA RoomToTake ==
  ASSUME IInv, NEW w \in Workers, pc[w] # "handle"
  PROVE  Cardinality(InHand) < Cardinality(Workers)
<1> DEFINE H == At("handle")
           f == [v \in H |-> request[v]]
<1>1. H \in SUBSET Workers /\ w \notin H
  BY DEF At
<1>2. IsFiniteSet(H) /\ Cardinality(H \cup {w}) = Cardinality(H) + 1
  BY <1>1, CountAwake
<1>3. H \cup {w} \in SUBSET Workers
  BY <1>1
<1>4. Cardinality(H \cup {w}) <= Cardinality(Workers)
  BY <1>3, FS_Subset, ServerAssumption
<1>5. f \in Surjection(H, InHand)
  BY DEF Surjection, InHand
<1>6. IsFiniteSet(InHand) /\ Cardinality(InHand) <= Cardinality(H)
  BY <1>2, <1>5, FS_Surjection
<1> QED
  BY <1>2, <1>4, <1>6, FS_CardinalityType, ServerAssumption

(* A server being constructed is an empty open pool.                       *)
LEMMA PoolInitial == Init => Pool!PoolInit
<1> SUFFICES ASSUME Init PROVE Pool!PoolInit
  OBVIOUS
<1>1. InHand = {}
  BY DEF Init, InHand, At
<1> QED
  BY <1>1 DEF Init, Pool!PoolInit

(* Every step is a step of the pool or changes nothing in it.              *)
LEMMA PoolStep ==
  ASSUME IInv, IInv', [Next]_vars
  PROVE  [Pool!PoolNext]_(Pool!poolVars)
<1> USE Elements
<1>a. ASSUME UNCHANGED <<request_queue, InHand, answered, PoolState>>
      PROVE  [Pool!PoolNext]_(Pool!poolVars)
  BY <1>a DEF PoolState, Pool!poolVars
<1>b. Pool!QueuedIn(request_queue) = Queued
  BY DEF Pool!QueuedIn, Queued
<1>1. ASSUME NEW w \in Workers,
             start_worker(w) \/ loop_test(w) \/ lock(w) \/ quit(w) \/ doze(w) \/ wait(w)
               \/ wake_spuriously(w)
      PROVE  [Pool!PoolNext]_(Pool!poolVars)
  <2>1. UNCHANGED <<request_queue, request, answered, PoolState>>
    BY <1>1 DEF start_worker, loop_test, lock, quit, doze, wait, wake_spuriously,
       workerKeeps, clientVars, PoolState
  <2>2. At("handle")' = At("handle")
    BY <1>1 DEF start_worker, loop_test, lock, quit, doze, wait, wake_spuriously,
       IInv, TypeOK, Go, At
  <2> QED BY <1>a, <2>1, <2>2 DEF InHand
<1>2. ASSUME NEW w \in Workers, take(w) PROVE [Pool!PoolNext]_(Pool!poolVars)
  <2>1. /\ alive /\ pc[w] = "locked" /\ request_queue # <<>>
        /\ request_queue' = Tail(request_queue)
        /\ request' = [request EXCEPT ![w] = Head(request_queue)]
        /\ Go(w, "handle") /\ UNCHANGED <<alive, stop_flag, answered>>
    BY <1>2 DEF take, workerKeeps
  <2>2. At("handle")' = At("handle") \cup {w} /\ w \notin At("handle")
    BY <2>1 DEF IInv, TypeOK, Go, At
  <2>3. /\ request'[w] = Head(request_queue)
        /\ \A v \in Workers : v # w => request'[v] = request[v]
    BY <2>1 DEF IInv, TypeOK
  <2>4. InHand' = InHand \cup {Head(request_queue)}
    BY <2>2, <2>3 DEF InHand, At
  <2>5. Cardinality(InHand) < Cardinality(Workers)
    BY <2>1, RoomToTake
  <2>6. PoolState \in {"open", "closed"} /\ PoolState' = PoolState
    BY <2>1 DEF PoolState
  <2>7. Pool!Cardinality(InHand) = Cardinality(InHand)
    BY DEF Pool!Cardinality, Cardinality
  <2>8. Pool!Take
    BY <2>1, <2>4, <2>5, <2>6, <2>7 DEF Pool!Take, PoolState
  <2> QED BY <2>8 DEF Pool!PoolNext
<1>3. ASSUME NEW w \in Workers, handle_request(w) PROVE [Pool!PoolNext]_(Pool!poolVars)
  <2>1. /\ alive /\ pc[w] = "handle" /\ request' = [request EXCEPT ![w] = None] /\ Go(w, "loop")
        /\ answered' = answered \cup {request[w]}
        /\ UNCHANGED <<request_queue, alive, stop_flag>>
    BY <1>3 DEF handle_request, workerKeeps
  <2>2. At("handle")' = At("handle") \ {w} /\ w \in At("handle")
    BY <2>1 DEF IInv, TypeOK, Go, At
  <2>3. \A v \in Workers : v # w => request'[v] = request[v]
    BY <2>1 DEF IInv, TypeOK
  <2>4. InHand' = InHand \ {request[w]}
    BY <2>2, <2>3 DEF InHand, At, IInv, EachOnce
  <2>5. request[w] \in InHand /\ request[w] \in Requests
    BY <2>2
  <2>6. Pool!Finish(request[w])
    BY <2>1, <2>4, <2>5 DEF Pool!Finish
  <2> QED BY <2>5, <2>6 DEF Pool!PoolNext
<1>4. ASSUME (\E w \in Workers : handle_escaped(w)) \/ signal_handler
      PROVE  [Pool!PoolNext]_(Pool!poolVars)
  <2>1. alive /\ ~alive' /\ UNCHANGED <<request_queue, pc, request, answered>>
    BY <1>4 DEF handle_escaped, signal_handler, workerVars, clientVars
  <2>2. InHand' = InHand
    BY <2>1 DEF InHand, At
  <2>3. Pool!Die
    BY <2>1, <2>2 DEF Pool!Die
  <2> QED BY <2>3 DEF Pool!PoolNext
<1>5. ASSUME construct_failed PROVE [Pool!PoolNext]_(Pool!poolVars)
  <2>1. alive /\ UNCHANGED <<request_queue, pc, request, answered, stop_flag>>
    BY <1>5 DEF construct_failed, workerVars, clientVars
  <2>2. InHand' = InHand
    BY <2>1 DEF InHand, At
  <2>3. CASE alive'
    BY <1>a, <2>1, <2>2, <2>3 DEF PoolState
  <2>4. CASE ~alive'
    BY <2>1, <2>2, <2>4 DEF Pool!Die, Pool!PoolNext
  <2> QED BY <2>3, <2>4
<1>6. ASSUME \/ \E r \in Requests : client_send(r) \/ close_client(r) \/ recv_begin(r)
             \/ stop_join \/ UNCHANGED vars
      PROVE  [Pool!PoolNext]_(Pool!poolVars)
  <2>1. UNCHANGED <<alive, stop_flag, request_queue, pc, request, answered>>
    BY <1>6 DEF client_send, close_client, recv_begin, stop_join, vars, workerVars, clientVars
  <2> QED BY <1>a, <2>1 DEF InHand, At, PoolState
<1>7. ASSUME recv_end PROVE [Pool!PoolNext]_(Pool!poolVars)
  <2>1. /\ alive /\ UNCHANGED <<alive, stop_flag, request_queue, pc, request>>
        /\ reactor = "recv"
        /\ answered' = answered \/ answered' = answered \cup {incoming}
    BY <1>7 DEF recv_end, workerVars
  <2>2. InHand' = InHand
    BY <2>1 DEF InHand, At
  <2>3. CASE answered' = answered
    BY <1>a, <2>1, <2>2, <2>3 DEF PoolState
  <2>4. CASE answered' = answered \cup {incoming}
    <3>1. ~stop_flag /\ incoming \in Requests
      BY <2>1 DEF IInv, Phases, TypeOK
    <3>2. Pool!New(incoming)
      BY <1>b DEF Pool!New, IInv, EachOnce
    <3>3. Pool!Refuse(incoming)
      BY <2>1, <2>2, <2>4, <3>1, <3>2 DEF Pool!Refuse
    <3> QED BY <3>1, <3>3 DEF Pool!PoolNext
  <2> QED BY <2>1, <2>3, <2>4
<1>8. ASSUME push PROVE [Pool!PoolNext]_(Pool!poolVars)
  <2>1. /\ alive /\ UNCHANGED <<alive, stop_flag, pc, request, answered>>
        /\ reactor = "push" /\ request_queue' = Append(request_queue, incoming)
    BY <1>8 DEF push, PushAs, workerVars, clientVars
  <2>2. InHand' = InHand
    BY <2>1 DEF InHand, At
  <2>3. ~stop_flag /\ incoming \in Requests
    BY <2>1 DEF IInv, Phases, TypeOK
  <2>4. Pool!New(incoming)
    BY <1>b DEF Pool!New, IInv, EachOnce
  <2>5. Pool!Submit(incoming)
    BY <2>1, <2>2, <2>3, <2>4 DEF Pool!Submit
  <2> QED BY <2>3, <2>5 DEF Pool!PoolNext
<1>9. ASSUME notify_one \/ stop_notify PROVE [Pool!PoolNext]_(Pool!poolVars)
  <2>1. UNCHANGED <<request_queue, request, answered, alive, stop_flag>>
    BY <1>9 DEF notify_one, stop_notify, clientVars
  <2>2. At("handle")' = At("handle")
    BY <1>9 DEF notify_one, stop_notify, IInv, TypeOK, Go, At
  <2> QED BY <1>a, <2>1, <2>2 DEF InHand, PoolState
<1>10. ASSUME stop_store PROVE [Pool!PoolNext]_(Pool!poolVars)
  <2>1. /\ alive /\ reactor = "idle" /\ stop_flag'
        /\ UNCHANGED <<alive, request_queue, pc, request, answered>>
    BY <1>10 DEF stop_store, workerVars, clientVars
  <2>2. InHand' = InHand
    BY <2>1 DEF InHand, At
  <2>3. ~stop_flag
    BY <2>1 DEF IInv, Phases
  <2>4. Pool!Close
    BY <2>1, <2>2, <2>3 DEF Pool!Close
  <2> QED BY <2>4 DEF Pool!PoolNext
<1> QED
  BY <1>1, <1>2, <1>3, <1>4, <1>5, <1>6, <1>7, <1>8, <1>9, <1>10
  DEF Next, process_requests, listen_loop, deal_client_msg, stop

(* Whatever the threads do, what they do together is what RequestPool      *)
(* allows: first come, first served; each request once; never more at work *)
(* than there are workers.  (Its fairness is left to TLC.)                 *)
THEOREM ServerImplementsPool == Spec => Pool!PoolSpec
<1>1. IInv /\ IInv' /\ [Next]_vars => [Pool!PoolNext]_(Pool!poolVars)
  BY PoolStep
<1> QED
  BY PoolInitial, Invariance, <1>1, PTL DEF Spec, Pool!PoolSpec
=============================================================================
