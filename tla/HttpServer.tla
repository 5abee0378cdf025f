------------------------------ MODULE HttpServer ------------------------------
(***************************************************************************)
(* The worker pool of src/http_server.cpp.  The reactor thread reads and   *)
(* parses requests (deal_client_msg), pushes them on request_queue and     *)
(* notifies queue_cv; the threads of process_requests wait on queue_cv,    *)
(* take requests and answer them; stop() sets stop_flag, notifies and      *)
(* joins.  One action is what a thread does between two points where       *)
(* another thread can see or change shared state.                          *)
(*                                                                         *)
(* The mutex is not a variable: the workers that hold it are those between *)
(* lock and the release in take, quit or wait.  The reactor holds it only  *)
(* within push.                                                            *)
(***************************************************************************)
EXTENDS Integers, Sequences, FiniteSets

CONSTANTS
  Workers,   \* worker_threads, MAX_WORKER_THREADS of them
  Requests,  \* requests that clients may send, each at most once
  None,      \* no request
  Silent,    \* requests whose terminator is never found, on an open connection:
             \* the header, or what was sent behind it, stays incomplete
  Stalled,   \* requests whose client never reads the response
  Escaping,  \* requests whose handling throws what process_requests does not catch
  Leaving,   \* requests whose client closes, or shuts down its side, behind them
  Pipelined  \* requests sent behind another one that may still be unread

ASSUME ServerAssumption ==
  /\ Workers # {} /\ IsFiniteSet(Workers)
  /\ None \notin Requests
  /\ Silent \subseteq Requests
  /\ Stalled \subseteq Requests
  /\ Escaping \subseteq Requests
  /\ Leaving \subseteq Requests
  /\ Pipelined \subseteq Requests

VARIABLES
  alive,          \* the process has not ended
  stop_flag,
  request_queue,
  pc,             \* where each worker is in process_requests
  request,        \* the request each worker has taken
  reactor,        \* where the reactor thread is
  incoming,       \* the request the reactor is working on
  sent,           \* requests a client has sent
  answered,       \* requests that got a response or an error
  lost,           \* requests that were closed unread or read as a part of another
  missed          \* workers that notify_all found between test and wait (history)

workerVars == <<pc, request>>
reactorVars == <<reactor, incoming>>
clientVars == <<sent, answered, lost>>
vars == <<alive, stop_flag, request_queue, workerVars, reactorVars, clientVars, missed>>

WorkerPoints ==
  {"unborn", "loop", "lock", "locked", "dozing", "waiting", "handle", "exited"}
ReactorPoints ==
  {"construct", "failed", "idle", "recv", "push", "notify", "stop", "join", "joined"}

TypeOK ==
  /\ alive \in BOOLEAN
  /\ stop_flag \in BOOLEAN
  /\ request_queue \in Seq(Requests)
  /\ pc \in [Workers -> WorkerPoints]
  /\ request \in [Workers -> Requests \cup {None}]
  /\ reactor \in ReactorPoints
  /\ incoming \in Requests \cup {None}
  /\ sent \subseteq Requests
  /\ answered \subseteq Requests
  /\ lost \subseteq Requests
  /\ missed \subseteq Workers

Init ==
  /\ alive = TRUE
  /\ stop_flag = FALSE
  /\ request_queue = <<>>
  /\ pc = [w \in Workers |-> "unborn"]
  /\ request = [w \in Workers |-> None]
  /\ reactor = "construct"
  /\ incoming = None
  /\ sent = {}
  /\ answered = {}
  /\ lost = {}
  /\ missed = {}

At(point) == {w \in Workers : pc[w] = point}
Holding == At("locked") \cup At("dozing")
Queued == {request_queue[i] : i \in 1..Len(request_queue)}
InHand == {request[w] : w \in At("handle")}
Go(w, point) == pc' = [pc EXCEPT ![w] = point]

-----------------------------------------------------------------------------
(* The constructor starts the threads one by one; an exception in it (no   *)
(* web root, no thread) destroys the object, and std::thread's destructor  *)
(* ends the process if some thread was already started.                    *)

start_worker(w) ==
  /\ alive /\ reactor = "construct"
  /\ pc[w] = "unborn"
  /\ Go(w, "loop")
  /\ reactor' = IF At("unborn") = {w} THEN "idle" ELSE "construct"
  /\ UNCHANGED <<alive, stop_flag, request_queue, request, incoming, clientVars, missed>>

construct_failed ==
  /\ alive /\ reactor = "construct"
  /\ reactor' = "failed"
  /\ alive' = (At("unborn") = Workers)
  /\ UNCHANGED <<stop_flag, request_queue, workerVars, incoming, clientVars, missed>>

-----------------------------------------------------------------------------
(* Clients and the operating system.                                       *)

client_send(r) ==
  /\ alive /\ r \notin sent
  /\ sent' = sent \cup {r}
  /\ UNCHANGED <<alive, stop_flag, request_queue, workerVars, reactorVars, answered, lost, missed>>

(* SIGINT or SIGTERM: the handler calls exit(0), which destroys no local   *)
(* object, so stop() does not run.                                         *)
signal_handler ==
  /\ alive
  /\ alive' = FALSE
  /\ UNCHANGED <<stop_flag, request_queue, workerVars, reactorVars, clientVars, missed>>

-----------------------------------------------------------------------------
(* listen_loop and deal_client_msg, in the reactor thread.                 *)

Unread == sent \ (Queued \cup InHand \cup answered \cup lost \cup {incoming})

(* EPOLLRDHUP comes before EPOLLIN: the connection is closed with whatever *)
(* was sent on it, however complete.                                       *)
close_client(r) ==
  /\ alive /\ reactor = "idle"
  /\ r \in Unread \cap Leaving
  /\ lost' = lost \cup {r}
  /\ UNCHANGED <<alive, stop_flag, request_queue, workerVars, reactorVars, sent, answered, missed>>

(* listen_loop found the connection readable: recv_with_eof begins.        *)
recv_begin(r) ==
  /\ alive /\ reactor = "idle"
  /\ r \in Unread
  /\ reactor' = "recv"
  /\ incoming' = r
  /\ UNCHANGED <<alive, stop_flag, request_queue, workerVars, clientVars, missed>>

(* recv_with_eof polls until the terminator is there, without a limit: it  *)
(* comes back with a header that parses, or something throws and the       *)
(* client gets an error.  Its reads may run into the requests behind and   *)
(* take them for more of the same header.                                  *)
recv_end ==
  /\ alive /\ reactor = "recv"
  /\ incoming \notin Silent
  /\ \E behind \in SUBSET (Unread \cap Pipelined) : lost' = lost \cup behind
  /\ \/ /\ reactor' = "push"
        /\ UNCHANGED <<incoming, answered>>
     \/ /\ reactor' = "idle"
        /\ incoming' = None
        /\ answered' = answered \cup {incoming}
  /\ UNCHANGED <<alive, stop_flag, request_queue, workerVars, sent, missed>>

(* Lock, put the request on the queue, unlock.                             *)
PushAs(q, next) ==
  /\ alive /\ reactor = "push"
  /\ Holding = {}
  /\ request_queue' = q
  /\ incoming' = None
  /\ reactor' = next
  /\ UNCHANGED <<alive, stop_flag, workerVars, clientVars, missed>>

(* Mutated pushes: of a request that was moved from, twice, in front of    *)
(* the queue, and with a notification only when the queue was empty.       *)
push_moved == PushAs(Append(request_queue, None), "notify")
push_twice == PushAs(request_queue \o <<incoming, incoming>>, "notify")
push_front == PushAs(<<incoming>> \o request_queue, "notify")
push_notify_first ==
  PushAs(Append(request_queue, incoming), IF request_queue = <<>> THEN "notify" ELSE "idle")

push == PushAs(Append(request_queue, incoming), "notify")

notify_one ==
  /\ alive /\ reactor = "notify"
  /\ IF At("waiting") = {}
     THEN UNCHANGED pc
     ELSE \E w \in At("waiting") : Go(w, "lock")
  /\ reactor' = "idle"
  /\ UNCHANGED <<alive, stop_flag, request_queue, request, incoming, clientVars, missed>>

-----------------------------------------------------------------------------
(* stop, called from the destructor in the reactor's thread.  It does not  *)
(* take the mutex.                                                         *)

stop_store ==
  /\ alive /\ reactor = "idle"
  /\ stop_flag' = TRUE
  /\ reactor' = "stop"
  /\ UNCHANGED <<alive, request_queue, workerVars, incoming, clientVars, missed>>

(* A mutated stop that wakes one worker only.                              *)
stop_notify_one ==
  /\ alive /\ reactor = "stop"
  /\ IF At("waiting") = {}
     THEN UNCHANGED pc
     ELSE \E w \in At("waiting") : Go(w, "lock")
  /\ missed' = At("dozing")
  /\ reactor' = "join"
  /\ UNCHANGED <<alive, stop_flag, request_queue, request, incoming, clientVars>>

stop_notify ==
  /\ alive /\ reactor = "stop"
  /\ pc' = [w \in Workers |-> IF pc[w] = "waiting" THEN "lock" ELSE pc[w]]
  /\ missed' = At("dozing")
  /\ reactor' = "join"
  /\ UNCHANGED <<alive, stop_flag, request_queue, request, incoming, clientVars>>

stop_join ==
  /\ alive /\ reactor = "join"
  /\ At("exited") = Workers
  /\ reactor' = "joined"
  /\ UNCHANGED <<alive, stop_flag, request_queue, workerVars, incoming, clientVars, missed>>

-----------------------------------------------------------------------------
(* process_requests.                                                       *)

workerKeeps == <<alive, stop_flag, reactorVars, sent, lost, missed>>

(* while (!stop_flag.load())                                               *)
loop_test(w) ==
  /\ alive /\ pc[w] = "loop"
  /\ Go(w, IF stop_flag THEN "exited" ELSE "lock")
  /\ UNCHANGED <<workerKeeps, request_queue, request, answered>>

(* The mutex is acquired, at the top of the loop or on return from a wait. *)
lock(w) ==
  /\ alive /\ pc[w] = "lock"
  /\ Holding = {}
  /\ Go(w, "locked")
  /\ UNCHANGED <<workerKeeps, request_queue, request, answered>>

(* The predicate holds because of a request: take it, whatever stop_flag   *)
(* says, and unlock.                                                       *)
take(w) ==
  /\ alive /\ pc[w] = "locked"
  /\ request_queue # <<>>
  /\ request' = [request EXCEPT ![w] = Head(request_queue)]
  /\ request_queue' = Tail(request_queue)
  /\ Go(w, "handle")
  /\ UNCHANGED <<workerKeeps, answered>>

(* The predicate holds because of stop_flag alone.                         *)
quit(w) ==
  /\ alive /\ pc[w] = "locked"
  /\ request_queue = <<>> /\ stop_flag
  /\ Go(w, "exited")
  /\ UNCHANGED <<workerKeeps, request_queue, request, answered>>

(* The predicate is false: the worker is about to wait, mutex in hand.     *)
doze(w) ==
  /\ alive /\ pc[w] = "locked"
  /\ request_queue = <<>> /\ ~stop_flag
  /\ Go(w, "dozing")
  /\ UNCHANGED <<workerKeeps, request_queue, request, answered>>

(* The wait itself: release the mutex and block, in one step.              *)
wait(w) ==
  /\ alive /\ pc[w] = "dozing"
  /\ Go(w, "waiting")
  /\ UNCHANGED <<workerKeeps, request_queue, request, answered>>

(* A condition variable may return without having been notified.           *)
wake_spuriously(w) ==
  /\ alive /\ pc[w] = "waiting"
  /\ Go(w, "lock")
  /\ UNCHANGED <<workerKeeps, request_queue, request, answered>>

(* handle_request sends the file or an error; sendfile_nonblock waits      *)
(* without a limit for a client that does not read.                        *)
handle_request(w) ==
  /\ alive /\ pc[w] = "handle"
  /\ request[w] \notin Stalled \cup Escaping
  /\ answered' = answered \cup {request[w]}
  /\ request' = [request EXCEPT ![w] = None]
  /\ Go(w, "loop")
  /\ UNCHANGED <<workerKeeps, request_queue>>

(* An exception of another class leaves the thread: std::terminate.        *)
handle_escaped(w) ==
  /\ alive /\ pc[w] = "handle"
  /\ request[w] \in Escaping
  /\ alive' = FALSE
  /\ UNCHANGED <<stop_flag, request_queue, workerVars, reactorVars, clientVars, missed>>

-----------------------------------------------------------------------------
process_requests(w) ==
  \/ loop_test(w) \/ lock(w) \/ take(w) \/ quit(w) \/ doze(w) \/ wait(w)
  \/ handle_request(w) \/ handle_escaped(w)

deal_client_msg == (\E r \in Requests : recv_begin(r)) \/ recv_end \/ push \/ notify_one

listen_loop == (\E r \in Requests : close_client(r)) \/ deal_client_msg

stop == stop_notify \/ stop_join

Next ==
  \/ \E w \in Workers : start_worker(w) \/ process_requests(w) \/ wake_spuriously(w)
  \/ \E r \in Requests : client_send(r)
  \/ construct_failed \/ listen_loop \/ stop_store \/ stop \/ signal_handler

Spec == Init /\ [][Next]_vars

(* Every thread of a live process keeps running, and waits do not return   *)
(* without a notification for ever: a worker that did nothing but that     *)
(* could keep the mutex, which is not fair, from the others.  Nothing is   *)
(* promised of clients or of the server's owner.                           *)
FairSpec ==
  /\ Spec
  /\ WF_vars(\E w \in Workers : start_worker(w))
  /\ \A w \in Workers : WF_vars(process_requests(w))
  /\ WF_vars(listen_loop)
  /\ WF_vars(stop)
  /\ <>[][\A w \in Workers : ~wake_spuriously(w)]_vars

-----------------------------------------------------------------------------
(* Safety.                                                                 *)

(* Where requests are that were read.                                      *)
Held == {incoming} \cup Queued \cup InHand \cup answered

(* A request is in one place only: in the reactor's hands, queued, in the  *)
(* hands of one worker, answered, or lost; so it is answered at most once  *)
(* (http_server.cpp:258-260 and 284-288, all that the mutex protects).     *)
EachOnce ==
  /\ \A i, j \in 1..Len(request_queue) : request_queue[i] = request_queue[j] => i = j
  /\ \A w \in Workers : (pc[w] = "handle") <=> (request[w] # None)
  /\ \A v, w \in At("handle") : request[v] = request[w] => v = w
  /\ Queued \cap InHand = {}
  /\ incoming \notin Queued \cup InHand \cup answered
  /\ (Queued \cup InHand) \cap answered = {}
  /\ Held \cap lost = {}

(* Workers that will look at the queue again without being notified.       *)
Awake == At("loop") \cup At("lock") \cup At("locked")

(* No wakeup is lost before the server is stopped: while a worker waits,   *)
(* there are at least as many awake ones, or notifications on their way,   *)
(* as there are queued requests, although notify_one is called after the   *)
(* mutex was released (http_server.cpp:284-288 against 246-247).           *)
NoIdleWhileQueued ==
  ~stop_flag /\ At("waiting") # {} =>
    Len(request_queue) <= Cardinality(Awake) + (IF reactor = "notify" THEN 1 ELSE 0)

(* The only workers that the join of stop() can find waiting are those     *)
(* that had tested the predicate and not yet blocked when notify_all was   *)
(* called: stop() changes stop_flag without the mutex                      *)
(* (http_server.cpp:72-73, 247).                                           *)
MissedOnlyInWindow ==
  \A w \in Workers :
    reactor = "join" /\ pc[w] \in {"dozing", "waiting"} => w \in missed

-----------------------------------------------------------------------------
(* What the invariants above need to be inductive.                         *)

(* The mutex does exclude, and a worker that dozes keeps the queue empty:  *)
(* nobody can push before it waits.                                        *)
MutexInv ==
  /\ \A v, w \in Holding : v = w
  /\ At("dozing") # {} => request_queue = <<>>

(* The reactor's place in its code determines what it holds and has set.   *)
Phases ==
  /\ stop_flag <=> reactor \in {"stop", "join", "joined"}
  /\ (incoming # None) <=> reactor \in {"recv", "push"}

IInv ==
  /\ TypeOK
  /\ MutexInv
  /\ Phases
  /\ EachOnce
  /\ NoIdleWhileQueued
  /\ MissedOnlyInWindow

-----------------------------------------------------------------------------
(* The promise of the pool, and liveness.                                  *)

Pool == INSTANCE RequestPool WITH
  Capacity <- Cardinality(Workers),
  queue <- request_queue,
  inflight <- InHand,
  state <- IF ~alive THEN "dead" ELSE IF stop_flag THEN "closed" ELSE "open"

(* The threads, the queue and the condition variable together implement    *)
(* the pool: order of arrival, each request once, no idle worker beside a  *)
(* queued request for ever (http_server.cpp:244-297).                      *)
ImplementsPool == Pool!PoolFairSpec

(* A request is answered if its client sent it completely, with nothing    *)
(* unread before it, and keeps its side of the connection open, unless the *)
(* server ends or the reactor waits for a silent client's header, as long  *)
(* as fewer clients stop reading than there are workers.  A client that    *)
(* shuts down its side, or sends a request behind another, may go without  *)
(* an answer (tcp_server.cpp:203-208, tcp_public.cpp:168-190).             *)
Answered ==
  \A r \in Requests \ (Silent \cup Stalled \cup Escaping \cup Leaving \cup Pipelined) :
    (r \in sent /\ reactor = "idle") ~>
      (r \in answered \/ stop_flag \/ ~alive \/ incoming \in Silent)

(* "Wait for all worker threads to end" (http_server.cpp:75): the join in  *)
(* stop() returns when no request is stalled.                              *)
StopReturns == (reactor = "join") ~> (reactor = "joined" \/ ~alive)
=============================================================================
