------------------------------ MODULE RequestPool ------------------------------
(***************************************************************************)
(* What the HTTP server promises about requests, whatever its threads and  *)
(* its condition variable do: a request that arrives is refused at once or *)
(* queued; queued requests are taken in the order of arrival, each once,   *)
(* by at most Capacity handlers at a time; and as long as the pool is open *)
(* a queued request never waits beside an idle handler for ever.  Closing  *)
(* the pool drops what is queued, except for what handlers may still take. *)
(***************************************************************************)
EXTENDS Integers, Sequences, FiniteSets

CONSTANTS
  Requests,  \* the requests that clients may send, each at most once
  Capacity,  \* number of handlers (MAX_WORKER_THREADS)
  Stalled    \* requests whose handling never ends: the peer stopped reading

VARIABLES
  queue,     \* requests waiting for a handler
  inflight,  \* requests in the hands of a handler
  answered,  \* requests that got a response or an error
  state      \* of the pool

poolVars == <<queue, inflight, answered, state>>

QueuedIn(q) == {q[i] : i \in 1..Len(q)}

New(r) == r \notin QueuedIn(queue) \cup inflight \cup answered

PoolInit ==
  /\ queue = <<>>
  /\ inflight = {}
  /\ answered = {}
  /\ state = "open"

Submit(r) ==
  /\ state = "open"
  /\ New(r)
  /\ queue' = Append(queue, r)
  /\ UNCHANGED <<inflight, answered, state>>

Refuse(r) ==
  /\ state = "open"
  /\ New(r)
  /\ answered' = answered \cup {r}
  /\ UNCHANGED <<queue, inflight, state>>

Take ==
  /\ state \in {"open", "closed"}
  /\ queue # <<>>
  /\ Cardinality(inflight) < Capacity
  /\ inflight' = inflight \cup {Head(queue)}
  /\ queue' = Tail(queue)
  /\ UNCHANGED <<answered, state>>

Finish(r) ==
  /\ state \in {"open", "closed"}
  /\ r \in inflight
  /\ inflight' = inflight \ {r}
  /\ answered' = answered \cup {r}
  /\ UNCHANGED <<queue, state>>

Close ==
  /\ state = "open"
  /\ state' = "closed"
  /\ UNCHANGED <<queue, inflight, answered>>

(* The process ends, in whatever state it is.                              *)
Die ==
  /\ state \in {"open", "closed"}
  /\ state' = "dead"
  /\ UNCHANGED <<queue, inflight, answered>>

PoolNext ==
  \/ \E r \in Requests : Submit(r) \/ Refuse(r) \/ Finish(r)
  \/ Take \/ Close \/ Die

PoolSpec == PoolInit /\ [][PoolNext]_poolVars

PoolFairSpec ==
  /\ PoolSpec
  /\ WF_poolVars(state = "open" /\ Take)
  /\ \A r \in Requests \ Stalled : WF_poolVars(Finish(r))
=============================================================================
