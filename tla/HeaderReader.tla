------------------------------ MODULE HeaderReader ------------------------------
(***************************************************************************)
(* How the HTTP server cuts the byte streams of its connections into       *)
(* requests: HttpServer::deal_client_msg calls recv_with_eof of            *)
(* src/tcp_public.cpp, which reads EOF_LEN bytes at a time and looks at    *)
(* the last ones it has for the terminator.  One reactor thread serves all *)
(* connections, and recv_with_eof does not give it back before it returns  *)
(* or throws.                                                              *)
(*                                                                         *)
(* A stream is given by the positions at which its requests end; bytes are *)
(* known by their positions.  The descriptor table is the subject of       *)
(* TcpServer, and what becomes of a returned header of HttpServer.         *)
(***************************************************************************)
EXTENDS Integers, Sequences

CONSTANTS
  Conns,
  None,      \* no connection
  Streams,   \* what clients may write: the end positions of their requests
  EOF_LEN,   \* eof_str.length(), 4 for "\r\n\r\n"
  MAX_SIZE   \* max_size, UINT16_MAX for a header

ASSUME ReaderAssumption ==
  /\ None \notin Conns
  /\ EOF_LEN \in Nat \ {0}
  /\ MAX_SIZE \in Nat \ {0}
  /\ Streams \subseteq Seq(Nat)
  /\ \A stream \in Streams :
       /\ stream # <<>>
       /\ \A i \in 1..Len(stream) : stream[i] >= EOF_LEN
       /\ \A i, j \in 1..Len(stream) : i < j => stream[i] + EOF_LEN <= stream[j]

VARIABLES
  ends,       \* the stream that each client writes
  arrived,    \* how many of its bytes the kernel has received
  peer,       \* open; gone: closed, shut down or reset by the client; closed by the server
  event,      \* what is left of event[] in listen_loop
  current,    \* the connection whose recv_with_eof runs
  start,      \* the position of buf[0]; total_received is taken[current] - start
  taken,      \* how many bytes were read from each connection
  heads,      \* the strings returned, by their first and last positions (history)
  failed,     \* connections for which a call has thrown (history)
  pipelined   \* connections with bytes behind a request not yet returned (history)

clientVars == <<ends, arrived, peer, pipelined>>
callVars   == <<current, start, taken, heads, failed>>
vars       == <<clientVars, event, callVars>>

Event == [conn : Conns, what : {"in", "rdhup"}]

TypeOK ==
  /\ ends \in [Conns -> Streams]
  /\ arrived \in [Conns -> Nat]
  /\ peer \in [Conns -> {"open", "gone", "closed"}]
  /\ event \subseteq Event
  /\ current \in Conns \cup {None}
  /\ start \in Nat
  /\ taken \in [Conns -> Nat]
  /\ heads \in [Conns -> Seq([from : Nat, to : Nat])]
  /\ failed \subseteq Conns
  /\ pipelined \subseteq Conns

Init ==
  /\ ends \in [Conns -> Streams]
  /\ arrived = [c \in Conns |-> 0]
  /\ peer = [c \in Conns |-> "open"]
  /\ event = {}
  /\ current = None
  /\ start = 0
  /\ taken = [c \in Conns |-> 0]
  /\ heads = [c \in Conns |-> <<>>]
  /\ failed = {}
  /\ pipelined = {}

(* Where the ith request of a connection ends and where it begins.         *)
End(c, i) == IF i = 0 THEN 0 ELSE ends[c][i]
Request(c, i) == [from |-> End(c, i - 1), to |-> End(c, i)]
Ends(c) == {ends[c][i] : i \in 1..Len(ends[c])}
Length(c) == ends[c][Len(ends[c])]

-----------------------------------------------------------------------------
(* Clients.                                                                *)

(* Bytes arrive in pieces of any size.  A client pipelines when it writes  *)
(* on before the request it has just completed was read.                   *)
client_write(c) ==
  /\ peer[c] = "open"
  /\ \E n \in (arrived[c] + 1)..Length(c) :
       /\ arrived' = [arrived EXCEPT ![c] = n]
       /\ pipelined' =
            IF \E i \in DOMAIN ends[c] : i > Len(heads[c]) /\ n > End(c, i)
            THEN pipelined \cup {c} ELSE pipelined
  /\ UNCHANGED <<ends, peer, event, callVars>>

client_leave(c) ==
  /\ peer[c] = "open"
  /\ peer' = [peer EXCEPT ![c] = "gone"]
  /\ UNCHANGED <<ends, arrived, pipelined, event, callVars>>

-----------------------------------------------------------------------------
(* listen_loop.                                                            *)

Readable(c) ==
  \/ peer[c] = "open" /\ arrived[c] > taken[c]
  \/ peer[c] = "gone"

epoll_wait ==
  /\ current = None /\ event = {}
  /\ \E c \in Conns : Readable(c)
  /\ event' = {[conn |-> c, what |-> IF peer[c] = "gone" THEN "rdhup" ELSE "in"] :
                 c \in {d \in Conns : Readable(d)}}
  /\ UNCHANGED <<clientVars, callVars>>

(* EPOLLRDHUP comes before EPOLLIN: what was not read is dropped.          *)
close_client(e) ==
  /\ current = None
  /\ e \in event /\ e.what = "rdhup"
  /\ event' = event \ {e}
  /\ peer' = [peer EXCEPT ![e.conn] = "closed"]
  /\ UNCHANGED <<ends, arrived, pipelined, callVars>>

(* deal_client_msg: recv_with_eof begins, with an empty buffer.            *)
recv_begin(e) ==
  /\ current = None
  /\ e \in event /\ e.what = "in"
  /\ event' = event \ {e}
  /\ current' = e.conn
  /\ start' = taken[e.conn]
  /\ UNCHANGED <<clientVars, taken, heads, failed>>

-----------------------------------------------------------------------------
(* recv_with_eof.                                                          *)

Least(m, n) == IF m <= n THEN m ELSE n

(* The last EOF_LEN bytes in buf are the terminator.                       *)
EofAt(c, to) == to - start >= EOF_LEN /\ to \in Ends(c)

Return(c, to) ==
  /\ heads' = [heads EXCEPT ![c] = Append(@, [from |-> start, to |-> to])]
  /\ current' = None
  /\ UNCHANGED failed

ThrowFor(c) ==
  /\ failed' = failed \cup {c}
  /\ current' = None
  /\ UNCHANGED heads

(* Mutated ends of the loop: one without the test of found_eof, and one    *)
(* that notes the failure of a call that is over.                          *)
Throw_unchecked(c) == Return(c, taken[c])
Throw_late(c) == ThrowFor(None)

Throw(c) == ThrowFor(c)

(* One recv of at most EOF_LEN bytes.  With the terminator at the end of   *)
(* buf the string is returned; with limit bytes and no terminator the loop *)
(* ends and the call throws.                                               *)
Receive(limit) ==
  LET c  == current
      to == taken[c] + Least(EOF_LEN, arrived[c] - taken[c])
  IN  /\ c # None
      /\ taken[c] < arrived[c]
      /\ taken' = [taken EXCEPT ![c] = to]
      /\ \/ EofAt(c, to) /\ Return(c, to)
         \/ ~EofAt(c, to) /\ to - start >= limit /\ Throw(c)
         \/ ~EofAt(c, to) /\ to - start < limit /\ UNCHANGED <<current, heads, failed>>
      /\ UNCHANGED <<clientVars, event, start>>

(* A mutated loop that goes on at max_size.                                *)
recv_some_over == Receive(MAX_SIZE + 1)

recv_some == Receive(MAX_SIZE)

NothingMore(states) ==
  /\ current # None
  /\ peer[current] \in states
  /\ taken[current] = arrived[current]
  /\ Throw(current)
  /\ UNCHANGED <<clientVars, event, start, taken>>

(* Mutated tests of recv's result: one that takes EAGAIN for a failure,    *)
(* and one that calls recv again although the peer has left.               *)
recv_none_again == NothingMore({"open", "gone"})
recv_none_ignored == NothingMore({})

(* The peer left and everything was read: recv returns 0 or an error, and  *)
(* the call throws.  (With nothing to read on an open connection recv      *)
(* fails with EAGAIN, and the loop calls it again, without a limit.)       *)
recv_none == NothingMore({"gone"})

-----------------------------------------------------------------------------
recv_with_eof == recv_some \/ recv_none

listen_loop ==
  \/ epoll_wait
  \/ \E e \in event : close_client(e) \/ recv_begin(e)
  \/ recv_with_eof

Next == listen_loop \/ \E c \in Conns : client_write(c) \/ client_leave(c)

Spec == Init /\ [][Next]_vars

(* The reactor's thread never stops; clients owe nothing.                  *)
FairSpec == Spec /\ WF_vars(listen_loop)

-----------------------------------------------------------------------------
(* Safety.                                                                 *)

(* Whatever pieces the bytes come in, and however reads of EOF_LEN bytes   *)
(* fall on them, a client that waits for each request to be taken before   *)
(* it writes the next one has its requests returned one by one and whole   *)
(* (tcp_public.cpp:168-188, the reads are not byte by byte as line 169     *)
(* says).  One that pipelines may have requests glued together, but the    *)
(* strings still adjoin and end where a request ends.                      *)
HeadsWhole ==
  \A c \in Conns \ failed : \A i \in 1..Len(heads[c]) :
    /\ heads[c][i].to \in Ends(c)
    /\ heads[c][i].from = (IF i = 1 THEN 0 ELSE heads[c][i - 1].to)
    /\ c \notin pipelined => i <= Len(ends[c]) /\ heads[c][i] = Request(c, i)

(* A call on an open connection throws only if the client pipelined, or    *)
(* the header is longer than max_size (tcp_public.cpp:168, 198-201).       *)
ThrowsForCause ==
  \A c \in failed :
    \/ peer[c] # "open"
    \/ c \in pipelined
    \/ \E i \in 1..Len(ends[c]) : End(c, i) - End(c, i - 1) > MAX_SIZE

(* total_received may pass max_size, but only by the rest of the last      *)
(* read: with EOF_LEN - 1 bytes more the buffer would hold all of them and *)
(* the terminating zero behind them (tcp_public.cpp:166-170, 191).         *)
OverrunBounded ==
  [][current # None => taken'[current] - start < MAX_SIZE + EOF_LEN]_vars

(* What the proofs of the above need to know of every state: how far the   *)
(* calls have read, and where the next one begins.                         *)
Position(c) == IF c = current THEN start ELSE taken[c]
LastEnd(c) == IF heads[c] = <<>> THEN 0 ELSE heads[c][Len(heads[c])].to

ReadSoFar ==
  /\ \A c \in Conns : taken[c] <= arrived[c] /\ arrived[c] <= Length(c)
  /\ current # None => start <= taken[current] /\ taken[current] - start < MAX_SIZE

Adjoined == \A c \in Conns \ failed : Position(c) = LastEnd(c)

NotAhead ==
  \A c \in Conns \ pipelined : \A i \in 1..Len(ends[c]) :
    i > Len(heads[c]) => arrived[c] <= ends[c][i]

IInv ==
  TypeOK /\ ReadSoFar /\ Adjoined /\ NotAhead /\ HeadsWhole /\ ThrowsForCause

-----------------------------------------------------------------------------
(* Liveness.                                                               *)

(* The only reactor thread polls for the rest of a header.                 *)
Starved ==
  current # None /\ peer[current] = "open" /\ taken[current] = arrived[current]

(* Unless a client leaves the reactor polling for ever, every request that *)
(* arrived is returned, and the connections of clients that left are       *)
(* closed: nothing else keeps the reactor (tcp_public.cpp:168-189).        *)
HeadsReturned ==
  []<>~Starved =>
    \A c \in Conns : \A i \in UNION {1..Len(stream) : stream \in Streams} :
      (i <= Len(ends[c]) /\ arrived[c] >= End(c, i)) ~>
        (Len(heads[c]) >= i \/ c \in pipelined \cup failed \/ peer[c] = "closed")
=============================================================================
