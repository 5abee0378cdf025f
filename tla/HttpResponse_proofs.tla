-------------------------- MODULE HttpResponse_proofs --------------------------
(***************************************************************************)
(* What a range request is answered with, for every file size, every off_t *)
(* and every Range header.  First the parser, piece by piece, against the  *)
(* set of bytes that a piece asks for; then the steps of the server.       *)
(***************************************************************************)
EXTENDS HttpResponse, QueueLemmas

-----------------------------------------------------------------------------
(* The parser.                                                             *)

(* A range that parse_ranges keeps and handle_range_request finds valid is *)
(* just what its piece asks for, and that is at least one byte, unless the *)
(* piece is a suffix whose subtraction overflows.                          *)
LEMMA ValidIsAsked ==
  ASSUME NEW size \in 0..OffMax, NEW p \in Piece, NEW any \in Offs, ~Overflows(p, size),
         parse_range(p, size, any).kept, Valid(parse_range(p, size, any), size)
  PROVE  /\ parse_range(p, size, any).start..parse_range(p, size, any).end = Asked(p, size)
         /\ Asked(p, size) # {}
<1> DEFINE x == parse_range(p, size, any)
<1>0. OffMax \in Nat /\ p.a \in 0..OffMax /\ p.b \in (-OffMax - 1)..OffMax
  BY OffAssumption DEF Piece, Offs
<1>1. CASE p.form = "suffix"
  <2>1. x.start = (IF p.b > size THEN 0 ELSE Off(size - p.b, any)) /\ x.end = size - 1
    BY <1>1 DEF parse_range, Keep
  <2>4. x.start = IF p.b > size THEN 0 ELSE size - p.b
    <3>1. size - p.b <= OffMax
      BY <1>0, <1>1 DEF Overflows
    <3>2. p.b <= size => size - p.b \in Offs
      BY <1>0, <3>1 DEF Offs
    <3> QED
      BY <1>0, <2>1, <3>2 DEF Off
  <2>2. x.start \in 0..(size - 1)
    BY <1>0, <2>1, <2>4 DEF Valid
  <2>3. p.b > 0
    BY <1>0, <2>2, <2>4
  <2>5. \A i \in 0..(size - 1) : i \in Asked(p, size) <=> i >= x.start
    BY <1>0, <1>1, <2>3, <2>4 DEF Asked
  <2>6. \A i : i \in x.start..x.end <=> i \in 0..(size - 1) /\ i >= x.start
    BY <2>1, <2>2
  <2>7. \A i \in Asked(p, size) : i \in 0..(size - 1)
    BY DEF Asked
  <2>8. \A i : i \in x.start..x.end <=> i \in Asked(p, size)
    BY <2>5, <2>6, <2>7, Zenon
  <2>9. x.start \in Asked(p, size)
    BY <2>2, <2>5
  <2> QED
    BY <2>8, <2>9, Zenon
<1>2. CASE p.form = "from"
  <2>1. x.start = p.a /\ x.end = size - 1 /\ p.a < size
    BY <1>0, <1>2 DEF parse_range, Keep, Nothing
  <2>2. \A i : i \in x.start..x.end <=> i \in Asked(p, size)
    BY <1>0, <1>2, <2>1 DEF Asked
  <2>3. p.a \in x.start..x.end
    BY <1>0, <2>1
  <2> QED
    BY <2>2, <2>3
<1>3. CASE p.form = "range"
  <2>1. /\ x.start = p.a /\ p.a <= p.b /\ p.a < size
        /\ x.end = IF p.b >= size THEN size - 1 ELSE p.b
    BY <1>0, <1>3 DEF parse_range, Keep, Nothing
  <2>2. \A i : i \in x.start..x.end <=> i \in Asked(p, size)
    BY <1>0, <1>3, <2>1 DEF Asked
  <2>3. p.a \in x.start..x.end
    BY <1>0, <2>1
  <2> QED
    BY <2>2, <2>3
<1>4. CASE p.form \in {"none", "bad"}
  BY <1>4 DEF parse_range, Nothing
<1> QED
  BY <1>1, <1>2, <1>3, <1>4 DEF Piece, Forms

(* A piece that parse_ranges drops asks for nothing.                       *)
LEMMA DroppedAsksNothing ==
  ASSUME NEW size \in 0..OffMax, NEW p \in Piece, NEW any \in Offs,
         ~parse_range(p, size, any).kept
  PROVE  Asked(p, size) = {}
<1>0. OffMax \in Nat /\ p.a \in 0..OffMax /\ p.b \in (-OffMax - 1)..OffMax
  BY OffAssumption DEF Piece, Offs
<1>1. CASE p.form = "suffix"
  BY <1>1 DEF parse_range, Keep
<1>2. CASE p.form = "from"
  <2>1. p.a >= size
    BY <1>2 DEF parse_range, Keep
  <2> QED
    BY <1>0, <1>2, <2>1 DEF Asked
<1>3. CASE p.form = "range"
  <2>1. p.a > p.b \/ p.a >= size
    BY <1>3 DEF parse_range, Keep
  <2> QED
    BY <1>0, <1>3, <2>1 DEF Asked
<1>4. CASE p.form \in {"none", "bad"}
  BY <1>4 DEF Asked
<1> QED
  BY <1>1, <1>2, <1>3, <1>4 DEF Piece, Forms

(* A range that is kept and then found invalid comes from a suffix that    *)
(* asks for nothing.                                                       *)
LEMMA InvalidIsEmptySuffix ==
  ASSUME NEW size \in 0..OffMax, NEW p \in Piece, NEW any \in Offs,
         parse_range(p, size, any).kept, ~Valid(parse_range(p, size, any), size)
  PROVE  p.form = "suffix" /\ Asked(p, size) = {}
<1> DEFINE x == parse_range(p, size, any)
<1>0. OffMax \in Nat /\ p.a \in 0..OffMax /\ p.b \in (-OffMax - 1)..OffMax
  BY OffAssumption DEF Piece, Offs
<1>1. CASE p.form = "suffix"
  <2>1. x.start = (IF p.b > size THEN 0 ELSE Off(size - p.b, any)) /\ x.end = size - 1
    BY <1>1 DEF parse_range, Keep
  <2>2. CASE size = 0
    BY <1>1, <2>2 DEF Asked
  <2>3. CASE size > 0
    <3>1. p.b <= 0
      <4>1. CASE p.b > size
        BY <1>0, <2>1, <2>3, <4>1 DEF Valid
      <4>2. CASE p.b > 0 /\ p.b <= size
        <5>1. x.start = size - p.b
          BY <1>0, <2>1, <4>2 DEF Off, Offs
        <5> QED
          BY <1>0, <2>1, <4>2, <5>1 DEF Valid
      <4> QED
        BY <1>0, <4>1, <4>2
    <3> QED
      BY <1>0, <1>1, <3>1 DEF Asked
  <2> QED
    BY <1>1, <2>2, <2>3
<1>2. CASE p.form = "from"
  BY <1>0, <1>2 DEF parse_range, Keep, Nothing, Valid
<1>3. CASE p.form = "range"
  BY <1>0, <1>3 DEF parse_range, Keep, Nothing, Valid
<1>4. CASE p.form \in {"none", "bad"}
  BY <1>4 DEF parse_range, Nothing
<1> QED
  BY <1>1, <1>2, <1>3, <1>4 DEF Piece, Forms

(* Whether a piece is kept does not depend on what an overflow gives.      *)
LEMMA KeptAnyhow ==
  ASSUME NEW size, NEW p \in Piece, NEW any
  PROVE  parse_range(p, size, any).kept = parse_range(p, size, 0).kept
<1>1. CASE p.form = "suffix"
  BY <1>1 DEF parse_range, Keep
<1>2. CASE p.form = "from"
  BY <1>2 DEF parse_range, Keep, Nothing
<1>3. CASE p.form = "range"
  BY <1>3 DEF parse_range, Keep, Nothing
<1>4. CASE p.form \in {"none", "bad"}
  BY <1>4 DEF parse_range, Nothing
<1> QED
  BY <1>1, <1>2, <1>3, <1>4 DEF Piece, Forms

(* A non-empty set of indices has a first one, and only one.               *)
LEMMA FirstOfExists ==
  ASSUME NEW n \in Nat, NEW S \in SUBSET (1..n), S # {}
  PROVE  FirstOf(S) \in S /\ \A j \in S : FirstOf(S) <= j
<1>1. PICK i \in S : \A j \in S : i <= j
  BY LeastExists
<1> QED
  BY <1>1 DEF FirstOf

-----------------------------------------------------------------------------
(* The shape of a state.                                                   *)

(* No request is handled at first.                                         *)
LEMMA InitShape == Init => Shape
<1> SUFFICES ASSUME Init PROVE Shape
  OBVIOUS
<1>1. queue = <<>> /\ inbox = [c \in Conns |-> <<>>]
  BY DEF Init, PoolInit
<1>2. \A S : <<>> \in Seq(S)
  OBVIOUS
<1>3. fileSize \in 0..MaxSize
  BY ResponseAssumption DEF Init
<1> QED
  BY <1>1, <1>2, <1>3 DEF Init, Shape, Points, Busy

(* Requests that are known stay known, so what is queued stays typed.      *)
LEMMA KeepsSeqs ==
  ASSUME Shape, Known \subseteq Known'
  PROVE  /\ \A s \in Seq(Known) : s \in Seq(Known')
         /\ queue \in Seq(Known')
         /\ \A c \in Conns : inbox[c] \in Seq(Known')
<1>1. \A s \in Seq(Known) : s \in Seq(Known')
  <2> SUFFICES ASSUME NEW s \in Seq(Known) PROVE s \in Seq(Known')
    OBVIOUS
  <2>1. s \in [1..Len(s) -> Known'] /\ Len(s) \in Nat
    OBVIOUS
  <2> QED
    BY <2>1
<1> QED
  BY <1>1 DEF Shape

(* A sequence without its second element.                                  *)
LEMMA SecondSkipped ==
  ASSUME NEW S, NEW s \in Seq(S), Len(s) > 1
  PROVE  LET t == <<Head(s)>> \o Tail(Tail(s))
         IN  /\ Head(s) \in S /\ Head(Tail(s)) \in S
             /\ t \in Seq(S) /\ Len(t) = Len(s) - 1 /\ Len(s) \in Nat
             /\ t[1] = s[1]
             /\ \A i \in 2..Len(t) : t[i] = s[i + 1] /\ i + 1 \in 1..Len(s)
<1> DEFINE u == Tail(s)
           v == Tail(u)
           h == <<Head(s)>>
           t == h \o v
<1>1. /\ Head(s) \in S /\ Head(s) = s[1] /\ u \in Seq(S) /\ Len(s) \in Nat
      /\ Len(u) = Len(s) - 1 /\ \A i \in 1..Len(u) : u[i] = s[i + 1]
  BY TailElems
<1> HIDE DEF u
<1>2. u # <<>>
  <2>1. Len(u) > 0
    BY <1>1
  <2> QED
    BY <2>1
<1>3. /\ Head(u) \in S /\ v \in Seq(S) /\ Len(v) = Len(u) - 1
      /\ \A i \in 1..Len(v) : v[i] = u[i + 1] /\ i + 1 \in 1..Len(u)
  BY <1>1, <1>2, TailElems
<1>4. h \in Seq(S) /\ Len(h) = 1 /\ h[1] = s[1]
  BY <1>1
<1> HIDE DEF h, v
<1>5. /\ t \in Seq(S) /\ Len(t) = 1 + Len(v)
      /\ \A i \in 1..(1 + Len(v)) : t[i] = IF i <= 1 THEN h[i] ELSE v[i - 1]
  <2>1. /\ h \o v \in Seq(S) /\ Len(h \o v) = Len(h) + Len(v)
        /\ \A i \in 1..(Len(h) + Len(v)) :
             (h \o v)[i] = IF i <= Len(h) THEN h[i] ELSE v[i - Len(h)]
    <3>1. h \in Seq(S) /\ v \in Seq(S)
      BY <1>3, <1>4
    <3> QED
      BY ONLY <3>1, ConcatProperties, Zenon
  <2> QED
    BY <1>4, <2>1
<1> HIDE DEF t
<1>6. t[1] = s[1]
  BY <1>1, <1>3, <1>4, <1>5
<1>7. ASSUME NEW i \in 2..Len(t) PROVE t[i] = s[i + 1] /\ i + 1 \in 1..Len(s)
  <2>1. i - 1 \in 1..Len(v) /\ (i - 1) + 1 = i /\ ~(i <= 1) /\ i \in 1..(1 + Len(v))
    BY <1>1, <1>3, <1>5
  <2>2. t[i] = v[i - 1] /\ v[i - 1] = u[i] /\ i \in 1..Len(u)
    BY <1>3, <1>5, <2>1
  <2> QED
    BY <1>1, <2>2
<1>8. Len(t) = Len(s) - 1
  BY <1>1, <1>3, <1>5
<1> QED
  BY <1>1, <1>3, <1>5, <1>6, <1>7, <1>8 DEF t, h, v, u

(* Every action keeps the shape.                                           *)
LEMMA StepShape == Shape /\ [Next]_vars => Shape'
<1> SUFFICES ASSUME Shape, [Next]_vars PROVE Shape'
  OBVIOUS
<1> USE DEF Busy, Points
<1>a. ASSUME UNCHANGED <<ask, owner, inbox, queue, range, fileSize>>,
             at' \in [Requests -> Points],
             \A r \in Requests : at'[r] \in Busy => at[r] \in Busy
      PROVE  Shape'
  BY <1>a DEF Shape, Known
<1>1. ASSUME NEW r \in Requests, client_send(r) PROVE Shape'
  <2>1. PICK what \in AskRecords : ask' = [ask EXCEPT ![r] = what]
    BY <1>1, ResponseAssumption DEF client_send
  <2>2. ask' \in [Requests -> AskRecords \cup {None}] /\ r \in Known' /\ Known \subseteq Known'
    BY <2>1 DEF Shape, Known
  <2>3. inbox' \in [Conns -> Seq(Known')] /\ queue' \in Seq(Known')
    <3>1. \A c \in Conns : Append(inbox[c], r) \in Seq(Known')
      BY <2>2, KeepsSeqs
    <3> QED
      BY <1>1, <2>2, <3>1, KeepsSeqs DEF client_send, Shape, poolVars
  <2>4. at' \in [Requests -> Points] /\ \A q \in Requests : at'[q] \in Busy => q \in Known'
    BY <1>1, <2>2 DEF client_send, Shape, Go
  <2> QED
    BY <1>1, <2>2, <2>3, <2>4 DEF client_send, Shape, fileVars
<1>2. ASSUME NEW c \in Conns, client_leave(c) PROVE Shape'
  BY <1>2, <1>a DEF client_leave, Shape, poolVars, fileVars, workVars
<1>3. ASSUME NEW c \in Conns, accept_client(c) PROVE Shape'
  <2>1. owner' \in [Fds -> Conns \cup {None}]
    BY <1>3 DEF accept_client, Shape
  <2> QED
    BY <1>3, <2>1 DEF accept_client, Shape, Known, poolVars, fileVars, workVars
<1>4. CASE file_changes
  <2>1. fileSize' \in 0..MaxSize
    BY <1>4, ResponseAssumption DEF file_changes, Shape
  <2> QED
    BY <1>4, <2>1 DEF file_changes, Shape, Known, poolVars, connVars, workVars
<1>5. ASSUME NEW fd \in Fds, close_client(fd) PROVE Shape'
  <2>1. owner' \in [Fds -> Conns \cup {None}]
    BY <1>5 DEF close_client, Shape
  <2>2. inbox' \in [Conns -> Seq(Known)]
    <3>1. <<>> \in Seq(Known)
      OBVIOUS
    <3> QED
      BY <1>5, <3>1 DEF close_client, Shape
  <2> QED
    BY <1>5, <2>1, <2>2 DEF close_client, Shape, Known, poolVars, fileVars, workVars
<1>6. ASSUME NEW fd \in Fds, deal_client_msg(fd) PROVE Shape'
  <2> DEFINE r == Head(inbox[owner[fd]])
  <2>1. owner[fd] \in Conns /\ inbox[owner[fd]] \in Seq(Known) /\ inbox[owner[fd]] # <<>>
    BY <1>6 DEF deal_client_msg, Shape
  <2>2. r \in Known /\ Tail(inbox[owner[fd]]) \in Seq(Known)
    BY <2>1
  <2>3. inbox' \in [Conns -> Seq(Known)]
    BY <1>6, <2>1, <2>2 DEF deal_client_msg, Shape
  <2>4. queue' \in Seq(Known)
    <3>1. Append(queue, r) \in Seq(Known)
      BY <2>2 DEF Shape
    <3> QED
      BY <1>6, <3>1 DEF deal_client_msg, Shape, Submit, Refuse
  <2>5. \E point \in {"queued", "done"} : at' = [at EXCEPT ![r] = point]
    BY <1>6 DEF deal_client_msg, Go
  <2>6. at' \in [Requests -> Points] /\ \A q \in Requests : at'[q] \in Busy => q \in Known
    BY <2>2, <2>5 DEF Shape, Known
  <2> QED
    BY <1>6, <2>3, <2>4, <2>6 DEF deal_client_msg, msgKeeps, Shape, Known, fileVars
<1>7. CASE take_request
  <2>1. queue # <<>> /\ queue' = Tail(queue) /\ at' = [at EXCEPT ![Head(queue)] = "validate"]
    BY <1>7 DEF take_request, Take, Go
  <2>2. Head(queue) \in Known /\ Tail(queue) \in Seq(Known)
    BY <2>1 DEF Shape
  <2>3. at' \in [Requests -> Points] /\ \A q \in Requests : at'[q] \in Busy => q \in Known
    BY <2>1, <2>2 DEF Shape, Known
  <2> QED
    BY <1>7, <2>1, <2>2, <2>3
       DEF take_request, calmKeeps, workKeeps, connVars, fileVars, Shape, Known
<1>8. ASSUME NEW r \in Requests, handle_request(r) PROVE Shape'
  <2>1. at[r] \in Busy /\ UNCHANGED <<ask, owner, inbox, fileSize, queue>>
    BY <1>8 DEF handle_request, validate_file, stat_file, send_header, open_file,
                sendfile_some, SendBytes, Sending, sendfile_none, sendfile_failed,
                sendfile_done, reply_error,
                calmKeeps, workKeeps, connVars, fileVars, poolVars, Fail, Proceed,
                Announce, AnnounceUpTo, Terminate, Die, Finish
  <2>2. at' = at \/ \E point \in Points : at' = [at EXCEPT ![r] = point]
    BY <1>8 DEF handle_request, validate_file, stat_file, send_header, open_file,
                sendfile_some, SendBytes, Sending, sendfile_none, sendfile_failed,
                sendfile_done, reply_error,
                Fail, Proceed, Announce, AnnounceUpTo, Terminate, Go
  <2>3. DOMAIN range' = Requests
    BY <1>8 DEF handle_request, validate_file, stat_file, send_header, open_file,
                sendfile_some, SendBytes, Sending, sendfile_none, sendfile_failed,
                sendfile_done, reply_error,
                Fail, Proceed, Announce, AnnounceUpTo, Terminate, Shape
  <2>4. at' \in [Requests -> Points] /\ \A q \in Requests : at'[q] \in Busy => at[q] \in Busy
    BY <2>1, <2>2 DEF Shape
  <2> QED
    BY <2>1, <2>3, <2>4 DEF Shape, Known
<1>9. ASSUME NEW r \in Requests, system_refuses(r) PROVE Shape'
  <2>1. at[r] \in Busy /\ at' = [at EXCEPT ![r] = "error"]
    BY <1>9 DEF system_refuses, open_refused, sendfile_refused, Sending, Fail, Go
  <2>2. UNCHANGED <<ask, owner, inbox, fileSize, queue, range>>
    BY <1>9 DEF system_refuses, open_refused, sendfile_refused, Fail, workKeeps, connVars,
                fileVars, poolVars
  <2>3. at' \in [Requests -> Points] /\ \A q \in Requests : at'[q] \in Busy => at[q] \in Busy
    BY <2>1 DEF Shape
  <2> QED
    BY <1>a, <2>2, <2>3
<1>10. ASSUME NEW fd \in Fds, recv_past_end(fd) PROVE Shape'
  <2> DEFINE c    == owner[fd]
             r    == Head(inbox[c])
             next == Head(Tail(inbox[c]))
  <2>1. c \in Conns /\ inbox[c] \in Seq(Known) /\ Len(inbox[c]) > 1
    BY <1>10 DEF recv_past_end, Shape
  <2>2. r \in Known /\ next \in Known /\ <<r>> \o Tail(Tail(inbox[c])) \in Seq(Known)
    <3> HIDE DEF c
    <3> QED
      BY <2>1, SecondSkipped
  <2>3. ask[r] \in AskRecords /\ ask[next] \in AskRecords
    BY <2>2 DEF Known
  <2>4. [ask[r] EXCEPT !.lines = @ \o ask[next].lines] \in AskRecords
    <3> HIDE DEF r, next
    <3>1. ask[r].lines \in Seq(Line) /\ ask[next].lines \in Seq(Line)
      BY <2>3 DEF AskRecords
    <3>2. ask[r].lines \o ask[next].lines \in Seq(Line)
      BY <3>1
    <3> QED
      BY <2>3, <3>2 DEF AskRecords
  <2>5. ask' = [ask EXCEPT ![r] = [ask[r] EXCEPT !.lines = @ \o ask[next].lines]]
    BY <1>10 DEF recv_past_end
  <2>6. ask' \in [Requests -> AskRecords \cup {None}] /\ Known \subseteq Known'
    BY <2>4, <2>5 DEF Shape, Known
  <2>7. inbox' \in [Conns -> Seq(Known')] /\ queue' \in Seq(Known')
    <3>1. inbox' = [inbox EXCEPT ![c] = <<r>> \o Tail(Tail(inbox[c]))]
      BY <1>10 DEF recv_past_end
    <3>2. <<r>> \o Tail(Tail(inbox[c])) \in Seq(Known')
      BY <2>2, <2>6, KeepsSeqs
    <3>3. queue' = queue
      BY <1>10 DEF recv_past_end, poolVars
    <3> QED
      BY <2>6, <3>1, <3>2, <3>3, KeepsSeqs DEF Shape
  <2> QED
    BY <1>10, <2>6, <2>7 DEF recv_past_end, Shape, fileVars, workVars
<1>11. CASE UNCHANGED vars
  BY <1>11, <1>a DEF vars, connVars, poolVars, fileVars, workVars, Shape
<1> QED
  BY <1>1, <1>2, <1>3, <1>4, <1>5, <1>6, <1>7, <1>8, <1>9, <1>10, <1>11 DEF Next

(* Every reachable state has the shape.                                    *)
LEMMA Shaped == Spec => []Shape
<1> QED
  BY InitShape, StepShape, PTL DEF Spec

-----------------------------------------------------------------------------
(* What stat_file announces.                                               *)

(* No suffix overflows.                                                    *)
Unspoilt(pieces) == \A i \in 1..Len(pieces) : ~Overflows(pieces[i], fileSize)

(* The first piece that is kept, if its range is valid and no suffix       *)
(* overflows, is the first one that is satisfiable; and if it is not       *)
(* valid, it is an empty suffix before the first satisfiable one.          *)
LEMMA FirstKeptIsFirst ==
  ASSUME NEW pieces \in Seq(Piece), fileSize \in 0..OffMax, NEW any \in Offs,
         Kept(pieces, fileSize) # {}
  PROVE  LET k    == FirstKept(pieces, fileSize)
             x    == parse_range(pieces[k], fileSize, any)
             some == Satisfiable(pieces)
         IN  /\ Valid(x, fileSize) /\ Unspoilt(pieces) =>
                  /\ some # {} /\ FirstOf(some) = k
                  /\ x.start..x.end = Asked(pieces[k], fileSize)
             /\ ~Valid(x, fileSize) /\ some # {} =>
                  /\ k \in 1..(FirstOf(some) - 1)
                  /\ pieces[k].form = "suffix" /\ Asked(pieces[k], fileSize) = {}
<1> DEFINE K == Kept(pieces, fileSize)
           k == FirstKept(pieces, fileSize)
           x == parse_range(pieces[k], fileSize, any)
           some == Satisfiable(pieces)
<1>0. Len(pieces) \in Nat /\ \A i \in 1..Len(pieces) : pieces[i] \in Piece
  OBVIOUS
<1>1. K \in SUBSET (1..Len(pieces)) /\ some \in SUBSET (1..Len(pieces))
  BY DEF Kept, Satisfiable
<1>2. k \in K /\ \A j \in K : k <= j
  <2>1. FirstOf(K) \in K /\ \A j \in K : FirstOf(K) <= j
    BY <1>0, <1>1, FirstOfExists
  <2>2. k = FirstOf(K)
    BY DEF FirstKept
  <2> QED
    BY <2>1, <2>2
<1>3. k \in 1..Len(pieces) /\ pieces[k] \in Piece /\ x.kept
  BY <1>0, <1>1, <1>2, KeptAnyhow DEF Kept
<1>4. \A j \in some : j \in K
  <2>1. 0 \in Offs
    BY OffAssumption DEF Offs
  <2> QED
    BY <1>0, <1>1, <2>1, DroppedAsksNothing DEF Satisfiable, Kept
<1>5. some # {} => FirstOf(some) \in some /\ \A j \in some : FirstOf(some) <= j
  BY <1>0, <1>1, FirstOfExists
<1>6. some # {} => k <= FirstOf(some) /\ FirstOf(some) \in 1..Len(pieces)
  BY <1>1, <1>2, <1>4, <1>5
<1>7. ASSUME Valid(x, fileSize), Unspoilt(pieces)
      PROVE  some # {} /\ FirstOf(some) = k /\ x.start..x.end = Asked(pieces[k], fileSize)
  <2>1. x.start..x.end = Asked(pieces[k], fileSize) /\ Asked(pieces[k], fileSize) # {}
    BY <1>3, <1>7, ValidIsAsked DEF Unspoilt
  <2>2. k \in some
    BY <1>3, <2>1 DEF Satisfiable
  <2>3. FirstOf(some) <= k
    BY <1>5, <2>2
  <2>4. FirstOf(some) = k
    BY <1>3, <1>6, <2>2, <2>3
  <2> QED
    BY <1>7, <2>1, <2>2, <2>4
<1>8. CASE ~Valid(x, fileSize)
  <2>1. pieces[k].form = "suffix" /\ Asked(pieces[k], fileSize) = {}
    BY <1>3, <1>8, InvalidIsEmptySuffix
  <2>2. k \notin some
    BY <2>1 DEF Satisfiable
  <2>3. some # {} => k \in 1..(FirstOf(some) - 1)
    BY <1>3, <1>5, <1>6, <2>2
  <2> QED
    BY <1>8, <2>1, <2>3
<1> QED
  BY <1>7, <1>8

(* Without a kept piece none is satisfiable.                               *)
LEMMA NoneKept ==
  ASSUME NEW pieces \in Seq(Piece), fileSize \in 0..OffMax, Kept(pieces, fileSize) = {}
  PROVE  Satisfiable(pieces) = {}
<1>1. \A i \in 1..Len(pieces) : pieces[i] \in Piece
  OBVIOUS
<1>2. 0 \in Offs
  BY OffAssumption DEF Offs
<1> QED
  BY <1>1, <1>2, DroppedAsksNothing DEF Satisfiable, Kept

(* If no other line with "Range:" in it is in front of the Range line, the *)
(* request is taken for a range request with that line's pieces.           *)
LEMMA FoundLine ==
  ASSUME NEW lines \in Seq(Line), Plain(lines)
  PROVE  /\ is_range_request(lines)
         /\ MeantPieces(lines) \in Seq(Piece)
         /\ range_header(lines) = MeantPieces(lines)
<1> DEFINE M == Meant(lines)
           F == RangeLines(lines)
           m == FirstOf(M)
           f == FirstOf(F)
<1>0. Len(lines) \in Nat /\ \A i \in 1..Len(lines) : lines[i] \in Line
  OBVIOUS
<1>1. M \in SUBSET (1..Len(lines)) /\ F \in SUBSET (1..Len(lines)) /\ M \subseteq F
  BY DEF Meant, RangeLines
<1>2. PICK i \in M : \A j \in 1..(i - 1) : lines[j].name = "other"
  BY DEF Plain
<1>3. m \in M /\ \A j \in M : m <= j
  BY <1>0, <1>1, <1>2, FirstOfExists
<1>4. f \in F /\ \A j \in F : f <= j
  BY <1>0, <1>1, <1>2, FirstOfExists
<1>5. f >= i
  <2> SUFFICES ASSUME f < i PROVE FALSE
    BY <1>1, <1>4
  <2>1. f \in 1..(i - 1)
    BY <1>1, <1>4
  <2>2. lines[f].name = "other"
    BY <1>2, <2>1
  <2> QED
    BY <1>4, <2>2 DEF RangeLines
<1>6. f = m
  BY <1>1, <1>2, <1>3, <1>4, <1>5
<1>7. lines[m].pieces \in Seq(Piece)
  BY <1>0, <1>1, <1>3 DEF Line
<1> QED
  BY <1>1, <1>3, <1>6, <1>7 DEF range_header, MeantPieces, is_range_request

(* stat_file announces what RangeStep says.                                *)
LEMMA StatStep ==
  ASSUME Shape, NEW r \in Requests, stat_file(r)
  PROVE  RangeStep(r)
<1> DEFINE lines == ask[r].lines
           pieces == range_header(lines)
           k == FirstKept(pieces, fileSize)
           some == Satisfiable(pieces)
<1> SUFFICES ASSUME at[r] = "stat", Plain(lines), linked,
                    MeantPieces(lines) = pieces, pieces \in Seq(Piece),
                    is_range_request(lines)
             PROVE  /\ at'[r] = "header" /\ Unspoilt(pieces) =>
                         /\ some # {}
                         /\ range'[r].start..range'[r].end
                              = Asked(pieces[FirstOf(some)], fileSize)
                    /\ at'[r] = "error" /\ some # {} =>
                         \E i \in 1..(FirstOf(some) - 1) :
                           pieces[i].form = "suffix" /\ Asked(pieces[i], fileSize) = {}
  <2>1. at[r] = "stat" => lines \in Seq(Line)
    BY DEF Shape, Known, AskRecords, Busy
  <2> QED
    BY <2>1, FoundLine DEF RangeStep, Unspoilt
<1>1. fileSize \in 0..OffMax
  BY ResponseAssumption, OffAssumption DEF Shape
<1>2. PICK any \in Offs :
        LET x == parse_range(pieces[k], fileSize, any)
        IN  IF Throws(pieces) THEN Terminate
            ELSE IF Kept(pieces, fileSize) = {} THEN Fail(r, "400")
            ELSE IF ~Valid(x, fileSize) THEN Fail(r, "400")
            ELSE Announce(r, x.start, x.end)
  BY DEF stat_file
<1> DEFINE x == parse_range(pieces[k], fileSize, any)
<1>4. CASE Throws(pieces)
  <2>1. at' = at
    BY <1>2, <1>4 DEF Terminate
  <2> QED
    BY <2>1
<1>5. CASE ~Throws(pieces) /\ Kept(pieces, fileSize) = {}
  <2>1. at' = [at EXCEPT ![r] = "error"]
    BY <1>2, <1>5 DEF Fail, Go
  <2>2. some = {}
    <3> HIDE DEF pieces
    <3> QED
      BY <1>1, <1>5, NoneKept
  <2> QED
    BY <2>1, <2>2 DEF Shape
<1>7. CASE ~Throws(pieces) /\ Kept(pieces, fileSize) # {} /\ ~Valid(x, fileSize)
  <2>1. at' = [at EXCEPT ![r] = "error"]
    BY <1>2, <1>7 DEF Fail, Go
  <2>2. some # {} =>
          /\ k \in 1..(FirstOf(some) - 1)
          /\ pieces[k].form = "suffix" /\ Asked(pieces[k], fileSize) = {}
    <3> HIDE DEF pieces
    <3> QED
      BY <1>1, <1>7, FirstKeptIsFirst
  <2> QED
    BY <2>1, <2>2 DEF Shape
<1>8. CASE ~Throws(pieces) /\ Kept(pieces, fileSize) # {} /\ Valid(x, fileSize)
  <2>1. /\ at' = [at EXCEPT ![r] = "header"]
        /\ range' = [range EXCEPT ![r] = [start |-> x.start, end |-> x.end]]
    BY <1>2, <1>8 DEF Announce, AnnounceUpTo, Go
  <2>2. Unspoilt(pieces) =>
          some # {} /\ FirstOf(some) = k /\ x.start..x.end = Asked(pieces[k], fileSize)
    <3> HIDE DEF pieces
    <3> QED
      BY <1>1, <1>8, FirstKeptIsFirst
  <2>3. at'[r] = "header" /\ range'[r].start = x.start /\ range'[r].end = x.end
    BY <2>1 DEF Shape
  <2> QED
    BY <2>2, <2>3
<1> QED
  BY <1>4, <1>5, <1>7, <1>8

(* No other step takes a request on from stat.                             *)
LEMMA OtherSteps ==
  ASSUME Shape, [Next]_vars, NEW r \in Requests, at[r] = "stat", ~stat_file(r)
  PROVE  at'[r] \notin {"header", "error"}
<1>1. ASSUME NEW q \in Requests, client_send(q) PROVE at'[r] = at[r]
  BY <1>1 DEF client_send, Go, Shape
<1>2. ASSUME NEW c \in Conns, client_leave(c) \/ accept_client(c) PROVE at'[r] = at[r]
  BY <1>2 DEF client_leave, accept_client, workVars
<1>3. CASE file_changes
  BY <1>3 DEF file_changes, workVars
<1>4. ASSUME NEW fd \in Fds, close_client(fd) PROVE at'[r] = at[r]
  BY <1>4 DEF close_client, workVars
<1>5. ASSUME NEW fd \in Fds, deal_client_msg(fd) PROVE at'[r] \in {"stat", "queued", "done"}
  <2> DEFINE q == Head(inbox[owner[fd]])
  <2>1. \E point \in {"queued", "done"} : at' = [at EXCEPT ![q] = point]
    BY <1>5 DEF deal_client_msg, Go
  <2> QED
    BY <2>1 DEF Shape
<1>6. CASE take_request
  BY <1>6 DEF take_request, Go, Shape
<1>7. ASSUME NEW q \in Requests, handle_request(q) PROVE at'[r] = at[r]
  <2>1. q # r
    BY <1>7 DEF handle_request, validate_file, send_header, open_file, sendfile_some,
        SendBytes, Sending,
                sendfile_none, sendfile_failed, sendfile_done, reply_error
  <2>2. at' = at \/ \E point \in Points : at' = [at EXCEPT ![q] = point]
    BY <1>7 DEF handle_request, validate_file, stat_file, send_header, open_file,
                sendfile_some, SendBytes, Sending, sendfile_none, sendfile_failed,
                sendfile_done, reply_error,
                Fail, Proceed, Announce, AnnounceUpTo, Terminate, Go, Points
  <2> QED
    BY <2>1, <2>2 DEF Shape
<1>8. CASE UNCHANGED vars
  BY <1>8 DEF vars, workVars
<1>9. ASSUME NEW fd \in Fds, recv_past_end(fd) PROVE at'[r] = at[r]
  BY <1>9 DEF recv_past_end, workVars
<1>10. ASSUME NEW q \in Requests, system_refuses(q) PROVE at'[r] = at[r]
  <2>1. q # r /\ at' = [at EXCEPT ![q] = "error"]
    BY <1>10 DEF system_refuses, open_refused, sendfile_refused, Sending, Fail, Go
  <2> QED
    BY <2>1 DEF Shape
<1> QED
  BY <1>1, <1>2, <1>3, <1>4, <1>5, <1>6, <1>7, <1>8, <1>9, <1>10 DEF Next

(* Unless another line with "Range:" in it comes first, every range        *)
(* response announces just the bytes that the first satisfiable piece of   *)
(* the Range line asks for (if no suffix in it overflows), and such a      *)
(* request for an existing file is refused only when there is no such      *)
(* piece or an empty suffix comes first: for all headers, all sizes, and   *)
(* whatever an overflow gives (http_request.cpp:69-152, http_server.cpp:   *)
(* 153-167).                                                               *)
THEOREM RangesAnswered == Spec => RangeAsAsked
<1>1. ASSUME Shape, [Next]_vars PROVE \A r \in Requests : RangeStep(r)
  <2> SUFFICES ASSUME NEW r \in Requests PROVE RangeStep(r)
    OBVIOUS
  <2>1. CASE stat_file(r)
    BY <1>1, <2>1, StatStep, Zenon
  <2>2. CASE ~stat_file(r) /\ at[r] = "stat"
    <3>1. at'[r] # "header" /\ at'[r] # "error"
      BY <1>1, <2>2, OtherSteps
    <3> QED
      BY <3>1 DEF RangeStep
  <2>3. CASE at[r] # "stat"
    BY <2>3 DEF RangeStep
  <2> QED
    BY <2>1, <2>2, <2>3
<1> QED
  BY <1>1, Shaped, PTL DEF Spec, RangeAsAsked

=============================================================================
