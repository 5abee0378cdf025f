-------------------------- MODULE HeaderReader_proofs --------------------------
(***************************************************************************)
(* What recv_with_eof returns, for every number of connections, every      *)
(* stream of requests, every terminator's length and every max_size.  IInv *)
(* says where each call stands: a lemma for each action shows that it      *)
(* keeps all parts of IInv.                                                *)
(***************************************************************************)
EXTENDS HeaderReader, SequenceTheorems, TLAPS

Header == [from : Nat, to : Nat]

-----------------------------------------------------------------------------
(* The positions at which requests end, and the last string returned.      *)
LEMMA StreamFacts ==
  ASSUME TypeOK, NEW c \in Conns
  PROVE  /\ EOF_LEN \in Nat \ {0} /\ MAX_SIZE \in Nat \ {0}
         /\ Len(ends[c]) \in Nat \ {0}
         /\ Length(c) \in Nat
         /\ \A i \in 1..Len(ends[c]) : ends[c][i] \in Nat /\ ends[c][i] >= EOF_LEN
         /\ \A i, j \in 1..Len(ends[c]) : i < j => ends[c][i] + EOF_LEN <= ends[c][j]
         /\ \A i \in 0..Len(ends[c]) : End(c, i) \in Nat
<1>1. ends[c] \in Streams
  BY DEF TypeOK
<1>2. ends[c] \in Seq(Nat) /\ ends[c] # <<>>
  BY <1>1, ReaderAssumption
<1>3. Len(ends[c]) \in Nat \ {0}
  BY <1>2, EmptySeq, LenProperties
<1>4. \A i \in 1..Len(ends[c]) : ends[c][i] \in Nat
  BY <1>2, ElementOfSeq
<1>5. EOF_LEN \in Nat \ {0} /\ MAX_SIZE \in Nat \ {0}
  BY ReaderAssumption
<1>6. /\ \A i \in 1..Len(ends[c]) : ends[c][i] >= EOF_LEN
      /\ \A i, j \in 1..Len(ends[c]) : i < j => ends[c][i] + EOF_LEN <= ends[c][j]
  BY <1>1, ReaderAssumption
<1> QED
  BY <1>3, <1>4, <1>5, <1>6 DEF Length, End

(* What was returned, by its type.                                         *)
LEMMA HeadFacts ==
  ASSUME TypeOK, NEW c \in Conns
  PROVE  /\ heads[c] \in Seq(Header) /\ Len(heads[c]) \in Nat
         /\ \A i \in 1..Len(heads[c]) :
              heads[c][i] \in Header /\ heads[c][i].from \in Nat /\ heads[c][i].to \in Nat
         /\ (heads[c] = <<>> <=> Len(heads[c]) = 0)
         /\ LastEnd(c) \in Nat
<1>1. heads[c] \in Seq(Header)
  BY DEF TypeOK, Header
<1>2. Len(heads[c]) \in Nat /\ (heads[c] = <<>> <=> Len(heads[c]) = 0)
  BY <1>1, EmptySeq, LenProperties
<1>3. \A i \in 1..Len(heads[c]) :
        heads[c][i] \in Header /\ heads[c][i].from \in Nat /\ heads[c][i].to \in Nat
  <2> SUFFICES ASSUME NEW i \in 1..Len(heads[c])
               PROVE  heads[c][i] \in Header
    BY DEF Header
  <2> QED BY <1>1, ElementOfSeq
<1> QED
  BY <1>1, <1>2, <1>3 DEF LastEnd

(* A client that waits has as many requests behind it as were returned,    *)
(* and the last of them ends where the reader stands.                      *)
LEMMA WaitingFacts ==
  ASSUME IInv, NEW c \in Conns \ failed, c \notin pipelined
  PROVE  /\ Len(heads[c]) <= Len(ends[c])
         /\ Position(c) = End(c, Len(heads[c]))
<1> DEFINE n == Len(heads[c])
<1>1. n \in Nat /\ (heads[c] = <<>> <=> n = 0)
  BY HeadFacts DEF IInv
<1>2. Position(c) = LastEnd(c)
  BY DEF IInv, Adjoined
<1>3. CASE n = 0
  <2>1. Len(ends[c]) \in Nat
    BY StreamFacts DEF IInv
  <2> QED BY <1>1, <1>2, <1>3, <2>1 DEF LastEnd, End
<1>4. CASE n # 0
  <2>1. n \in 1..n
    BY <1>1, <1>4
  <2>2. n <= Len(ends[c]) /\ heads[c][n] = Request(c, n)
    BY <2>1 DEF IInv, HeadsWhole
  <2>3. heads[c][n].to = End(c, n)
    BY <2>2 DEF Request
  <2> QED BY <1>1, <1>2, <1>4, <2>2, <2>3 DEF LastEnd
<1> QED BY <1>3, <1>4

-----------------------------------------------------------------------------
(* HeadsWhole is about what was returned and no more.                      *)
LEMMA SameHeads ==
  ASSUME HeadsWhole, UNCHANGED <<ends, heads, failed>>, pipelined \subseteq pipelined'
  PROVE  HeadsWhole'
<1>1. \A c \in Conns : Ends(c)' = Ends(c)
  BY DEF Ends
<1>2. \A c, i : Request(c, i)' = Request(c, i)
  BY DEF Request, End
<1> QED BY <1>1, <1>2 DEF HeadsWhole

(* Nothing has been written, read or returned.                             *)
LEMMA InitIInv == Init => IInv
<1> SUFFICES ASSUME Init PROVE IInv
  OBVIOUS
<1>1. \A c \in Conns : heads[c] = <<>> /\ heads[c] \in Seq(Header) /\ Len(heads[c]) = 0
  BY EmptySeq DEF Init
<1>2. TypeOK
  BY <1>1 DEF Init, TypeOK, Header
<1>3. ReadSoFar
  BY <1>2, StreamFacts DEF Init, ReadSoFar
<1>4. Adjoined
  BY <1>1 DEF Init, Adjoined, Position, LastEnd
<1>5. NotAhead
  BY <1>2, StreamFacts DEF Init, NotAhead
<1>6. HeadsWhole /\ ThrowsForCause
  BY <1>1 DEF Init, HeadsWhole, ThrowsForCause
<1> QED BY <1>2, <1>3, <1>4, <1>5, <1>6 DEF IInv

(* What the parts of IInv say of a connection does not change with the     *)
(* arrival of bytes, except for what was announced ahead.                  *)
LEMMA WriteStep ==
  ASSUME IInv, NEW c \in Conns, client_write(c)
  PROVE  IInv'
<1>1. PICK n \in (arrived[c] + 1)..Length(c) :
        /\ arrived' = [arrived EXCEPT ![c] = n]
        /\ pipelined' =
             IF \E i \in DOMAIN ends[c] : i > Len(heads[c]) /\ n > End(c, i)
             THEN pipelined \cup {c} ELSE pipelined
  BY DEF client_write
<1>2. UNCHANGED <<ends, peer, event, current, start, taken, heads, failed>>
  BY DEF client_write, callVars
<1>3. Length(c) \in Nat /\ arrived[c] \in Nat /\ n \in Nat /\ n <= Length(c) /\ arrived[c] <= n
  BY StreamFacts DEF IInv, TypeOK
<1>4. pipelined \subseteq pipelined' /\ pipelined' \subseteq Conns
  BY <1>1 DEF IInv, TypeOK
<1>5. TypeOK'
  BY <1>1, <1>2, <1>3, <1>4 DEF IInv, TypeOK
<1>6. ReadSoFar'
  <2>1. \A d \in Conns : taken[d] \in Nat /\ arrived[d] \in Nat
    BY DEF IInv, TypeOK
  <2>2. \A d \in Conns : Length(d)' = Length(d)
    BY <1>2 DEF Length
  <2>3. \A d \in Conns : taken'[d] <= arrived'[d] /\ arrived'[d] <= Length(d)'
    BY <1>1, <1>2, <1>3, <2>1, <2>2 DEF IInv, ReadSoFar, TypeOK
  <2> QED BY <1>2, <2>3 DEF IInv, ReadSoFar
<1>7. Adjoined'
  BY <1>2 DEF IInv, Adjoined, Position, LastEnd
<1>8. NotAhead'
  <2> SUFFICES ASSUME NEW d \in Conns \ pipelined', NEW i \in 1..Len(ends[d]),
                      i > Len(heads[d])
               PROVE  arrived'[d] <= ends[d][i]
    BY <1>2 DEF NotAhead
  <2>1. d \notin pipelined /\ arrived[d] <= ends[d][i]
    BY <1>4 DEF IInv, NotAhead
  <2>2. CASE d # c
    BY <1>1, <2>1, <2>2 DEF IInv, TypeOK
  <2>3. CASE d = c
    <3>1. ends[c] \in Seq(Nat)
      BY ReaderAssumption DEF IInv, TypeOK
    <3>2. i \in DOMAIN ends[c] /\ End(c, i) = ends[c][i] /\ ends[c][i] \in Nat
      BY <2>3, <3>1, LenProperties, ElementOfSeq DEF End
    <3>3. ~(n > End(c, i))
      BY <1>1, <2>3, <3>2
    <3> QED BY <1>1, <1>3, <2>3, <3>2, <3>3 DEF IInv, TypeOK
  <2> QED BY <2>2, <2>3
<1>9. HeadsWhole'
  BY <1>2, <1>4, SameHeads DEF IInv
<1>10. ThrowsForCause'
  BY <1>2, <1>4 DEF IInv, ThrowsForCause, End
<1> QED BY <1>5, <1>6, <1>7, <1>8, <1>9, <1>10 DEF IInv

(* No part of IInv mentions that a peer has not left.                      *)
LEMMA LeaveStep ==
  ASSUME IInv, NEW c \in Conns, client_leave(c)
  PROVE  IInv'
<1>1. peer' = [peer EXCEPT ![c] = "gone"]
  BY DEF client_leave
<1>2. UNCHANGED <<ends, arrived, pipelined, event, current, start, taken, heads, failed>>
  BY DEF client_leave, callVars
<1>3. TypeOK'
  BY <1>1, <1>2 DEF IInv, TypeOK
<1>4. ReadSoFar' /\ Adjoined' /\ NotAhead'
  BY <1>2 DEF IInv, ReadSoFar, Adjoined, NotAhead, Position, LastEnd, Length
<1>5. HeadsWhole'
  BY <1>2, SameHeads DEF IInv
<1>6. ThrowsForCause'
  BY <1>1, <1>2 DEF IInv, ThrowsForCause, End, TypeOK
<1> QED BY <1>3, <1>4, <1>5, <1>6 DEF IInv

(* epoll_wait changes the batch only.                                      *)
LEMMA WaitStep ==
  ASSUME IInv, epoll_wait
  PROVE  IInv'
<1>1. UNCHANGED <<ends, arrived, peer, pipelined, current, start, taken, heads, failed>>
  BY DEF epoll_wait, callVars, clientVars
<1>2. event' \subseteq Event
  BY DEF epoll_wait, Event
<1>3. TypeOK'
  BY <1>1, <1>2 DEF IInv, TypeOK
<1>4. ReadSoFar' /\ Adjoined' /\ NotAhead'
  BY <1>1 DEF IInv, ReadSoFar, Adjoined, NotAhead, Position, LastEnd, Length
<1>5. HeadsWhole'
  BY <1>1, SameHeads DEF IInv
<1>6. ThrowsForCause'
  BY <1>1 DEF IInv, ThrowsForCause, End
<1> QED BY <1>3, <1>4, <1>5, <1>6 DEF IInv

(* A connection is closed where it stands.                                 *)
LEMMA CloseStep ==
  ASSUME IInv, NEW e \in event, close_client(e)
  PROVE  IInv'
<1>1. /\ peer' = [peer EXCEPT ![e.conn] = "closed"]
      /\ event' = event \ {e}
  BY DEF close_client
<1>2. UNCHANGED <<ends, arrived, pipelined, current, start, taken, heads, failed>>
  BY DEF close_client, callVars
<1>3. TypeOK'
  BY <1>1, <1>2 DEF IInv, TypeOK
<1>4. ReadSoFar' /\ Adjoined' /\ NotAhead'
  BY <1>2 DEF IInv, ReadSoFar, Adjoined, NotAhead, Position, LastEnd, Length
<1>5. HeadsWhole'
  BY <1>2, SameHeads DEF IInv
<1>6. ThrowsForCause'
  BY <1>1, <1>2 DEF IInv, ThrowsForCause, End, TypeOK
<1> QED BY <1>3, <1>4, <1>5, <1>6 DEF IInv

(* The call begins where the connection was left.                          *)
LEMMA BeginStep ==
  ASSUME IInv, NEW e \in event, recv_begin(e)
  PROVE  IInv'
<1>1. /\ current = None /\ current' = e.conn /\ start' = taken[e.conn]
      /\ event' = event \ {e}
  BY DEF recv_begin
<1>2. UNCHANGED <<ends, arrived, peer, pipelined, taken, heads, failed>>
  BY DEF recv_begin, clientVars
<1>3. e.conn \in Conns /\ taken[e.conn] \in Nat /\ None \notin Conns
  BY ReaderAssumption DEF IInv, TypeOK, Event
<1>4. TypeOK'
  BY <1>1, <1>2, <1>3 DEF IInv, TypeOK
<1>5. ReadSoFar'
  <2>1. MAX_SIZE > 0 /\ MAX_SIZE \in Nat
    BY ReaderAssumption
  <2>2. start' <= taken'[current'] /\ taken'[current'] - start' < MAX_SIZE
    BY <1>1, <1>2, <1>3, <2>1
  <2> QED BY <1>1, <1>2, <2>2 DEF IInv, ReadSoFar, Length
<1>6. Adjoined'
  <2>1. \A c \in Conns : Position(c)' = Position(c)
    BY <1>1, <1>2, <1>3 DEF Position
  <2> QED BY <1>2, <2>1 DEF IInv, Adjoined, LastEnd
<1>7. NotAhead' /\ ThrowsForCause'
  BY <1>2 DEF IInv, NotAhead, ThrowsForCause, End
<1>8. HeadsWhole'
  BY <1>2, SameHeads DEF IInv
<1> QED BY <1>4, <1>5, <1>6, <1>7, <1>8 DEF IInv

-----------------------------------------------------------------------------
(* How far one recv goes.                                                  *)
LEMMA ReadFacts ==
  ASSUME IInv, NEW c \in Conns, c = current, taken[c] < arrived[c],
         NEW to, to = taken[c] + Least(EOF_LEN, arrived[c] - taken[c])
  PROVE  /\ start \in Nat /\ taken[c] \in Nat /\ arrived[c] \in Nat /\ to \in Nat
         /\ start <= taken[c] /\ taken[c] < to /\ to <= arrived[c]
         /\ arrived[c] <= Length(c) /\ to <= taken[c] + EOF_LEN
         /\ taken[c] - start < MAX_SIZE
<1>1. start \in Nat /\ taken[c] \in Nat /\ arrived[c] \in Nat
  BY DEF IInv, TypeOK
<1>2. None # c
  BY ReaderAssumption
<1>3. /\ start <= taken[c] /\ taken[c] - start < MAX_SIZE /\ arrived[c] <= Length(c)
  BY <1>2 DEF IInv, ReadSoFar
<1>4. EOF_LEN \in Nat \ {0}
  BY ReaderAssumption
<1> QED BY <1>1, <1>3, <1>4 DEF Least

(* On a connection whose client waits, recv does not go beyond the next    *)
(* request's end, and what it finds to be a terminator is that end.        *)
LEMMA NextRequest ==
  ASSUME IInv, NEW c \in Conns, c = current, c \notin failed, c \notin pipelined,
         taken[c] < arrived[c],
         NEW to, to = taken[c] + Least(EOF_LEN, arrived[c] - taken[c])
  PROVE  LET n == Len(heads[c])
         IN  /\ n \in Nat /\ n + 1 \in 1..Len(ends[c])
             /\ start = End(c, n)
             /\ start < to /\ to <= End(c, n + 1)
             /\ End(c, n) + EOF_LEN <= End(c, n + 1)
             /\ End(c, n) \in Nat /\ End(c, n + 1) \in Nat
             /\ to \in Ends(c) => to = End(c, n + 1)
             /\ to = End(c, n + 1) => to \in Ends(c)
<1> DEFINE n == Len(heads[c])
           m == Len(ends[c])
<1>1. n \in Nat /\ n <= m /\ m \in Nat \ {0} /\ start = End(c, n) /\ End(c, n) \in Nat
  <2>1. start = Position(c)
    BY DEF Position
  <2>2. n \in Nat
    BY HeadFacts DEF IInv
  <2>3. m \in Nat \ {0} /\ \A i \in 0..m : End(c, i) \in Nat
    BY StreamFacts DEF IInv
  <2>4. n <= m /\ Position(c) = End(c, n)
    BY WaitingFacts
  <2> QED BY <2>1, <2>2, <2>3, <2>4
<1>2. /\ start < to /\ to \in Nat /\ to <= arrived[c] /\ arrived[c] \in Nat
      /\ arrived[c] <= Length(c)
  BY ReadFacts
<1>3. /\ EOF_LEN \in Nat \ {0} /\ Length(c) \in Nat
      /\ \A i \in 1..m : ends[c][i] \in Nat /\ ends[c][i] >= EOF_LEN
      /\ \A i, j \in 1..m : i < j => ends[c][i] + EOF_LEN <= ends[c][j]
  BY StreamFacts DEF IInv
<1>4. n # m
  <2> SUFFICES ASSUME n = m PROVE FALSE
    OBVIOUS
  <2>1. End(c, n) = Length(c)
    BY <1>1 DEF End, Length
  <2> QED BY <1>1, <1>2, <1>3, <2>1
<1>5. n + 1 \in 1..m
  BY <1>1, <1>4
<1>6. End(c, n + 1) = ends[c][n + 1] /\ End(c, n + 1) \in Nat
  BY <1>1, <1>3, <1>5 DEF End
<1>7. to <= End(c, n + 1)
  <2>1. arrived[c] <= ends[c][n + 1]
    BY <1>1, <1>5 DEF IInv, NotAhead
  <2> QED BY <1>2, <1>6, <2>1
<1>8. End(c, n) + EOF_LEN <= End(c, n + 1)
  BY <1>1, <1>3, <1>5, <1>6 DEF End
<1>9. ASSUME to \in Ends(c) PROVE to = End(c, n + 1)
  <2>1. PICK i \in 1..m : to = ends[c][i]
    BY <1>9 DEF Ends
  <2>2. ~(i < n + 1)
    <3> SUFFICES ASSUME i < n + 1 PROVE FALSE
      OBVIOUS
    <3>1. n # 0 /\ n \in 1..m /\ End(c, n) = ends[c][n]
      BY <1>1, <2>1 DEF End
    <3>2. ends[c][i] <= ends[c][n]
      BY <1>1, <1>3, <2>1, <3>1
    <3> QED BY <1>1, <1>2, <1>3, <2>1, <3>1, <3>2
  <2>3. ~(i > n + 1)
    BY <1>2, <1>3, <1>5, <1>6, <1>7, <2>1
  <2> QED BY <1>1, <1>6, <2>1, <2>2, <2>3
<1>10. to = End(c, n + 1) => to \in Ends(c)
  BY <1>5, <1>6 DEF Ends
<1> QED BY <1>1, <1>2, <1>5, <1>6, <1>7, <1>8, <1>9, <1>10

(* A string is returned: the next request of a client that waits.          *)
LEMMA ReturnStep ==
  ASSUME IInv, NEW c \in Conns, c = current, taken[c] < arrived[c],
         NEW to, to = taken[c] + Least(EOF_LEN, arrived[c] - taken[c]),
         taken' = [taken EXCEPT ![c] = to],
         EofAt(c, to), Return(c, to),
         UNCHANGED <<clientVars, event, start>>
  PROVE  IInv'
<1> DEFINE n == Len(heads[c])
           h == [from |-> start, to |-> to]
<1>1. /\ start \in Nat /\ to \in Nat /\ taken[c] \in Nat /\ arrived[c] \in Nat
      /\ start <= taken[c] /\ taken[c] < to /\ to <= arrived[c]
  BY ReadFacts
<1>2. /\ heads' = [heads EXCEPT ![c] = Append(heads[c], h)]
      /\ current' = None /\ failed' = failed
      /\ UNCHANGED <<ends, arrived, peer, pipelined, event, start>>
  BY DEF Return, clientVars
<1>3. h \in Header
  BY <1>1 DEF Header
<1>4. heads[c] \in Seq(Header) /\ n \in Nat /\ (heads[c] = <<>> <=> n = 0)
  BY HeadFacts DEF IInv
<1>5. /\ Append(heads[c], h) \in Seq(Header)
      /\ Len(Append(heads[c], h)) = n + 1
      /\ \A i \in 1..n : Append(heads[c], h)[i] = heads[c][i]
      /\ Append(heads[c], h)[n + 1] = h
      /\ Append(heads[c], h) # <<>>
  BY <1>3, <1>4, AppendProperties
<1>6. heads'[c] = Append(heads[c], h) /\ \A d \in Conns \ {c} : heads'[d] = heads[d]
  BY <1>2 DEF IInv, TypeOK
<1>7. None \notin Conns
  BY ReaderAssumption
<1>8. TypeOK'
  <2>1. heads' \in [Conns -> Seq(Header)]
    BY <1>2, <1>5 DEF IInv, TypeOK, Header
  <2>2. taken' \in [Conns -> Nat]
    BY <1>1 DEF IInv, TypeOK
  <2> QED BY <1>2, <2>1, <2>2 DEF IInv, TypeOK, Header
<1>9. ReadSoFar'
  <2>1. \A d \in Conns : taken'[d] <= arrived[d]
    BY <1>1 DEF IInv, ReadSoFar, TypeOK
  <2> QED BY <1>2, <2>1 DEF IInv, ReadSoFar, Length
<1>10. Adjoined'
  <2> SUFFICES ASSUME NEW d \in Conns \ failed
               PROVE  Position(d)' = LastEnd(d)'
    BY <1>2 DEF Adjoined
  <2>1. Position(d)' = taken'[d]
    BY <1>2, <1>7 DEF Position
  <2>2. CASE d = c
    <3>1. LastEnd(c)' = h.to
      BY <1>5, <1>6 DEF LastEnd
    <3>2. taken'[c] = to
      BY DEF IInv, TypeOK
    <3> QED BY <2>1, <2>2, <3>1, <3>2
  <2>3. CASE d # c
    BY <1>6, <2>1, <2>3 DEF IInv, Adjoined, Position, LastEnd, TypeOK
  <2> QED BY <2>2, <2>3
<1>11. NotAhead'
  <2> SUFFICES ASSUME NEW d \in Conns \ pipelined, NEW i \in 1..Len(ends[d]),
                      i > Len(heads'[d])
               PROVE  arrived[d] <= ends[d][i]
    BY <1>2 DEF NotAhead
  <2>1. i > Len(heads[d])
    <3>1. CASE d = c
      BY <1>4, <1>5, <1>6, <3>1
    <3>2. CASE d # c
      BY <1>6, <3>2
    <3> QED BY <3>1, <3>2
  <2> QED BY <2>1 DEF IInv, NotAhead
<1>12. HeadsWhole'
  <2>0. /\ \A d \in Conns : Ends(d)' = Ends(d)
        /\ \A d, i : Request(d, i)' = Request(d, i)
    BY <1>2 DEF Ends, Request, End
  <2> SUFFICES ASSUME NEW d \in Conns \ failed, NEW i \in 1..Len(heads'[d])
               PROVE  /\ heads'[d][i].to \in Ends(d)
                      /\ heads'[d][i].from = (IF i = 1 THEN 0 ELSE heads'[d][i - 1].to)
                      /\ d \notin pipelined => i <= Len(ends[d]) /\ heads'[d][i] = Request(d, i)
    BY <1>2, <2>0 DEF HeadsWhole
  <2>1. CASE d # c
    BY <1>6, <2>1 DEF IInv, HeadsWhole
  <2>2. CASE d = c /\ i \in 1..n
    <3>1. heads'[c][i] = heads[c][i] /\ (i # 1 => heads'[c][i - 1] = heads[c][i - 1])
      BY <1>4, <1>5, <1>6, <2>2
    <3> QED BY <2>2, <3>1 DEF IInv, HeadsWhole
  <2>3. CASE d = c /\ i = n + 1
    <3>1. heads'[c][i] = h /\ h.from = start /\ h.to = to /\ to \in Ends(c)
      BY <1>5, <1>6, <2>3 DEF EofAt
    <3>2. start = LastEnd(c)
      BY <2>3 DEF IInv, Adjoined, Position
    <3>3. i # 1 => heads'[c][i - 1] = heads[c][n]
      BY <1>4, <1>5, <1>6, <2>3
    <3>4. h.from = (IF i = 1 THEN 0 ELSE heads'[c][i - 1].to)
      BY <1>4, <2>3, <3>1, <3>2, <3>3 DEF LastEnd
    <3>5. ASSUME c \notin pipelined
          PROVE  i <= Len(ends[c]) /\ h = Request(c, i)
      <4>1. n + 1 \in 1..Len(ends[c]) /\ start = End(c, n) /\ to = End(c, n + 1)
        BY <2>3, <3>1, <3>5, NextRequest
      <4> QED BY <1>4, <2>3, <4>1 DEF Request
    <3> QED BY <2>3, <3>1, <3>4, <3>5
  <2>4. i \in 1..n \/ (d = c => i = n + 1)
    BY <1>4, <1>5, <1>6
  <2> QED BY <2>1, <2>2, <2>3, <2>4
<1>13. ThrowsForCause'
  BY <1>2 DEF IInv, ThrowsForCause, End
<1> QED BY <1>8, <1>9, <1>10, <1>11, <1>12, <1>13 DEF IInv

(* The call ends with an exception: what was read before it is lost.       *)
LEMMA ThrowStep ==
  ASSUME IInv, NEW c \in Conns, c = current, Throw(c),
         NEW to \in Nat, to <= arrived[c],
         taken' = [taken EXCEPT ![c] = to],
         UNCHANGED <<clientVars, event, start>>,
         \/ c \in failed
         \/ peer[c] # "open"
         \/ c \in pipelined
         \/ \E i \in 1..Len(ends[c]) : End(c, i) - End(c, i - 1) > MAX_SIZE
  PROVE  IInv'
<1>1. /\ failed' = failed \cup {c} /\ current' = None /\ heads' = heads
      /\ UNCHANGED <<ends, arrived, peer, pipelined, event, start>>
  BY DEF Throw, ThrowFor, clientVars
<1>2. None \notin Conns
  BY ReaderAssumption
<1>3. TypeOK'
  BY <1>1 DEF IInv, TypeOK
<1>4. ReadSoFar'
  <2>1. \A d \in Conns : taken'[d] <= arrived[d]
    BY DEF IInv, ReadSoFar, TypeOK
  <2> QED BY <1>1, <2>1 DEF IInv, ReadSoFar, Length
<1>5. Adjoined'
  BY <1>1, <1>2 DEF IInv, Adjoined, Position, LastEnd, TypeOK
<1>6. NotAhead'
  BY <1>1 DEF IInv, NotAhead
<1>7. HeadsWhole'
  <2>1. \A d \in Conns \ failed' : d \in Conns \ failed /\ Ends(d)' = Ends(d)
    BY <1>1 DEF Ends
  <2>2. \A d, i : Request(d, i)' = Request(d, i)
    BY <1>1 DEF Request, End
  <2> QED BY <1>1, <2>1, <2>2 DEF IInv, HeadsWhole
<1>8. ThrowsForCause'
  <2> SUFFICES ASSUME NEW d \in failed'
               PROVE  \/ peer[d] # "open"
                      \/ d \in pipelined
                      \/ \E i \in 1..Len(ends[d]) : End(d, i) - End(d, i - 1) > MAX_SIZE
    BY <1>1 DEF ThrowsForCause, End
  <2> QED BY <1>1 DEF IInv, ThrowsForCause
<1> QED BY <1>3, <1>4, <1>5, <1>6, <1>7, <1>8 DEF IInv

(* The loop goes on.                                                       *)
LEMMA MoreStep ==
  ASSUME IInv, NEW c \in Conns, c = current,
         NEW to \in Nat, taken[c] < to, to <= arrived[c], to - start < MAX_SIZE,
         taken' = [taken EXCEPT ![c] = to],
         UNCHANGED <<clientVars, event, start, current, heads, failed>>
  PROVE  IInv'
<1>1. UNCHANGED <<ends, arrived, peer, pipelined>>
  BY DEF clientVars
<1>2. TypeOK'
  BY <1>1 DEF IInv, TypeOK
<1>3. ReadSoFar'
  <2>1. \A d \in Conns : taken'[d] <= arrived[d]
    BY DEF IInv, ReadSoFar, TypeOK
  <2>2. start <= taken'[c] /\ taken'[c] - start < MAX_SIZE
    <3>1. start <= taken[c] /\ start \in Nat /\ taken[c] \in Nat /\ taken'[c] = to
      BY ReaderAssumption DEF IInv, ReadSoFar, TypeOK
    <3> QED BY <3>1
  <2> QED BY <1>1, <2>1, <2>2 DEF IInv, ReadSoFar, Length
<1>4. Adjoined'
  BY <1>1 DEF IInv, Adjoined, Position, LastEnd, TypeOK
<1>5. NotAhead'
  BY <1>1 DEF IInv, NotAhead
<1>6. HeadsWhole'
  BY <1>1, SameHeads DEF IInv
<1>7. ThrowsForCause'
  BY <1>1 DEF IInv, ThrowsForCause, End
<1> QED BY <1>2, <1>3, <1>4, <1>5, <1>6, <1>7 DEF IInv

(* One recv that returns bytes.  The loop gives up at max_size only in     *)
(* front of the end of a request that is longer.                           *)
LEMMA ReceiveStep == ASSUME IInv, recv_some PROVE IInv'
<1> DEFINE c == current
           to == taken[c] + Least(EOF_LEN, arrived[c] - taken[c])
<1>1. /\ c # None
      /\ taken[c] < arrived[c]
      /\ taken' = [taken EXCEPT ![c] = to]
      /\ \/ EofAt(c, to) /\ Return(c, to)
         \/ ~EofAt(c, to) /\ to - start >= MAX_SIZE /\ Throw(c)
         \/ ~EofAt(c, to) /\ to - start < MAX_SIZE /\ UNCHANGED <<current, heads, failed>>
      /\ UNCHANGED <<clientVars, event, start>>
  BY DEF recv_some, Receive
<1>2. c \in Conns
  BY <1>1 DEF IInv, TypeOK
<1>3. /\ start \in Nat /\ to \in Nat /\ start <= taken[c] /\ taken[c] < to
      /\ to <= arrived[c]
  BY <1>1, <1>2, ReadFacts
<1>4. CASE EofAt(c, to) /\ Return(c, to)
  BY <1>1, <1>2, <1>4, ReturnStep
<1>5. CASE ~EofAt(c, to) /\ to - start >= MAX_SIZE /\ Throw(c)
  <2>1. ASSUME c \notin failed, c \notin pipelined
        PROVE  \E i \in 1..Len(ends[c]) : End(c, i) - End(c, i - 1) > MAX_SIZE
    <3> DEFINE n == Len(heads[c])
    <3> HIDE DEF to
    <3>1. /\ n \in Nat /\ n + 1 \in 1..Len(ends[c])
          /\ start = End(c, n) /\ to <= End(c, n + 1)
          /\ End(c, n) + EOF_LEN <= End(c, n + 1)
          /\ End(c, n) \in Nat /\ End(c, n + 1) \in Nat
          /\ to = End(c, n + 1) => to \in Ends(c)
      BY <1>1, <1>2, <2>1, NextRequest DEF to
    <3>2. EOF_LEN \in Nat /\ MAX_SIZE \in Nat
      BY ReaderAssumption
    <3>3. to # End(c, n + 1)
      BY <1>3, <1>5, <3>1, <3>2 DEF EofAt
    <3>4. End(c, n + 1) - End(c, n) > MAX_SIZE
      BY <1>3, <1>5, <3>1, <3>2, <3>3
    <3>5. (n + 1) - 1 = n
      BY <3>1
    <3> QED BY <3>1, <3>4, <3>5
  <2> HIDE DEF to
  <2> QED BY <1>1, <1>2, <1>3, <1>5, <2>1, ThrowStep
<1>6. CASE ~EofAt(c, to) /\ to - start < MAX_SIZE /\ UNCHANGED <<current, heads, failed>>
  <2> HIDE DEF to
  <2> QED BY <1>1, <1>2, <1>3, <1>6, MoreStep
<1> QED BY <1>1, <1>4, <1>5, <1>6

(* The peer has left and everything was read.                              *)
LEMMA NothingStep == ASSUME IInv, recv_none PROVE IInv'
<1> DEFINE c == current
<1>1. /\ c # None /\ peer[c] = "gone" /\ taken[c] = arrived[c] /\ Throw(c)
      /\ UNCHANGED <<clientVars, event, start, taken>>
  BY DEF recv_none, NothingMore
<1>2. c \in Conns
  BY <1>1 DEF IInv, TypeOK
<1>3. /\ taken[c] \in Nat /\ taken[c] <= arrived[c]
      /\ taken' = [taken EXCEPT ![c] = taken[c]]
  BY <1>1, <1>2 DEF IInv, TypeOK, ReadSoFar
<1> QED BY <1>1, <1>2, <1>3, ThrowStep

-----------------------------------------------------------------------------
(* Every step keeps the invariant.                                         *)
LEMMA IInvStep == IInv /\ [Next]_vars => IInv'
<1> SUFFICES ASSUME IInv, [Next]_vars PROVE IInv'
  OBVIOUS
<1>1. ASSUME NEW c \in Conns, client_write(c) PROVE IInv'
  BY <1>1, WriteStep
<1>2. ASSUME NEW c \in Conns, client_leave(c) PROVE IInv'
  BY <1>2, LeaveStep
<1>3. CASE epoll_wait
  BY <1>3, WaitStep
<1>4. ASSUME NEW e \in event, close_client(e) PROVE IInv'
  BY <1>4, CloseStep
<1>5. ASSUME NEW e \in event, recv_begin(e) PROVE IInv'
  BY <1>5, BeginStep
<1>6. CASE recv_some
  BY <1>6, ReceiveStep
<1>7. CASE recv_none
  BY <1>7, NothingStep
<1>8. CASE UNCHANGED vars
  <2>1. UNCHANGED <<ends, arrived, peer, pipelined, event, current, start, taken, heads, failed>>
    BY <1>8 DEF vars, clientVars, callVars
  <2>2. TypeOK' /\ ReadSoFar' /\ Adjoined' /\ NotAhead'
    BY <2>1 DEF IInv, TypeOK, ReadSoFar, Adjoined, NotAhead, Position, LastEnd, Length
  <2>3. HeadsWhole'
    BY <2>1, SameHeads DEF IInv
  <2>4. ThrowsForCause'
    BY <2>1 DEF IInv, ThrowsForCause, End
  <2> QED BY <2>2, <2>3, <2>4 DEF IInv
<1> QED
  BY <1>1, <1>2, <1>3, <1>4, <1>5, <1>6, <1>7, <1>8 DEF Next, listen_loop, recv_with_eof

(* IInv holds in every reachable state.                                    *)
THEOREM Invariance == Spec => []IInv
<1> QED BY InitIInv, IInvStep, PTL DEF Spec

(* The type invariant of the reader.                                       *)
THEOREM TypeCorrect == Spec => []TypeOK
<1>1. IInv => TypeOK
  BY DEF IInv
<1> QED BY <1>1, Invariance, PTL

(* A client that waits has its requests returned one by one and whole,     *)
(* however reads of EOF_LEN bytes fall on them (tcp_public.cpp:168-188).   *)
THEOREM RequestsReturnedWhole == Spec => []HeadsWhole
<1>1. IInv => HeadsWhole
  BY DEF IInv
<1> QED BY <1>1, Invariance, PTL

(* A call on an open connection throws only for a client that pipelined,   *)
(* or a request longer than max_size (tcp_public.cpp:168, 198-201).        *)
THEOREM NoThrowWithoutCause == Spec => []ThrowsForCause
<1>1. IInv => ThrowsForCause
  BY DEF IInv
<1> QED BY <1>1, Invariance, PTL

(* No step of a call takes it further.                                     *)
LEMMA OverrunStep ==
  ASSUME IInv, [Next]_vars
  PROVE  [current # None => taken'[current] - start < MAX_SIZE + EOF_LEN]_vars
<1> SUFFICES ASSUME current # None
             PROVE  taken'[current] - start < MAX_SIZE + EOF_LEN
  OBVIOUS
<1> DEFINE c == current
<1>1. c \in Conns /\ taken[c] \in Nat /\ start \in Nat /\ taken[c] - start < MAX_SIZE
  BY DEF IInv, TypeOK, ReadSoFar
<1>2. EOF_LEN \in Nat \ {0} /\ MAX_SIZE \in Nat \ {0}
  BY ReaderAssumption
<1>3. CASE recv_some
  <2>1. taken[c] < arrived[c]
    BY <1>3 DEF recv_some, Receive
  <2>2. taken' = [taken EXCEPT ![c] = taken[c] + Least(EOF_LEN, arrived[c] - taken[c])]
    BY <1>3 DEF recv_some, Receive
  <2> DEFINE to == taken[c] + Least(EOF_LEN, arrived[c] - taken[c])
  <2>3. to \in Nat /\ to <= taken[c] + EOF_LEN
    BY <1>1, <2>1, ReadFacts
  <2>4. taken'[c] = to
    BY <1>1, <2>2 DEF IInv, TypeOK
  <2> HIDE DEF to
  <2> QED BY <1>1, <1>2, <2>3, <2>4
<1>4. CASE ~recv_some
  <2>1. taken' = taken
    BY <1>4 DEF Next, listen_loop, recv_with_eof, client_write, client_leave, epoll_wait,
                close_client, recv_begin, recv_none, NothingMore, vars, callVars
  <2> QED BY <1>1, <1>2, <2>1
<1> QED BY <1>3, <1>4

(* recv_with_eof reads at most EOF_LEN - 1 bytes over max_size             *)
(* (tcp_public.cpp:166-170).                                               *)
THEOREM OverrunIsBounded == Spec => OverrunBounded
<1>1. IInv /\ [Next]_vars => [current # None => taken'[current] - start < MAX_SIZE + EOF_LEN]_vars
  BY OverrunStep
<1> QED BY <1>1, Invariance, PTL DEF Spec, OverrunBounded
=============================================================================
