------------------------ MODULE ResponseSafety_proofs ------------------------
(***************************************************************************)
(* Whose bytes go where: the safety invariants of HttpResponse, for any    *)
(* number of clients, descriptors, requests and workers, every file and    *)
(* every change of it.                                                     *)
(***************************************************************************)
EXTENDS HttpResponse_proofs

-----------------------------------------------------------------------------
(* The invariants of the responses, request by request.                    *)

(* What is known of request r before and after its header.                 *)
EarlyOf(r) ==
  /\ at[r] \in Unwritten => \A c \in Conns : On(r, c) = {}
  /\ range[r].start <= offset[r]
  /\ at[r] = "error" => code[r] \in Codes

OwnOf(r) == \A c \in Conns : On(r, c) # {} /\ ClientOf[r] # c => ClientOf[r] \in closed

(* The i-th piece on connection c is a byte of the file sent for r.        *)
ByteAt(r, c, i) == i \in On(r, c) /\ stream[c][i].what = "byte"

OnceOf(r) ==
  /\ \A c \in Conns : \A i \in On(r, c) :
       ByteAt(r, c, i) => stream[c][i].pos \in range[r].start..(offset[r] - 1)
  /\ \A n \in range[r].start..(offset[r] - 1) :
       \E c \in Conns : \E i \in On(r, c) : ByteAt(r, c, i) /\ stream[c][i].pos = n
  /\ offset[r] - 1 <= range[r].end
  /\ \A c, d \in Conns : \A i \in On(r, c), j \in On(r, d) :
       ByteAt(r, c, i) /\ ByteAt(r, d, j) =>
         /\ stream[c][i].pos = stream[d][j].pos => c = d /\ i = j
         /\ c = d /\ i < j => stream[c][i].pos < stream[d][j].pos

(* The bytes of the file that are on the connection of request r.          *)
Delivered(r) ==
  {PieceOf(r, i).pos : i \in {j \in Response(r) : PieceOf(r, j).what = "byte"}}

SteadyOf(r) ==
  r \notin disturbed =>
    /\ at[r] \in {"stat", "header", "open", "sendfile"} => linked
    /\ at[r] \in {"header", "open", "sendfile"} => range[r].end < fileSize
    /\ conn[ClientOf[r]] = "open" =>
         /\ at[r] = "error" => Response(r) = {}
         /\ at[r] \in {"open", "sendfile"} => Headed(r)
         /\ at[r] = "done" =>
              \/ Alone(r, Codes)
              \/ Headed(r) /\ Delivered(r) = range[r].start..range[r].end

Sound(r) == EarlyOf(r) /\ OwnOf(r) /\ OnceOf(r) /\ SteadyOf(r)

(* A byte of the file that was sent, as the place where it is.             *)
LEMMA PlacesOfBytes ==
  ASSUME NEW r, NEW p
  PROVE  p \in BytePlaces(r) <=>
           \E c \in Conns : \E i \in On(r, c) : ByteAt(r, c, i) /\ p = <<c, i>>
<1>1. p \in Places <=> \E c \in Conns : \E i \in 1..Len(stream[c]) : p = <<c, i>>
  BY DEF Places
<1> QED
  BY <1>1 DEF BytePlaces, WrittenAt, ByteAt, On

(* BytesOnce, request by request.                                          *)
LEMMA OncePerRequest == BytesOnce <=> \A r \in Requests : OnceOf(r)
<1> DEFINE OnceAt(r) ==
             /\ {PosAt(p) : p \in BytePlaces(r)} = range[r].start..(offset[r] - 1)
             /\ offset[r] - 1 <= range[r].end
             /\ \A p, q \in BytePlaces(r) :
                  /\ PosAt(p) = PosAt(q) => p = q
                  /\ p[1] = q[1] /\ p[2] < q[2] => PosAt(p) < PosAt(q)
<1>1. ASSUME NEW r \in Requests PROVE OnceAt(r) <=> OnceOf(r)
  <2>1. \A c \in Conns : \A i \in On(r, c) : ByteAt(r, c, i) =>
          <<c, i>> \in BytePlaces(r) /\ PosAt(<<c, i>>) = stream[c][i].pos
    BY PlacesOfBytes DEF PosAt, WrittenAt
  <2>2. \A p \in BytePlaces(r) :
          /\ p = <<p[1], p[2]>> /\ p[1] \in Conns /\ p[2] \in On(r, p[1])
          /\ ByteAt(r, p[1], p[2]) /\ PosAt(p) = stream[p[1]][p[2]].pos
    BY PlacesOfBytes DEF PosAt, WrittenAt
  <2> DEFINE sent == {PosAt(p) : p \in BytePlaces(r)}
             upto == range[r].start..(offset[r] - 1)
             All == \A p, q \in BytePlaces(r) :
                      /\ PosAt(p) = PosAt(q) => p = q
                      /\ p[1] = q[1] /\ p[2] < q[2] => PosAt(p) < PosAt(q)
             Each == \A c, d \in Conns : \A i \in On(r, c), j \in On(r, d) :
                       ByteAt(r, c, i) /\ ByteAt(r, d, j) =>
                         /\ stream[c][i].pos = stream[d][j].pos => c = d /\ i = j
                         /\ c = d /\ i < j => stream[c][i].pos < stream[d][j].pos
  <2>3. sent = upto <=>
          /\ \A c \in Conns : \A i \in On(r, c) :
               ByteAt(r, c, i) => stream[c][i].pos \in upto
          /\ \A n \in upto : \E c \in Conns : \E i \in On(r, c) :
               ByteAt(r, c, i) /\ stream[c][i].pos = n
    <3>1. \A x : x \in sent <=> \E c \in Conns : \E i \in On(r, c) :
                                 ByteAt(r, c, i) /\ stream[c][i].pos = x
      BY <2>1, <2>2
    <3>2. sent = upto <=> \A x : x \in sent <=> x \in upto
      BY Zenon
    <3> HIDE DEF sent, upto
    <3> QED
      BY <3>1, <3>2
  <2>4. ASSUME All PROVE Each
    <3> SUFFICES ASSUME NEW c \in Conns, NEW d \in Conns, NEW i \in On(r, c),
                        NEW j \in On(r, d), ByteAt(r, c, i), ByteAt(r, d, j)
                 PROVE  /\ stream[c][i].pos = stream[d][j].pos => c = d /\ i = j
                        /\ c = d /\ i < j => stream[c][i].pos < stream[d][j].pos
      OBVIOUS
    <3>1. /\ <<c, i>> \in BytePlaces(r) /\ PosAt(<<c, i>>) = stream[c][i].pos
          /\ <<d, j>> \in BytePlaces(r) /\ PosAt(<<d, j>>) = stream[d][j].pos
      BY <2>1
    <3>2. <<c, i>>[1] = c /\ <<c, i>>[2] = i /\ <<d, j>>[1] = d /\ <<d, j>>[2] = j
      OBVIOUS
    <3>3. (<<c, i>> = <<d, j>>) => c = d /\ i = j
      BY Zenon
    <3> QED
      BY <2>4, <3>1, <3>2, <3>3, Zenon
  <2>5. ASSUME Each PROVE All
    <3> SUFFICES ASSUME NEW p \in BytePlaces(r), NEW q \in BytePlaces(r)
                 PROVE  /\ PosAt(p) = PosAt(q) => p = q
                        /\ p[1] = q[1] /\ p[2] < q[2] => PosAt(p) < PosAt(q)
      OBVIOUS
    <3> DEFINE t == <<p[1], p[2]>>
               u == <<q[1], q[2]>>
    <3>1. p = t /\ q = u
      BY <2>2
    <3>2. /\ p[1] \in Conns /\ p[2] \in On(r, p[1]) /\ ByteAt(r, p[1], p[2])
          /\ q[1] \in Conns /\ q[2] \in On(r, q[1]) /\ ByteAt(r, q[1], q[2])
          /\ PosAt(p) = stream[p[1]][p[2]].pos /\ PosAt(q) = stream[q[1]][q[2]].pos
      BY <2>2
    <3>3. ASSUME NEW c \in Conns, NEW d \in Conns, NEW i \in On(r, c), NEW j \in On(r, d),
                 ByteAt(r, c, i), ByteAt(r, d, j)
          PROVE  /\ stream[c][i].pos = stream[d][j].pos => c = d /\ i = j
                 /\ c = d /\ i < j => stream[c][i].pos < stream[d][j].pos
      BY <2>5, <3>3, Zenon
    <3>4. p[1] = q[1] /\ p[2] = q[2] => t = u
      BY Zenon
    <3> HIDE DEF t, u
    <3> QED
      BY <3>1, <3>2, <3>3, <3>4
  <2> HIDE DEF sent, All, Each
  <2> QED
    BY <2>3, <2>4, <2>5, Zenon DEF OnceOf, sent, All, Each
<1> HIDE DEF OnceAt
<1>2. BytesOnce <=> \A r \in Requests : OnceAt(r)
  BY Zenon DEF BytesOnce, OnceAt
<1> QED
  BY <1>1, <1>2, Zenon

(* The safety invariants of the responses, request by request.             *)
LEMMA SafetyPerRequest ==
  NothingEarly /\ OnlyOwnAnswers /\ BytesOnce /\ Steady /\ SteadyComplete
    <=> \A r \in Requests : Sound(r)
<1>1. NothingEarly <=> \A r \in Requests : EarlyOf(r)
  BY Zenon DEF NothingEarly, EarlyOf
<1>2. OnlyOwnAnswers <=> \A r \in Requests : OwnOf(r)
  BY Zenon DEF OnlyOwnAnswers, OwnOf
<1>3. (Steady /\ SteadyComplete) <=> \A r \in Requests : SteadyOf(r)
  <2> HIDE DEF Unwritten
  <2>1. ASSUME Steady, SteadyComplete, NEW r \in Requests PROVE SteadyOf(r)
    BY <2>1, Zenon DEF Steady, SteadyComplete, SteadyOf, Delivered
  <2>2. ASSUME \A r \in Requests : SteadyOf(r) PROVE Steady /\ SteadyComplete
    BY <2>2, Zenon DEF Steady, SteadyComplete, SteadyOf, Delivered
  <2> QED
    BY <2>1, <2>2
<1> QED
  BY <1>1, <1>2, <1>3, OncePerRequest DEF Sound

-----------------------------------------------------------------------------
(* What a write does to what is on the connections.                        *)

(* The pieces of request q are where they were, and no others.             *)
Unmoved(q) ==
  \A d \in Conns : On(q, d)' = On(q, d) /\ \A i \in On(q, d) : stream'[d][i] = stream[d][i]

Appends(c, pieces) == stream' = [stream EXCEPT ![c] = @ \o pieces]

(* Some pieces of r, m - n of them, behind the n on connection c.          *)
Puts(r, c, n, m, pieces) ==
  /\ \A d \in Conns \ {c} : On(r, d)' = On(r, d) /\ stream'[d] = stream[d]
  /\ On(r, c) \subseteq 1..n
  /\ On(r, c)' = On(r, c) \cup (n + 1)..m
  /\ \A i \in On(r, c) : stream'[c][i] = stream[c][i]
  /\ \A j \in 1..Len(pieces) : stream'[c][n + j] = pieces[j]

(* A write for r adds its pieces at the end of one connection.             *)
LEMMA WriteAppends ==
  ASSUME stream \in [Conns -> Seq(Written)], NEW c \in Conns, NEW r \in Requests,
         NEW pieces \in Seq(Written), \A j \in 1..Len(pieces) : pieces[j].of = r,
         Appends(c, pieces), NEW n \in Nat, n = Len(stream[c]),
         NEW m \in Nat, m = n + Len(pieces)
  PROVE  /\ stream' \in [Conns -> Seq(Written)]
         /\ \A q \in Requests \ {r} : Unmoved(q)
         /\ Puts(r, c, n, m, pieces)
<1>1. stream[c] \in Seq(Written) /\ n \in Nat /\ Len(pieces) \in Nat
  OBVIOUS
<1>2. stream'[c] = stream[c] \o pieces /\ \A d \in Conns \ {c} : stream'[d] = stream[d]
  BY DEF Appends
<1>3. /\ stream'[c] \in Seq(Written)
      /\ Len(stream'[c]) = n + Len(pieces)
      /\ \A i \in 1..(n + Len(pieces)) :
           stream'[c][i] = IF i <= n THEN stream[c][i] ELSE pieces[i - n]
  BY <1>1, <1>2, ConcatProperties
<1>4. \A q, d : d \in Conns \ {c} => On(q, d)' = On(q, d)
  BY <1>2 DEF On
<1>5. \A i \in 1..n : stream'[c][i] = stream[c][i]
  BY <1>1, <1>3
<1>6. \A j \in (n + 1)..(n + Len(pieces)) :
        stream'[c][j] = pieces[j - n] /\ j - n \in 1..Len(pieces)
  BY <1>1, <1>3
<1>7. \A q : On(q, c) \subseteq 1..n
  BY DEF On
<1>8. \A q \in Requests \ {r} : On(q, c)' = On(q, c)
  <2> SUFFICES ASSUME NEW q \in Requests \ {r} PROVE On(q, c)' = On(q, c)
    OBVIOUS
  <2>1. \A i : i \in On(q, c)' <=> i \in 1..(n + Len(pieces)) /\ stream'[c][i].of = q
    BY <1>3 DEF On
  <2>2. \A i : i \in On(q, c) <=> i \in 1..n /\ stream[c][i].of = q
    BY DEF On
  <2>3. \A i \in 1..(n + Len(pieces)) : i \in 1..n \/ i \in (n + 1)..(n + Len(pieces))
    BY <1>1
  <2>4. \A i \in 1..n : i \in 1..(n + Len(pieces))
    BY <1>1
  <2>5. \A i \in (n + 1)..(n + Len(pieces)) : stream'[c][i].of # q
    BY <1>6
  <2>6. \A i \in 1..n : stream'[c][i].of = stream[c][i].of
    BY <1>5
  <2>7. \A i : i \in On(q, c)' <=> i \in On(q, c)
    BY <2>1, <2>2, <2>3, <2>4, <2>5, <2>6, Zenon
  <2> QED
    BY <2>7
<1>9. On(r, c)' = On(r, c) \cup (n + 1)..(n + Len(pieces))
  <2>1. \A i : i \in On(r, c)' <=> i \in 1..(n + Len(pieces)) /\ stream'[c][i].of = r
    BY <1>3 DEF On
  <2>2. \A i : i \in On(r, c) <=> i \in 1..n /\ stream[c][i].of = r
    BY DEF On
  <2>3. \A i \in 1..(n + Len(pieces)) : i \in 1..n \/ i \in (n + 1)..(n + Len(pieces))
    BY <1>1
  <2>4. /\ \A i \in 1..n : i \in 1..(n + Len(pieces))
        /\ \A i \in (n + 1)..(n + Len(pieces)) : i \in 1..(n + Len(pieces))
    BY <1>1
  <2>5. \A i \in (n + 1)..(n + Len(pieces)) : stream'[c][i].of = r
    BY <1>6
  <2>6. \A i \in 1..n : stream'[c][i].of = stream[c][i].of
    BY <1>5
  <2>7. \A i : i \in On(r, c)' <=> i \in On(r, c) \/ i \in (n + 1)..(n + Len(pieces))
    BY <2>1, <2>2, <2>3, <2>4, <2>5, <2>6, Zenon
  <2> QED
    BY <2>7
<1>10. stream' \in [Conns -> Seq(Written)]
  BY <1>2, <1>3 DEF Appends
<1>11. \A q \in Requests \ {r} : Unmoved(q)
  <2> SUFFICES ASSUME NEW q \in Requests \ {r}, NEW d \in Conns
               PROVE  On(q, d)' = On(q, d) /\ \A i \in On(q, d) : stream'[d][i] = stream[d][i]
    BY DEF Unmoved
  <2>1. CASE d = c
    BY <1>5, <1>7, <1>8, <2>1
  <2>2. CASE d # c
    BY <1>2, <1>4, <2>2
  <2> QED
    BY <2>1, <2>2
<1>12. \A j \in 1..Len(pieces) : stream'[c][n + j] = pieces[j]
  <2> SUFFICES ASSUME NEW j \in 1..Len(pieces) PROVE stream'[c][n + j] = pieces[j]
    OBVIOUS
  <2>1. n + j \in 1..(n + Len(pieces)) /\ ~(n + j <= n) /\ (n + j) - n = j
    BY <1>1
  <2> QED
    BY <1>3, <2>1
<1>13. On(r, c)' = On(r, c) \cup (n + 1)..m
  BY <1>9
<1>14. \A i \in On(r, c) : stream'[c][i] = stream[c][i]
  BY <1>5, <1>7
<1>15. \A d \in Conns \ {c} : On(r, d)' = On(r, d) /\ stream'[d] = stream[d]
  BY <1>2, <1>4
<1>16. Puts(r, c, n, m, pieces)
  BY <1>7, <1>12, <1>13, <1>14, <1>15, Zenon DEF Puts
<1> QED
  BY <1>10, <1>11, <1>16

-----------------------------------------------------------------------------
(* What a step leaves as it is: the invariant of a request whose pieces    *)
(* and whose handling it does not touch.                                   *)

(* Nothing is written at all.                                              *)
LEMMA NothingMoved == UNCHANGED stream => \A r : Unmoved(r)
<1> QED
  BY DEF Unmoved, On

(* What is known before the header depends on the pieces of its request.   *)
LEMMA SameEarly ==
  ASSUME NEW r \in Requests, EarlyOf(r), Unmoved(r), at'[r] = at[r], range'[r] = range[r],
         offset'[r] = offset[r], code'[r] = code[r]
  PROVE  EarlyOf(r)'
<1> QED
  BY DEF EarlyOf, Unmoved

(* Whose connection the pieces are on: closed connections stay closed.     *)
LEMMA SameOwn ==
  ASSUME NEW r \in Requests, OwnOf(r), Unmoved(r), closed \subseteq closed'
  PROVE  OwnOf(r)'
<1> QED
  BY DEF OwnOf, Unmoved

(* Which bytes were sent: a header or a page changes nothing about them,   *)
LEMMA SameBytes ==
  ASSUME NEW r \in Requests, OnceOf(r), range'[r] = range[r], offset'[r] = offset[r],
         \A c \in Conns : \A i : ByteAt(r, c, i)' <=> ByteAt(r, c, i),
         \A c \in Conns : \A i : ByteAt(r, c, i) => stream'[c][i] = stream[c][i]
  PROVE  OnceOf(r)'
<1>1. \A c \in Conns : \A i : /\ ByteAt(r, c, i) => i \in On(r, c)
                              /\ ByteAt(r, c, i)' => i \in On(r, c)'
  BY DEF ByteAt
<1>2. ASSUME NEW c \in Conns, NEW i \in On(r, c)', ByteAt(r, c, i)'
      PROVE  stream'[c][i].pos \in range'[r].start..(offset'[r] - 1)
  BY <1>1, <1>2 DEF OnceOf
<1>3. ASSUME NEW n \in range'[r].start..(offset'[r] - 1)
      PROVE  \E c \in Conns : \E i \in On(r, c)' : ByteAt(r, c, i)' /\ stream'[c][i].pos = n
  <2>1. PICK c \in Conns : \E i \in On(r, c) : ByteAt(r, c, i) /\ stream[c][i].pos = n
    BY DEF OnceOf
  <2> QED
    BY <1>1, <2>1
<1>4. ASSUME NEW c \in Conns, NEW d \in Conns, NEW i \in On(r, c)', NEW j \in On(r, d)',
             ByteAt(r, c, i)', ByteAt(r, d, j)'
      PROVE  /\ stream'[c][i].pos = stream'[d][j].pos => c = d /\ i = j
             /\ c = d /\ i < j => stream'[c][i].pos < stream'[d][j].pos
  <2>1. /\ i \in On(r, c) /\ ByteAt(r, c, i) /\ stream'[c][i] = stream[c][i]
        /\ j \in On(r, d) /\ ByteAt(r, d, j) /\ stream'[d][j] = stream[d][j]
    BY <1>1, <1>4
  <2> QED
    BY <2>1 DEF OnceOf
<1>5. offset'[r] - 1 <= range'[r].end
  BY DEF OnceOf
<1> QED
  BY <1>2, <1>3, <1>4, <1>5 DEF OnceOf

(* nor does a step that writes nothing of this request.                    *)
LEMMA SameOnce ==
  ASSUME NEW r \in Requests, OnceOf(r), Unmoved(r), range'[r] = range[r],
         offset'[r] = offset[r]
  PROVE  OnceOf(r)'
<1> QED
  BY SameBytes DEF Unmoved, ByteAt

(* What the response looks like on its own connection.                     *)
LEMMA SameResponse ==
  ASSUME NEW r \in Requests, Unmoved(r)
  PROVE  /\ Response(r)' = Response(r)
         /\ Headed(r)' <=> Headed(r)
         /\ Alone(r, Codes)' <=> Alone(r, Codes)
         /\ Delivered(r)' = Delivered(r)
<1>1. /\ Response(r)' = Response(r)
      /\ \A i \in Response(r) : PieceOf(r, i)' = PieceOf(r, i)
  BY ResponseAssumption DEF Response, PieceOf, Unmoved
<1> QED
  BY <1>1 DEF Headed, Alone, Delivered

(* All of it: a step that touches neither the request nor its file.        *)
LEMMA SameSound ==
  ASSUME NEW r \in Requests, Sound(r), Unmoved(r), at'[r] = at[r], range'[r] = range[r],
         offset'[r] = offset[r], code'[r] = code[r], closed \subseteq closed',
         disturbed \subseteq disturbed',
         conn'[ClientOf[r]] = "open" => conn[ClientOf[r]] = "open" \/ at[r] = "unsent",
         r \notin disturbed' /\ at[r] \in Busy => UNCHANGED <<linked, fileSize>>
  PROVE  Sound(r)'
<1>1. SteadyOf(r)'
  BY SameResponse DEF Sound, SteadyOf, Busy
<1> QED
  BY <1>1, SameEarly, SameOwn, SameOnce DEF Sound

(* A step in which one request is handled and whose files and connections  *)
(* stay as they are: the others need no look.                              *)
LEMMA OthersSound ==
  ASSUME IInv, NEW r \in Requests, UNCHANGED <<conn, closed, fileVars>>,
         disturbed \subseteq disturbed',
         \A q \in Requests \ {r} :
           /\ Unmoved(q)
           /\ at'[q] = at[q] /\ range'[q] = range[q]
           /\ offset'[q] = offset[q] /\ code'[q] = code[q],
         Sound(r)'
  PROVE  \A q \in Requests : Sound(q)'
<1> SUFFICES ASSUME NEW q \in Requests, q # r PROVE Sound(q)'
  OBVIOUS
<1>1. Sound(q)
  BY SafetyPerRequest DEF IInv
<1> QED
  BY <1>1, SameSound DEF fileVars

(* A request that is handled remembers a descriptor, which is its client's *)
(* as long as the client is there.                                         *)
LEMMA AtHome ==
  ASSUME IInv, NEW r \in Requests, at[r] \in Busy
  PROVE  /\ client_fd[r] \in Fds /\ ClientOf[r] \in Conns
         /\ owner[client_fd[r]] \in {ClientOf[r], None} \/ ClientOf[r] \in closed
         /\ conn[ClientOf[r]] = "open" =>
              owner[client_fd[r]] = ClientOf[r] /\ ~Broken(client_fd[r])
<1>1. /\ client_fd[r] \in Fds
      /\ owner[client_fd[r]] = ClientOf[r] \/ ClientOf[r] \in closed
  BY DEF IInv, Remembered
<1>2. ClientOf[r] \in Conns /\ None \notin Conns
  BY ResponseAssumption
<1>3. ClientOf[r] \in closed => conn[ClientOf[r]] = "gone"
  BY DEF IInv, Homes
<1> QED
  BY <1>1, <1>2, <1>3 DEF Broken

-----------------------------------------------------------------------------
(* Pages.                                                                  *)

(* A page is one piece.                                                    *)
LEMMA PageAppends ==
  ASSUME stream \in [Conns -> Seq(Written)], NEW c \in Conns, NEW r \in Requests,
         NEW what \in Whats, Appends(c, Page(r, what)), NEW n \in Nat, n = Len(stream[c])
  PROVE  /\ stream' \in [Conns -> Seq(Written)]
         /\ \A q \in Requests \ {r} : Unmoved(q)
         /\ \A d \in Conns \ {c} : On(r, d)' = On(r, d) /\ stream'[d] = stream[d]
         /\ On(r, c) \subseteq 1..n
         /\ On(r, c)' = On(r, c) \cup {n + 1}
         /\ \A i \in On(r, c) : stream'[c][i] = stream[c][i]
         /\ stream'[c][n + 1] = [of |-> r, what |-> what, pos |-> 0]
<1>1. PICK pieces : pieces = Page(r, what)
  OBVIOUS
<1>2. PICK piece : piece = [of |-> r, what |-> what, pos |-> 0]
  OBVIOUS
<1>3. piece \in Written /\ piece.of = r
  BY <1>2, ResponseAssumption, OffAssumption DEF Written
<1>4. pieces = <<piece>>
  BY <1>1, <1>2 DEF Page
<1>5. Len(pieces) = 1 /\ pieces[1] = piece
  BY <1>4
<1>6. PICK m \in Nat : m = n + Len(pieces)
  BY <1>5
<1>7. /\ pieces \in Seq(Written) /\ \A j \in 1..Len(pieces) : pieces[j].of = r
      /\ Appends(c, pieces)
  BY <1>1, <1>3, <1>4, <1>5
<1>8. /\ stream \in [Conns -> Seq(Written)] /\ c \in Conns /\ r \in Requests
      /\ n \in Nat /\ n = Len(stream[c])
  OBVIOUS
<1>10. /\ stream' \in [Conns -> Seq(Written)]
       /\ \A q \in Requests \ {r} : Unmoved(q)
       /\ Puts(r, c, n, m, pieces)
  BY ONLY <1>6, <1>7, <1>8, WriteAppends, Zenon
<1>9. m = n + 1 /\ stream'[c][n + 1] = piece
  BY <1>5, <1>6, <1>10 DEF Puts
<1> QED
  BY <1>2, <1>9, <1>10 DEF Puts

(* A header or an error page is no byte of the file; it goes to the own    *)
(* client, or that client's connection was closed before.                  *)
LEMMA PageWritten ==
  ASSUME IInv, NEW r \in Requests, NEW fd \in Fds, NEW what \in Whats \ {"byte"},
         WriteTo(fd, Page(r, what)), UNCHANGED <<range, offset, closed>>,
         owner[fd] \in {ClientOf[r], None} \/ ClientOf[r] \in closed
  PROVE  /\ stream' \in [Conns -> Seq(Written)]
         /\ \A q \in Requests \ {r} : Unmoved(q)
         /\ OwnOf(r)' /\ OnceOf(r)'
         /\ ~Broken(fd) /\ owner[fd] = ClientOf[r] /\ Response(r) = {} =>
              \E first \in Response(r)' :
                Response(r)' = {first} /\ PieceOf(r, first)'.what = what
<1>0. stream \in [Conns -> Seq(Written)] /\ OwnOf(r) /\ OnceOf(r)
  BY SafetyPerRequest DEF IInv, TypeOK, Sound
<1>1. CASE UNCHANGED stream /\ Broken(fd)
  BY <1>0, <1>1, NothingMoved, SameOwn, SameOnce
<1>2. CASE owner[fd] # None /\ WriteSome(fd, Page(r, what))
  <2>a. PICK c \in Conns : c = owner[fd]
    BY <1>2 DEF IInv, TypeOK
  <2>b. PICK n \in Nat : n = Len(stream[c])
    BY <1>0
  <2>4. Appends(c, Page(r, what))
    BY <1>2, <2>a DEF WriteSome, Appends
  <2>5. /\ stream' \in [Conns -> Seq(Written)]
        /\ \A q \in Requests \ {r} : Unmoved(q)
        /\ \A d \in Conns \ {c} : On(r, d)' = On(r, d) /\ stream'[d] = stream[d]
        /\ On(r, c) \subseteq 1..n
        /\ On(r, c)' = On(r, c) \cup {n + 1}
        /\ \A i \in On(r, c) : stream'[c][i] = stream[c][i]
        /\ stream'[c][n + 1] = [of |-> r, what |-> what, pos |-> 0]
    BY <1>0, <2>b, <2>4, PageAppends
  <2>7. OwnOf(r)'
    BY <1>0, <1>2, <2>a, <2>5 DEF OwnOf
  <2>8. \A d \in Conns : \A i : ByteAt(r, d, i)' <=> ByteAt(r, d, i)
    <3> SUFFICES ASSUME NEW d \in Conns, NEW i PROVE ByteAt(r, d, i)' <=> ByteAt(r, d, i)
      OBVIOUS
    <3>1. CASE d # c
      BY <2>5, <3>1 DEF ByteAt
    <3>2. CASE d = c
      BY <2>5, <3>2 DEF ByteAt
    <3> QED
      BY <3>1, <3>2
  <2>9. \A d \in Conns : \A i : ByteAt(r, d, i) =>
          i \in On(r, d) /\ i \in On(r, d)' /\ stream'[d][i] = stream[d][i]
    BY <2>5 DEF ByteAt
  <2>10. OnceOf(r)'
    <3> QED
      BY <1>0, <2>8, <2>9, SameBytes
  <2>11. ASSUME owner[fd] = ClientOf[r], Response(r) = {}
         PROVE  /\ n + 1 \in Response(r)' /\ Response(r)' = {n + 1}
                /\ PieceOf(r, n + 1)'.what = what
    BY <2>a, <2>5, <2>11 DEF Response, PieceOf
  <2> QED
    BY <2>a, <2>5, <2>7, <2>10, <2>11
<1> QED
  BY <1>1, <1>2 DEF WriteTo

-----------------------------------------------------------------------------
(* The steps of a worker.                                                  *)

(* An exception leads to an error page; there is no header before it if    *)
(* the request is not disturbed and the client is there.                   *)
LEMMA FailSound ==
  ASSUME IInv, NEW r \in Requests, at[r] \in Busy, NEW err \in Codes, Fail(r, err),
         UNCHANGED workKeeps, disturbed \subseteq disturbed',
         r \notin disturbed' /\ conn[ClientOf[r]] = "open" => Response(r) = {}
  PROVE  \A q \in Requests : Sound(q)'
<1>1. /\ at' = [at EXCEPT ![r] = "error"] /\ code' = [code EXCEPT ![r] = err]
      /\ UNCHANGED <<range, offset, stream, conn, closed, fileVars>>
  BY DEF Fail, Go, workKeeps, connVars
<1>2. at \in [Requests -> Points] /\ code \in [Requests -> Codes \cup {"none"}]
  BY DEF IInv, TypeOK
<1>3. Unmoved(r) /\ \A q \in Requests \ {r} : Unmoved(q)
  BY <1>1, NothingMoved
<1>4. Sound(r)
  BY SafetyPerRequest DEF IInv
<1>5. at'[r] = "error" /\ code'[r] \in Codes
  BY <1>1, <1>2
<1>6. EarlyOf(r)'
  BY <1>1, <1>4, <1>5 DEF Sound, EarlyOf, Unwritten
<1>7. OwnOf(r)' /\ OnceOf(r)'
  BY <1>1, <1>3, <1>4, SameOwn, SameOnce DEF Sound
<1>8. SteadyOf(r)'
  BY <1>1, <1>3, <1>5, SameResponse DEF SteadyOf, fileVars
<1>9. \A q \in Requests \ {r} : at'[q] = at[q] /\ code'[q] = code[q]
  BY <1>1, <1>2
<1> QED
  BY <1>1, <1>3, <1>6, <1>7, <1>8, <1>9, OthersSound DEF Sound

(* A worker goes on without a word to the client.                          *)
LEMMA ProceedSound ==
  ASSUME IInv, NEW r \in Requests, NEW point, Proceed(r, point), UNCHANGED calmKeeps, linked,
         \/ at[r] = "validate" /\ point = "stat"
         \/ at[r] = "open" /\ point = "sendfile"
  PROVE  \A q \in Requests : Sound(q)'
<1>1. /\ at' = [at EXCEPT ![r] = point]
      /\ UNCHANGED <<code, range, offset, stream, conn, closed, fileVars, disturbed>>
  BY DEF Proceed, Go, calmKeeps, workKeeps, connVars
<1>2. at \in [Requests -> Points]
  BY DEF IInv, TypeOK
<1>3. Unmoved(r) /\ \A q \in Requests \ {r} : Unmoved(q)
  BY <1>1, NothingMoved
<1>4. Sound(r)
  BY SafetyPerRequest DEF IInv
<1>5. at'[r] = point
  BY <1>1, <1>2
<1>6. EarlyOf(r)'
  BY <1>1, <1>3, <1>4, <1>5 DEF Sound, EarlyOf, Unwritten, Unmoved
<1>7. OwnOf(r)' /\ OnceOf(r)'
  BY <1>1, <1>3, <1>4, SameOwn, SameOnce DEF Sound
<1>8. SteadyOf(r)'
  BY <1>1, <1>3, <1>4, <1>5, SameResponse DEF Sound, SteadyOf, fileVars
<1>9. \A q \in Requests \ {r} : at'[q] = at[q]
  BY <1>1, <1>2
<1> QED
  BY <1>1, <1>3, <1>6, <1>7, <1>8, <1>9, OthersSound DEF Sound

(* What is announced is within the file, and nothing of it is sent yet.    *)
LEMMA AnnounceSound ==
  ASSUME IInv, NEW r \in Requests, at[r] = "stat", linked, NEW s \in Int, NEW e \in Int,
         s <= e + 1, e < fileSize, Announce(r, s, e), UNCHANGED calmKeeps
  PROVE  \A q \in Requests : Sound(q)'
<1>1. /\ at' = [at EXCEPT ![r] = "header"]
      /\ range' = [range EXCEPT ![r] = [start |-> s, end |-> e]]
      /\ offset' = [offset EXCEPT ![r] = s]
      /\ UNCHANGED <<code, stream, conn, closed, fileVars, disturbed>>
  BY DEF Announce, AnnounceUpTo, Go, calmKeeps, workKeeps, connVars
<1>2. /\ at \in [Requests -> Points] /\ DOMAIN range = Requests /\ DOMAIN offset = Requests
  BY DEF IInv, TypeOK
<1>3. Unmoved(r) /\ \A q \in Requests \ {r} : Unmoved(q)
  BY <1>1, NothingMoved
<1>4. Sound(r)
  BY SafetyPerRequest DEF IInv
<1>5. /\ at'[r] = "header" /\ range'[r].start = s /\ range'[r].end = e /\ offset'[r] = s
  BY <1>1, <1>2
<1>6. \A c \in Conns : On(r, c) = {} /\ On(r, c)' = {}
  BY <1>3, <1>4 DEF Sound, EarlyOf, Unwritten, Unmoved
<1>7. EarlyOf(r)'
  BY <1>5, <1>6 DEF EarlyOf
<1>8. OwnOf(r)'
  BY <1>6 DEF OwnOf
<1>9. OnceOf(r)'
  BY <1>5, <1>6 DEF OnceOf
<1>10. SteadyOf(r)'
  BY <1>1, <1>5 DEF SteadyOf, fileVars
<1>11. \A q \in Requests \ {r} :
         at'[q] = at[q] /\ range'[q] = range[q] /\ offset'[q] = offset[q]
  BY <1>1, <1>2
<1> QED
  BY <1>1, <1>3, <1>7, <1>8, <1>9, <1>10, <1>11, OthersSound DEF Sound

(* The process ends, or the reactor reads.                                 *)
LEMMA StillSound ==
  ASSUME IInv,
         UNCHANGED <<conn, closed, fileVars, disturbed, at, range, offset, code, stream>>
  PROVE  \A q \in Requests : Sound(q)'
<1>1. \A q \in Requests : Sound(q) /\ Unmoved(q)
  BY SafetyPerRequest, NothingMoved DEF IInv
<1> QED
  BY <1>1, SameSound DEF fileVars

(* What send_data_nonblock wrote, and that it wrote all of it unless the   *)
(* request is disturbed.                                                   *)
SentAs(r, fd, what, piece) ==
  /\ WriteTo(fd, Page(r, piece))
  /\ \/ piece = what /\ disturbed' = disturbed
     \/ piece = "cut" /\ disturbed' = disturbed \cup {r}

LEMMA SentAsSome ==
  ASSUME NEW r, NEW fd, NEW what, send_data_nonblock(r, fd, what)
  PROVE  \E piece \in {what, "cut"} : SentAs(r, fd, what, piece)
<1> HIDE DEF WriteTo
<1> QED
  BY DEF send_data_nonblock, Disturb, SentAs

(* The header is the first piece of a response.                            *)
LEMMA HeaderSound ==
  ASSUME IInv, NEW r \in Requests, send_header(r)
  PROVE  \A q \in Requests : Sound(q)'
<1>1. PICK what \in {"head", "cut"} : SentAs(r, client_fd[r], "head", what)
  BY SentAsSome DEF send_header
<1>2. /\ at[r] = "header" /\ at' = [at EXCEPT ![r] = "open"]
      /\ UNCHANGED <<code, range, offset, conn, closed, fileVars>>
  BY DEF send_header, Go, workKeeps, connVars
<1>3. at \in [Requests -> Points]
  BY DEF IInv, TypeOK
<1>4. Sound(r)
  BY SafetyPerRequest DEF IInv
<1>5. PICK fd \in Fds : fd = client_fd[r]
  BY <1>2, AtHome DEF Busy
<1>6. /\ owner[fd] \in {ClientOf[r], None} \/ ClientOf[r] \in closed
      /\ conn[ClientOf[r]] = "open" => owner[fd] = ClientOf[r] /\ ~Broken(fd)
  BY <1>2, <1>5, AtHome DEF Busy
<1>7. /\ \A q \in Requests \ {r} : Unmoved(q)
      /\ OwnOf(r)' /\ OnceOf(r)'
      /\ ~Broken(fd) /\ owner[fd] = ClientOf[r] /\ Response(r) = {} =>
           \E first \in Response(r)' :
             Response(r)' = {first} /\ PieceOf(r, first)'.what = what
  <2>1. what \in Whats \ {"byte"} /\ WriteTo(fd, Page(r, what))
    BY <1>1, <1>5 DEF Whats, SentAs
  <2> QED
    BY <1>2, <1>6, <2>1, PageWritten
<1>8. at'[r] = "open"
  BY <1>2, <1>3
<1>9. EarlyOf(r)'
  BY <1>2, <1>4, <1>8 DEF Sound, EarlyOf, Unwritten
<1>12. disturbed \subseteq disturbed' /\ (r \notin disturbed' => what = "head")
  BY <1>1 DEF SentAs
<1>10. SteadyOf(r)'
  <2> SUFFICES ASSUME r \notin disturbed' PROVE SteadyOf(r)'
    BY DEF SteadyOf
  <2>1. Response(r) = {}
    BY <1>2, <1>4, ResponseAssumption DEF Sound, EarlyOf, Unwritten, Response
  <2>2. conn[ClientOf[r]] = "open" => Headed(r)'
    BY <1>6, <1>7, <1>12, <2>1 DEF Headed
  <2> QED
    BY <1>2, <1>4, <1>8, <1>12, <2>2 DEF Sound, SteadyOf, fileVars
<1>11. \A q \in Requests \ {r} : at'[q] = at[q]
  BY <1>2, <1>3
<1> QED
  BY <1>2, <1>7, <1>9, <1>10, <1>11, <1>12, OthersSound DEF Sound

(* The error page is the whole response, unless the request is disturbed.  *)
LEMMA ErrorSound ==
  ASSUME IInv, NEW r \in Requests, reply_error(r)
  PROVE  \A q \in Requests : Sound(q)'
<1>2. /\ at[r] = "error" /\ at' = [at EXCEPT ![r] = "done"]
      /\ UNCHANGED <<code, range, offset, conn, closed, fileVars>>
  BY DEF reply_error, Go, workKeeps, connVars
<1>3. at \in [Requests -> Points]
  BY DEF IInv, TypeOK
<1>4. Sound(r)
  BY SafetyPerRequest DEF IInv
<1>0. code[r] \in Codes
  BY <1>2, <1>4 DEF Sound, EarlyOf
<1>1. PICK what \in Codes \cup {"cut"} : SentAs(r, client_fd[r], code[r], what)
  BY <1>0, SentAsSome DEF reply_error
<1>5. PICK fd \in Fds : fd = client_fd[r]
  BY <1>2, AtHome DEF Busy
<1>6. /\ owner[fd] \in {ClientOf[r], None} \/ ClientOf[r] \in closed
      /\ conn[ClientOf[r]] = "open" => owner[fd] = ClientOf[r] /\ ~Broken(fd)
  BY <1>2, <1>5, AtHome DEF Busy
<1>7. /\ \A q \in Requests \ {r} : Unmoved(q)
      /\ OwnOf(r)' /\ OnceOf(r)'
      /\ ~Broken(fd) /\ owner[fd] = ClientOf[r] /\ Response(r) = {} =>
           \E first \in Response(r)' :
             Response(r)' = {first} /\ PieceOf(r, first)'.what = what
  <2>1. what \in Whats \ {"byte"} /\ WriteTo(fd, Page(r, what))
    BY <1>1, <1>5 DEF Whats, Codes, SentAs
  <2> QED
    BY <1>2, <1>6, <2>1, PageWritten
<1>8. at'[r] = "done"
  BY <1>2, <1>3
<1>9. EarlyOf(r)'
  BY <1>2, <1>4, <1>8 DEF Sound, EarlyOf, Unwritten
<1>12. disturbed \subseteq disturbed' /\ (r \notin disturbed' => what \in Codes)
  BY <1>0, <1>1 DEF SentAs
<1>10. SteadyOf(r)'
  <2>1. r \notin disturbed' /\ conn[ClientOf[r]] = "open" => Alone(r, Codes)'
    BY <1>2, <1>4, <1>6, <1>7, <1>12 DEF Sound, SteadyOf, Alone
  <2> QED
    BY <1>2, <1>8, <2>1 DEF SteadyOf, fileVars
<1>11. \A q \in Requests \ {r} : at'[q] = at[q]
  BY <1>2, <1>3
<1> QED
  BY <1>2, <1>7, <1>9, <1>10, <1>11, <1>12, OthersSound DEF Sound

(* k bytes of r's file, from offset o, behind the n pieces on connection c.*)
Gains(r, c, n, k, o) ==
  /\ \A d \in Conns \ {c} : On(r, d)' = On(r, d) /\ stream'[d] = stream[d]
  /\ On(r, c) \subseteq 1..n
  /\ On(r, c)' = On(r, c) \cup (n + 1)..(n + k)
  /\ \A i \in On(r, c) : stream'[c][i] = stream[c][i]
  /\ \A i \in (n + 1)..(n + k) :
       stream'[c][i].what = "byte" /\ stream'[c][i].pos = o + (i - n) - 1

(* What one sendfile puts on a connection.                                 *)
LEMMA BytesAppend ==
  ASSUME TypeOK, NEW c \in Conns, NEW r \in Requests, NEW k \in Nat,
         offset[r] + k <= fileSize, Appends(c, Bytes(r, k)),
         NEW n \in Nat, n = Len(stream[c]), NEW o \in Int, o = offset[r]
  PROVE  /\ stream' \in [Conns -> Seq(Written)]
         /\ \A q \in Requests \ {r} : Unmoved(q)
         /\ Gains(r, c, n, k, o)
<1>0. /\ MaxSize \in Nat /\ fileSize \in 0..MaxSize /\ o \in 0..MaxSize
      /\ stream \in [Conns -> Seq(Written)]
  BY ResponseAssumption, OffAssumption DEF TypeOK
<1>1. PICK pieces : pieces = Bytes(r, k)
  OBVIOUS
<1>2. pieces = [i \in 1..k |-> [of |-> r, what |-> "byte", pos |-> o + i - 1]]
  BY <1>1 DEF Bytes
<1>3. \A i \in 1..k : [of |-> r, what |-> "byte", pos |-> o + i - 1] \in Written
  BY <1>0 DEF Written, Whats
<1>4. pieces \in Seq(Written) /\ Len(pieces) = k
  BY <1>2, <1>3
<1>5. \A i \in 1..k : /\ pieces[i].of = r /\ pieces[i].what = "byte"
                     /\ pieces[i].pos = o + i - 1
  BY <1>2
<1>6. PICK m \in Nat : m = n + Len(pieces)
  BY <1>4
<1>7. /\ pieces \in Seq(Written) /\ \A j \in 1..Len(pieces) : pieces[j].of = r
      /\ Appends(c, pieces) /\ stream \in [Conns -> Seq(Written)]
  BY <1>0, <1>1, <1>4, <1>5
<1>8. c \in Conns /\ r \in Requests /\ n \in Nat /\ n = Len(stream[c])
  OBVIOUS
<1>9. /\ stream' \in [Conns -> Seq(Written)]
      /\ \A q \in Requests \ {r} : Unmoved(q)
      /\ Puts(r, c, n, m, pieces)
  BY ONLY <1>6, <1>7, <1>8, WriteAppends, Zenon
<1>12. \A j \in 1..k : stream'[c][n + j] = pieces[j]
  BY ONLY <1>4, <1>9 DEF Puts
<1>13. \A i \in (n + 1)..(n + k) :
         stream'[c][i].what = "byte" /\ stream'[c][i].pos = o + (i - n) - 1
  <2> SUFFICES ASSUME NEW i \in (n + 1)..(n + k)
               PROVE  stream'[c][i].what = "byte" /\ stream'[c][i].pos = o + (i - n) - 1
    OBVIOUS
  <2>1. PICK j \in 1..k : i = n + j
    <3>1. i - n \in 1..k /\ i = n + (i - n)
      OBVIOUS
    <3> QED
      BY <3>1
  <2>2. stream'[c][i] = pieces[j]
    BY ONLY <1>12, <2>1
  <2>3. pieces[j].what = "byte" /\ pieces[j].pos = o + j - 1
    BY ONLY <1>5, <2>1
  <2>4. i - n = j
    BY <2>1
  <2> QED
    BY ONLY <2>2, <2>3, <2>4
<1>14. m = n + k
  BY <1>4, <1>6
<1> QED
  BY <1>9, <1>13, <1>14 DEF Gains, Puts

(* The bytes that were sent are still just those up to the offset, once    *)
(* and in order.                                                           *)
LEMMA MoreBytes ==
  ASSUME TypeOK, NEW c \in Conns, NEW r \in Requests, NEW k \in Nat,
         OnceOf(r), range[r].start <= offset[r],
         offset'[r] = offset[r] + k, offset[r] + k - 1 <= range[r].end, range' = range,
         NEW n \in Nat, NEW o \in Int, o = offset[r], Gains(r, c, n, k, o)
  PROVE  OnceOf(r)'
<1> USE DEF Gains
<1>1. PICK s \in Int : s = range[r].start
  BY DEF TypeOK
<1>2. s <= o /\ range'[r].start = s /\ offset'[r] = o + k
  BY <1>1
<1> DEFINE Added(d, i) == d = c /\ i \in (n + 1)..(n + k)
           Old(d, i) == i \in On(r, d) /\ ByteAt(r, d, i)
<1>3. ASSUME NEW d \in Conns, NEW i \in On(r, d)', ByteAt(r, d, i)'
      PROVE  Added(d, i) \/ (Old(d, i) /\ stream'[d][i] = stream[d][i])
  BY <1>3 DEF ByteAt
<1>4. ASSUME NEW d \in Conns, NEW i \in On(r, d), ByteAt(r, d, i)
      PROVE  /\ i \in On(r, d)' /\ ByteAt(r, d, i)' /\ stream'[d][i] = stream[d][i]
             /\ stream[d][i].pos \in s..(o - 1)
             /\ d = c => i \in 1..n
  BY <1>1, <1>4 DEF ByteAt, OnceOf
<1>5. ASSUME NEW d \in Conns, NEW i, Added(d, i)
      PROVE  /\ d = c /\ i \in Int /\ i > n /\ i <= n + k
             /\ i \in On(r, d)' /\ ByteAt(r, d, i)'
             /\ stream'[d][i].pos = o + (i - n) - 1
             /\ stream'[d][i].pos \in o..(o + k - 1)
  BY <1>5 DEF ByteAt
<1> HIDE DEF Added
<1>6. ASSUME NEW d \in Conns, NEW i \in On(r, d)', ByteAt(r, d, i)'
      PROVE  stream'[d][i].pos \in s..(o + k - 1)
  <2>1. CASE Added(d, i)
    BY <1>2, <1>5, <2>1
  <2>2. CASE Old(d, i) /\ stream'[d][i] = stream[d][i]
    BY <1>2, <1>4, <2>2
  <2> QED
    BY <1>3, <1>6, <2>1, <2>2
<1>7. ASSUME NEW p \in s..(o + k - 1)
      PROVE  \E d \in Conns : \E i \in On(r, d)' : ByteAt(r, d, i)' /\ stream'[d][i].pos = p
  <2>1. CASE p < o
    <3>1. p \in range[r].start..(offset[r] - 1)
      BY <1>1, <2>1
    <3>2. PICK d \in Conns : \E i \in On(r, d) : ByteAt(r, d, i) /\ stream[d][i].pos = p
      BY <3>1 DEF OnceOf
    <3> QED
      BY <1>4, <3>2
  <2>2. CASE p >= o
    <3>1. PICK i \in (n + 1)..(n + k) : o + (i - n) - 1 = p
      <4>1. n + 1 + (p - o) \in (n + 1)..(n + k) /\ o + ((n + 1 + (p - o)) - n) - 1 = p
        BY <2>2
      <4> QED
        BY <4>1
    <3>2. Added(c, i)
      BY DEF Added
    <3> QED
      BY <1>5, <3>1, <3>2
  <2> QED
    BY <1>2, <2>1, <2>2
<1>8. ASSUME NEW d \in Conns, NEW e \in Conns, NEW i \in On(r, d)', NEW j \in On(r, e)',
             ByteAt(r, d, i)', ByteAt(r, e, j)'
      PROVE  /\ stream'[d][i].pos = stream'[e][j].pos => d = e /\ i = j
             /\ d = e /\ i < j => stream'[d][i].pos < stream'[e][j].pos
  <2>1. CASE Old(d, i) /\ Old(e, j)
    <3>1. stream'[d][i] = stream[d][i] /\ stream'[e][j] = stream[e][j]
      BY <1>4, <2>1
    <3>2. /\ stream[d][i].pos = stream[e][j].pos => d = e /\ i = j
          /\ d = e /\ i < j => stream[d][i].pos < stream[e][j].pos
      BY <2>1 DEF OnceOf
    <3> QED
      BY <3>1, <3>2
  <2>2. CASE Old(d, i) /\ Added(e, j)
    <3>1. /\ stream'[d][i].pos \in s..(o - 1) /\ stream'[e][j].pos \in o..(o + k - 1)
      BY <1>4, <1>5, <2>2
    <3> QED
      BY <1>2, <3>1
  <2>3. CASE Added(d, i) /\ Old(e, j)
    <3>1. /\ stream'[d][i].pos \in o..(o + k - 1) /\ stream'[e][j].pos \in s..(o - 1)
          /\ i \in Int /\ i > n /\ d = c /\ (e = c => j \in 1..n)
      BY <1>4, <1>5, <2>3
    <3> QED
      BY <1>2, <3>1
  <2>4. CASE Added(d, i) /\ Added(e, j)
    <3>1. /\ stream'[d][i].pos = o + (i - n) - 1 /\ stream'[e][j].pos = o + (j - n) - 1
          /\ i \in Int /\ j \in Int /\ d = e
      BY <1>5, <2>4
    <3> QED
      BY <3>1
  <2> QED
    BY <1>3, <1>8, <2>1, <2>2, <2>3, <2>4
<1>9. offset'[r] - 1 <= range'[r].end
  BY <1>2
<1>10. ASSUME NEW d \in Conns, NEW i \in On(r, d)', ByteAt(r, d, i)'
       PROVE  stream'[d][i].pos \in range'[r].start..(offset'[r] - 1)
  BY <1>2, <1>6, <1>10
<1>11. ASSUME NEW p \in range'[r].start..(offset'[r] - 1)
       PROVE  \E d \in Conns : \E i \in On(r, d)' : ByteAt(r, d, i)' /\ stream'[d][i].pos = p
  BY <1>2, <1>7
<1> QED
  BY <1>8, <1>9, <1>10, <1>11 DEF OnceOf

(* One sendfile.                                                           *)
LEMMA SendSound ==
  ASSUME IInv, NEW r \in Requests, sendfile_some(r)
  PROVE  (\A q \in Requests : Sound(q)') /\ stream' \in [Conns -> Seq(Written)]
<1>1. PICK k \in 1..Remaining(r) : SendBytes(r, k, offset[r] + k)
  BY DEF sendfile_some
<1>2. /\ at[r] = "sendfile" /\ offset[r] + k <= fileSize
      /\ owner[client_fd[r]] # None
      /\ stream' = [stream EXCEPT ![owner[client_fd[r]]] = @ \o Bytes(r, k)]
      /\ offset' = [offset EXCEPT ![r] = offset[r] + k]
      /\ UNCHANGED <<at, range, code, conn, closed, fileVars, disturbed>>
  BY <1>1 DEF sendfile_some, Sending, SendBytes, WriteSome, calmKeeps, workKeeps, connVars
<1>3. TypeOK /\ Sound(r)
  BY SafetyPerRequest DEF IInv
<1>4. /\ offset \in [Requests -> 0..MaxSize]
      /\ range \in [Requests -> [start : 0..MaxSize, end : -1..(MaxSize - 1)]]
      /\ owner \in [Fds -> Conns \cup {None}]
      /\ stream \in [Conns -> Seq(Written)]
      /\ MaxSize \in Nat
  BY <1>3, ResponseAssumption, OffAssumption DEF TypeOK
<1>5. /\ client_fd[r] \in Fds /\ ClientOf[r] \in Conns
      /\ owner[client_fd[r]] \in {ClientOf[r], None} \/ ClientOf[r] \in closed
      /\ conn[ClientOf[r]] = "open" => owner[client_fd[r]] = ClientOf[r]
  BY <1>2, AtHome DEF Busy
<1>6. PICK c \in Conns : c = owner[client_fd[r]]
  BY <1>2, <1>3, <1>4, <1>5
<1>7. PICK n \in Nat : n = Len(stream[c])
  BY <1>3, <1>4
<1>8. PICK o \in Int : o = offset[r]
  BY <1>3, <1>4
<1>9. /\ k \in Nat /\ offset[r] + k - 1 <= range[r].end /\ range[r].start <= offset[r]
      /\ offset'[r] = offset[r] + k
  BY <1>2, <1>3, <1>4 DEF Remaining, Sound, EarlyOf
<1>10. k \in Nat /\ offset[r] + k <= fileSize
  BY <1>2, <1>9
<1>11. /\ stream' \in [Conns -> Seq(Written)]
       /\ \A q \in Requests \ {r} : Unmoved(q)
       /\ Gains(r, c, n, k, o)
  <2>1. Appends(c, Bytes(r, k))
    BY <1>2, <1>6 DEF Appends
  <2>2. /\ TypeOK /\ r \in Requests /\ c \in Conns /\ k \in Nat /\ n \in Nat /\ o \in Int
        /\ n = Len(stream[c]) /\ o = offset[r] /\ offset[r] + k <= fileSize
    BY <1>3, <1>7, <1>8, <1>10
  <2> QED
    BY ONLY <2>1, <2>2, BytesAppend, Zenon
<1>12. OnceOf(r)'
  <2>1. TypeOK /\ OnceOf(r) /\ range' = range
    BY <1>2, <1>3, <1>4 DEF Sound
  <2> QED
    BY <1>8, <1>9, <1>11, <2>1, MoreBytes
<1>13. EarlyOf(r)'
  BY <1>2, <1>3, <1>4, <1>9 DEF Sound, EarlyOf, Unwritten
<1>14. OwnOf(r)'
  BY <1>2, <1>3, <1>4, <1>5, <1>6, <1>11 DEF Sound, OwnOf, Gains
<1>15. SteadyOf(r)'
  <2>1. ASSUME conn[ClientOf[r]] = "open", Headed(r) PROVE Headed(r)'
    <3>1. c = ClientOf[r] /\ Response(r) = On(r, c) /\ Response(r)' = On(r, c)'
      BY <1>5, <1>6, <2>1 DEF Response
    <3>2. PICK first \in Response(r) :
            /\ PieceOf(r, first).what = "head"
            /\ \A i \in Response(r) \ {first} : first < i /\ PieceOf(r, i).what = "byte"
      BY <2>1 DEF Headed
    <3>3. \A i \in Response(r) : PieceOf(r, i)' = PieceOf(r, i) /\ i \in Response(r)'
      BY <1>11, <3>1 DEF PieceOf, Gains
    <3>4. \A i \in (n + 1)..(n + k) : first < i /\ PieceOf(r, i)'.what = "byte"
      BY <1>11, <3>1, <3>2 DEF PieceOf, Gains
    <3>5. \A i \in Response(r)' : i \in Response(r) \/ i \in (n + 1)..(n + k)
      BY <1>11, <3>1 DEF Gains
    <3> QED
      BY <3>2, <3>3, <3>4, <3>5 DEF Headed
  <2> QED
    BY <1>2, <1>3, <1>4, <2>1 DEF Sound, SteadyOf, fileVars
<1>16. \A q \in Requests \ {r} : offset'[q] = offset[q]
  BY <1>2, <1>3, <1>4
<1>17. \A q \in Requests : Sound(q)'
  BY <1>2, <1>11, <1>12, <1>13, <1>14, <1>15, <1>16, OthersSound DEF Sound
<1> QED
  BY <1>11, <1>17

(* When nothing remains to be sent, all that was announced was.            *)
LEMMA DoneSound ==
  ASSUME IInv, NEW r \in Requests, sendfile_done(r)
  PROVE  \A q \in Requests : Sound(q)'
<1>1. /\ at[r] = "sendfile" /\ Remaining(r) <= 0 /\ at' = [at EXCEPT ![r] = "done"]
      /\ UNCHANGED <<code, range, offset, stream, conn, closed, fileVars, disturbed>>
  BY DEF sendfile_done, Sending, Go, calmKeeps, workKeeps, connVars
<1>2. /\ at \in [Requests -> Points]
      /\ offset \in [Requests -> 0..MaxSize]
      /\ range \in [Requests -> [start : 0..MaxSize, end : -1..(MaxSize - 1)]]
      /\ MaxSize \in Nat /\ ClientOf[r] \in Conns
  BY ResponseAssumption, OffAssumption DEF IInv, TypeOK
<1>3. Unmoved(r) /\ \A q \in Requests \ {r} : Unmoved(q)
  BY <1>1, NothingMoved
<1>4. Sound(r)
  BY SafetyPerRequest DEF IInv
<1>5. at'[r] = "done"
  BY <1>1, <1>2
<1>6. EarlyOf(r)'
  BY <1>1, <1>4, <1>5 DEF Sound, EarlyOf, Unwritten
<1>7. OwnOf(r)' /\ OnceOf(r)'
  BY <1>1, <1>3, <1>4, SameOwn, SameOnce DEF Sound
<1>8. SteadyOf(r)'
  <2> SUFFICES ASSUME r \notin disturbed, conn[ClientOf[r]] = "open"
               PROVE  Headed(r)' /\ Delivered(r)' = range'[r].start..range'[r].end
    BY <1>1, <1>5 DEF SteadyOf, fileVars
  <2>1. Headed(r)
    BY <1>1, <1>4 DEF Sound, SteadyOf
  <2>2. offset[r] - 1 = range[r].end
    BY <1>1, <1>2, <1>4 DEF Sound, OnceOf, Remaining
  <2>3. \A c \in Conns : \A i \in On(r, c) : c = ClientOf[r]
    <3>1. ClientOf[r] \notin closed
      BY <1>2 DEF IInv, Homes
    <3> QED
      BY <1>4, <3>1 DEF Sound, OwnOf
  <2>4. \A p \in Delivered(r) : p \in range[r].start..range[r].end
    BY <1>2, <1>4, <2>2 DEF Delivered, Response, PieceOf, Sound, OnceOf, ByteAt
  <2>5. \A p \in range[r].start..range[r].end : p \in Delivered(r)
    <3> SUFFICES ASSUME NEW p \in range[r].start..range[r].end PROVE p \in Delivered(r)
      OBVIOUS
    <3>1. PICK c \in Conns : \E i \in On(r, c) : ByteAt(r, c, i) /\ stream[c][i].pos = p
      BY <1>4, <2>2 DEF Sound, OnceOf
    <3>2. PICK i \in On(r, c) : ByteAt(r, c, i) /\ stream[c][i].pos = p
      BY <3>1
    <3> QED
      BY <2>3, <3>2 DEF Delivered, Response, PieceOf, ByteAt
  <2>6. Delivered(r) = range[r].start..range[r].end
    BY <2>4, <2>5
  <2> QED
    BY <1>1, <1>3, <2>1, <2>6, SameResponse
<1>9. \A q \in Requests \ {r} : at'[q] = at[q]
  BY <1>1, <1>2
<1> QED
  BY <1>1, <1>3, <1>6, <1>7, <1>8, <1>9, OthersSound DEF Sound

(* parse_ranges yields numbers.                                            *)
LEMMA RangeTyped ==
  ASSUME NEW size \in Nat, NEW p \in Piece, NEW any \in Offs
  PROVE  parse_range(p, size, any).start \in Int /\ parse_range(p, size, any).end \in Int
<1>0. OffMax \in Nat /\ p.a \in Int /\ p.b \in Int /\ any \in Int
  BY OffAssumption DEF Piece, Offs
<1>1. CASE p.form = "suffix"
  BY <1>0, <1>1 DEF parse_range, Keep, Off
<1>2. CASE p.form = "from"
  BY <1>0, <1>2 DEF parse_range, Keep, Nothing
<1>3. CASE p.form = "range"
  BY <1>0, <1>3 DEF parse_range, Keep, Nothing
<1>4. CASE p.form \in {"none", "bad"}
  BY <1>4 DEF parse_range, Nothing
<1> QED
  BY <1>1, <1>2, <1>3, <1>4 DEF Piece, Forms

(* The range that a range request is answered with is within the file.     *)
LEMMA FirstRange ==
  ASSUME IInv, NEW r \in Requests, at[r] = "stat", is_range_request(ask[r].lines),
         Kept(range_header(ask[r].lines), fileSize) # {},
         NEW any \in Offs,
         NEW first, first = parse_range(range_header(ask[r].lines)
                                          [FirstKept(range_header(ask[r].lines), fileSize)],
                                        fileSize, any),
         Valid(first, fileSize)
  PROVE  /\ first.start \in Int /\ first.end \in Int
         /\ first.start <= first.end /\ first.end < fileSize /\ first.start >= 0
<1>1. PICK lines : lines = ask[r].lines
  OBVIOUS
<1>2. lines \in Seq(Line)
  BY <1>1 DEF IInv, Shape, Known, AskRecords, Busy
<1>3. fileSize \in Nat /\ fileSize \in 0..OffMax
  BY ResponseAssumption, OffAssumption DEF IInv, Shape
<1>4. PICK pieces : pieces = range_header(lines)
  OBVIOUS
<1>5. pieces \in Seq(Piece)
  <2>1. RangeLines(lines) \in SUBSET (1..Len(lines)) /\ RangeLines(lines) # {}
    BY <1>1 DEF RangeLines, is_range_request
  <2>2. FirstOf(RangeLines(lines)) \in 1..Len(lines)
    <3>1. Len(lines) \in Nat
      BY <1>2
    <3>2. FirstOf(RangeLines(lines)) \in RangeLines(lines)
      BY <2>1, <3>1, FirstOfExists
    <3> QED
      BY <2>1, <3>2
  <2>3. lines[FirstOf(RangeLines(lines))] \in Line
    BY <1>2, <2>2
  <2> QED
    BY <1>4, <2>3 DEF range_header, Line
<1>6. PICK piece \in Piece : first = parse_range(piece, fileSize, any)
  <2>1. Kept(pieces, fileSize) \in SUBSET (1..Len(pieces)) /\ Kept(pieces, fileSize) # {}
    BY <1>1, <1>4 DEF Kept
  <2>2. FirstKept(pieces, fileSize) \in 1..Len(pieces)
    <3>1. Len(pieces) \in Nat
      BY <1>5
    <3>2. FirstKept(pieces, fileSize) \in Kept(pieces, fileSize)
      BY <2>1, <3>1, FirstOfExists DEF FirstKept
    <3> QED
      BY <2>1, <3>2
  <2>3. pieces[FirstKept(pieces, fileSize)] \in Piece
    BY <1>5, <2>2
  <2> QED
    BY <1>1, <1>4, <2>3
<1>7. first.start \in Int /\ first.end \in Int
  BY <1>3, <1>6, RangeTyped
<1> QED
  BY <1>3, <1>7 DEF Valid

(* stat_file, for one value of what an overflow gives.                     *)
StatWith(r, any) ==
  LET pieces == range_header(ask[r].lines)
      first  == parse_range(pieces[FirstKept(pieces, fileSize)], fileSize, any)
  IN  IF ~linked THEN Fail(r, "404")
      ELSE IF ~is_range_request(ask[r].lines) THEN Announce(r, 0, fileSize - 1)
      ELSE IF Throws(pieces) THEN Terminate
      ELSE IF Kept(pieces, fileSize) = {} THEN Fail(r, "400")
      ELSE IF ~Valid(first, fileSize) THEN Fail(r, "400")
      ELSE Announce(r, first.start, first.end)

LEMMA StatWithSome ==
  ASSUME NEW r, stat_file(r)
  PROVE  \E any \in Offs : StatWith(r, any)
BY Zenon DEF stat_file, StatWith

(* stat_file announces a range, fails, or does not come back.              *)
LEMMA StatSound ==
  ASSUME IInv, NEW r \in Requests, stat_file(r)
  PROVE  \A q \in Requests : Sound(q)'
<1>0. PICK any \in Offs : StatWith(r, any)
  BY StatWithSome
<1> DEFINE lines == ask[r].lines
           pieces == range_header(lines)
           first == parse_range(pieces[FirstKept(pieces, fileSize)], fileSize, any)
<1>1. at[r] = "stat" /\ at[r] \in Busy /\ UNCHANGED <<calmKeeps, workKeeps, disturbed>>
  BY DEF stat_file, Busy, calmKeeps
<1>2. Response(r) = {}
  <2>1. Sound(r)
    BY SafetyPerRequest DEF IInv
  <2> QED
    BY <1>1, <2>1, ResponseAssumption DEF Sound, EarlyOf, Unwritten, Response
<1>3. fileSize \in Nat
  BY ResponseAssumption, OffAssumption DEF IInv, Shape
<1>4. CASE \E err \in Codes : Fail(r, err)
  BY <1>1, <1>2, <1>4, FailSound
<1>5. CASE linked /\ Announce(r, 0, fileSize - 1)
  BY <1>1, <1>3, <1>5, AnnounceSound
<1>6. CASE UNCHANGED <<at, range, offset, code, stream>>
  BY <1>1, <1>6, StillSound DEF workKeeps, connVars
<1>7. CASE /\ linked /\ is_range_request(lines) /\ Kept(pieces, fileSize) # {}
           /\ Valid(first, fileSize) /\ Announce(r, first.start, first.end)
  <2>1. PICK x : x = first
    OBVIOUS
  <2>2. /\ x.start \in Int /\ x.end \in Int
        /\ x.start <= x.end /\ x.end < fileSize /\ x.start >= 0
    BY <1>1, <1>7, <2>1, FirstRange
  <2>3. PICK s \in Int, e \in Int : s = x.start /\ e = x.end
    BY <2>2
  <2>4. Announce(r, s, e)
    BY ONLY <1>7, <2>1, <2>3
  <2>5. fileSize \in Int /\ s \in Int /\ e \in Int
    BY <2>3, ResponseAssumption, OffAssumption DEF IInv, TypeOK
  <2>6. s <= e + 1 /\ e < fileSize
    BY ONLY <2>2, <2>3, <2>5
  <2>7. linked
    BY <1>7
  <2> QED
    BY <1>1, <2>4, <2>6, <2>7, AnnounceSound
<1> QED
  <2>1. "400" \in Codes /\ "404" \in Codes
    BY DEF Codes
  <2> HIDE DEF pieces, first
  <2> QED
    BY <1>0, <1>4, <1>5, <1>6, <1>7, <2>1 DEF StatWith, Terminate, pieces, first

(* Every step of a worker.                                                 *)
LEMMA HandlerSound ==
  ASSUME IInv, NEW r \in Requests, handle_request(r)
  PROVE  \A q \in Requests : Sound(q)'
<1> USE DEF Busy
<1>a. Sound(r) /\ fileSize \in Nat /\ ClientOf[r] \in Conns
  BY SafetyPerRequest, ResponseAssumption, OffAssumption DEF IInv, Shape
<1>1. CASE validate_file(r)
  <2>1. at[r] = "validate" /\ UNCHANGED <<calmKeeps, workKeeps, disturbed>>
    BY <1>1 DEF validate_file, calmKeeps
  <2>2. Response(r) = {}
    BY <1>a, <2>1 DEF Sound, EarlyOf, Unwritten, Response
  <2>3. \/ \E err \in Codes : Fail(r, err)
        \/ linked /\ Proceed(r, "stat")
        \/ UNCHANGED <<at, range, offset, code, stream>>
    BY <1>1 DEF validate_file, Terminate, Codes
  <2>4. UNCHANGED <<conn, closed, fileVars>>
    BY <2>1 DEF workKeeps, connVars
  <2> QED
    BY <2>1, <2>2, <2>3, <2>4, FailSound, ProceedSound, StillSound
<1>2. CASE open_file(r)
  <2>1. at[r] = "open" /\ UNCHANGED <<calmKeeps, workKeeps, disturbed>>
    BY <1>2 DEF open_file, calmKeeps
  <2>2. \/ linked /\ Proceed(r, "sendfile")
        \/ ~linked /\ "500" \in Codes /\ Fail(r, "500")
    BY <1>2 DEF open_file, Codes
  <2>3. ~linked => r \in disturbed
    BY <1>a, <2>1 DEF Sound, SteadyOf
  <2> QED
    BY <2>1, <2>2, <2>3, FailSound, ProceedSound
<1>3. CASE sendfile_none(r)
  <2>1. /\ at[r] = "sendfile" /\ UNCHANGED <<workKeeps, disturbed>>
        /\ Fail(r, "500") /\ "500" \in Codes
        /\ Remaining(r) > 0 /\ offset[r] >= fileSize
    BY <1>3 DEF sendfile_none, Sending, Codes, calmKeeps
  <2>2. r \in disturbed
    <3>1. offset[r] \in Int /\ range[r].end \in Int
      BY DEF IInv, TypeOK
    <3>2. ~(range[r].end < fileSize)
      BY <1>a, <2>1, <3>1 DEF Remaining
    <3> QED
      BY <1>a, <2>1, <3>2 DEF Sound, SteadyOf
  <2> QED
    BY <2>1, <2>2, FailSound
<1>4. CASE sendfile_failed(r)
  <2>1. /\ at[r] = "sendfile" /\ UNCHANGED <<workKeeps, disturbed>> /\ Broken(client_fd[r])
        /\ \/ Fail(r, "500") /\ "500" \in Codes
           \/ UNCHANGED <<at, range, offset, code, stream>>
    BY <1>4 DEF sendfile_failed, Sending, Codes, calmKeeps, Terminate
  <2>2. conn[ClientOf[r]] # "open"
    BY <2>1, AtHome
  <2>3. UNCHANGED <<conn, closed, fileVars>>
    BY <2>1 DEF workKeeps, connVars
  <2> QED
    BY <2>1, <2>2, <2>3, FailSound, StillSound
<1> QED
  BY <1>1, <1>2, <1>3, <1>4, StatSound, HeaderSound, SendSound, DoneSound, ErrorSound
     DEF handle_request

(* A call that the system refuses disturbs the request.                    *)
LEMMA RefusalSound ==
  ASSUME IInv, NEW r \in Requests, system_refuses(r)
  PROVE  \A q \in Requests : Sound(q)'
<1>1. /\ at[r] \in Busy /\ Fail(r, "500") /\ "500" \in Codes /\ UNCHANGED workKeeps
      /\ disturbed \subseteq disturbed' /\ r \in disturbed'
  BY DEF system_refuses, open_refused, sendfile_refused, Sending, Disturb, Busy, Codes
<1> QED
  BY <1>1, FailSound

-----------------------------------------------------------------------------
(* The steps of the reactor, of the clients and of whoever changes files.  *)

(* A request moves on, and nothing is written for it yet.                  *)
LEMMA MoveSound ==
  ASSUME IInv, NEW r \in Requests, NEW point \in {"sent", "queued", "validate"},
         at[r] \in {"unsent", "sent", "queued"}, at' = [at EXCEPT ![r] = point],
         UNCHANGED <<conn, closed, fileVars, disturbed, range, offset, code, stream>>
  PROVE  \A q \in Requests : Sound(q)'
<1>1. at \in [Requests -> Points]
  BY DEF IInv, TypeOK
<1>2. Unmoved(r) /\ \A q \in Requests \ {r} : Unmoved(q)
  BY NothingMoved
<1>3. Sound(r)
  BY SafetyPerRequest DEF IInv
<1>4. at'[r] = point
  BY <1>1
<1>5. EarlyOf(r)'
  BY <1>2, <1>3, <1>4 DEF Sound, EarlyOf, Unwritten, Unmoved
<1>6. OwnOf(r)' /\ OnceOf(r)'
  BY <1>2, <1>3, SameOwn, SameOnce DEF Sound
<1>7. SteadyOf(r)'
  BY <1>4 DEF SteadyOf
<1>8. \A q \in Requests \ {r} : at'[q] = at[q]
  BY <1>1
<1> QED
  BY <1>2, <1>5, <1>6, <1>7, <1>8, OthersSound DEF Sound

(* A request that is refused gets its page at once.                        *)
LEMMA RefuseSound ==
  ASSUME IInv, NEW r \in Requests, NEW fd \in Fds, at[r] = "sent", owner[fd] = ClientOf[r],
         NEW err \in Codes, send_data_nonblock(r, fd, err), at' = [at EXCEPT ![r] = "done"],
         UNCHANGED <<conn, closed, fileVars, range, offset, code>>
  PROVE  \A q \in Requests : Sound(q)'
<1>1. at \in [Requests -> Points] /\ ClientOf[r] \in Conns
  BY ResponseAssumption DEF IInv, TypeOK
<1>2. Sound(r)
  BY SafetyPerRequest DEF IInv
<1>3. at'[r] = "done"
  BY <1>1
<1>8. PICK what \in Codes \cup {"cut"} : SentAs(r, fd, err, what)
  BY SentAsSome
<1>9. disturbed \subseteq disturbed' /\ (r \notin disturbed' => what \in Codes)
  BY <1>8 DEF SentAs
<1>4. /\ \A q \in Requests \ {r} : Unmoved(q)
      /\ OwnOf(r)' /\ OnceOf(r)'
      /\ ~Broken(fd) /\ Response(r) = {} =>
           \E first \in Response(r)' :
             Response(r)' = {first} /\ PieceOf(r, first)'.what = what
  <2>1. what \in Whats \ {"byte"} /\ WriteTo(fd, Page(r, what))
    BY <1>8 DEF Whats, Codes, SentAs
  <2> QED
    BY <2>1, PageWritten
<1>5. EarlyOf(r)'
  BY <1>2, <1>3 DEF Sound, EarlyOf, Unwritten
<1>6. SteadyOf(r)'
  <2>1. conn[ClientOf[r]] = "open" => ~Broken(fd)
    BY <1>1, ResponseAssumption DEF Broken
  <2>2. Response(r) = {}
    BY <1>1, <1>2 DEF Sound, EarlyOf, Unwritten, Response
  <2>3. conn[ClientOf[r]] = "open" /\ r \notin disturbed' => Alone(r, Codes)'
    BY <1>4, <1>9, <2>1, <2>2 DEF Alone
  <2> QED
    BY <1>3, <2>3 DEF SteadyOf
<1>7. \A q \in Requests \ {r} : at'[q] = at[q]
  BY <1>1
<1> QED
  BY <1>4, <1>5, <1>6, <1>7, <1>9, OthersSound DEF Sound

(* The request that is read next was sent on this connection.              *)
LEMMA NextRead ==
  ASSUME IInv, NEW fd \in Fds, owner[fd] # None, inbox[owner[fd]] # <<>>
  PROVE  LET r == Head(inbox[owner[fd]])
         IN  /\ owner[fd] \in Conns /\ inbox[owner[fd]] \in Seq(Requests)
             /\ r \in Requests /\ r = inbox[owner[fd]][1] /\ 1 \in 1..Len(inbox[owner[fd]])
             /\ at[r] = "sent" /\ ClientOf[r] = owner[fd]
<1>1. PICK c \in Conns : c = owner[fd]
  BY DEF IInv, TypeOK
<1>2. inbox[c] \in Seq(Requests) /\ inbox[c] # <<>>
  BY <1>1 DEF IInv, TypeOK
<1>3. /\ Head(inbox[c]) \in Requests /\ Head(inbox[c]) = inbox[c][1]
      /\ 1 \in 1..Len(inbox[c])
  BY <1>2, TailElems
<1>4. at[inbox[c][1]] = "sent" /\ ClientOf[inbox[c][1]] = c
  BY <1>3 DEF IInv, Whereabouts
<1> QED
  BY <1>1, <1>2, <1>3, <1>4

(* The request that is taken next is queued.                               *)
LEMMA NextTaken ==
  ASSUME IInv, queue # <<>>
  PROVE  /\ Head(queue) \in Requests /\ Head(queue) = queue[1] /\ 1 \in 1..Len(queue)
         /\ at[Head(queue)] = "queued"
<1>1. queue \in Seq(Requests)
  BY DEF IInv, TypeOK
<1>2. /\ Head(queue) \in Requests /\ Head(queue) = queue[1] /\ 1 \in 1..Len(queue)
      /\ Head(queue) \in QueuedIn(queue)
  BY <1>1, TailElems DEF QueuedIn
<1> QED
  BY <1>2 DEF IInv, Whereabouts

(* Every step keeps the invariant of every response.                       *)
LEMMA StepSound ==
  ASSUME IInv, [Next]_vars
  PROVE  \A q \in Requests : Sound(q)'
<1>a. \A q \in Requests : Sound(q) /\ ClientOf[q] \in Conns
  BY SafetyPerRequest, ResponseAssumption DEF IInv
<1>b. /\ at \in [Requests -> Points] /\ conn \in [Conns -> {"new", "open", "gone"}]
  BY DEF IInv, TypeOK
<1>1. ASSUME NEW r \in Requests, client_send(r) PROVE \A q \in Requests : Sound(q)'
  <2>1. /\ at[r] = "unsent" /\ at' = [at EXCEPT ![r] = "sent"]
        /\ UNCHANGED <<conn, closed, fileVars, disturbed, range, offset, code, stream>>
    BY <1>1 DEF client_send, Go
  <2> QED
    BY <2>1, MoveSound
<1>2. ASSUME NEW c \in Conns, client_leave(c) PROVE \A q \in Requests : Sound(q)'
  <2>1. \A q \in Requests : conn'[ClientOf[q]] = "open" => conn[ClientOf[q]] = "open"
    BY <1>2, <1>a, <1>b DEF client_leave
  <2>2. UNCHANGED <<closed, fileVars, disturbed, at, range, offset, code, stream>>
    BY <1>2 DEF client_leave, workVars
  <2> QED
    BY <1>a, <2>1, <2>2, NothingMoved, SameSound DEF fileVars
<1>3. ASSUME NEW c \in Conns, accept_client(c) PROVE \A q \in Requests : Sound(q)'
  <2>1. \A q \in Requests : conn'[ClientOf[q]] = "open" =>
          conn[ClientOf[q]] = "open" \/ at[q] = "unsent"
    BY <1>3, <1>a, <1>b DEF accept_client, IInv, Homes
  <2>2. UNCHANGED <<closed, fileVars, disturbed, at, range, offset, code, stream>>
    BY <1>3 DEF accept_client, workVars
  <2> QED
    BY <1>a, <2>1, <2>2, NothingMoved, SameSound DEF fileVars
<1>4. CASE file_changes
  <2>1. /\ UNCHANGED <<conn, closed, at, range, offset, code, stream>>
        /\ disturbed \subseteq disturbed'
        /\ \A q \in Requests : at[q] \in Busy => q \in disturbed'
    BY <1>4 DEF file_changes, connVars, workVars, AtBusy
  <2> QED
    BY <1>a, <2>1, NothingMoved, SameSound
<1>5. ASSUME NEW fd \in Fds, close_client(fd) PROVE \A q \in Requests : Sound(q)'
  <2>1. /\ UNCHANGED <<conn, fileVars, disturbed, at, range, offset, code, stream>>
        /\ closed \subseteq closed'
    BY <1>5 DEF close_client, workVars
  <2> QED
    BY <1>a, <2>1, NothingMoved, SameSound DEF fileVars
<1>6. ASSUME NEW fd \in Fds, deal_client_msg(fd) PROVE \A q \in Requests : Sound(q)'
  <2>1. PICK r : r = Head(inbox[owner[fd]])
    OBVIOUS
  <2>2. r \in Requests /\ at[r] = "sent" /\ ClientOf[r] = owner[fd]
    BY <1>6, <2>1, NextRead DEF deal_client_msg
  <2>3. UNCHANGED <<conn, closed, fileVars, range, offset, code>>
    BY <1>6 DEF deal_client_msg, msgKeeps
  <2>4. \/ /\ \E err \in Codes : send_data_nonblock(r, fd, err)
           /\ at' = [at EXCEPT ![r] = "done"]
        \/ UNCHANGED <<stream, disturbed>> /\ at' = [at EXCEPT ![r] = "queued"]
    BY <1>6, <2>1 DEF deal_client_msg, Go, Codes
  <2> QED
    BY <2>2, <2>3, <2>4, MoveSound, RefuseSound
<1>7. CASE take_request
  <2>1. PICK r : r = Head(queue)
    OBVIOUS
  <2>2. r \in Requests /\ at[r] = "queued"
    BY <1>7, <2>1, NextTaken DEF take_request, Take
  <2>3. /\ at' = [at EXCEPT ![r] = "validate"]
        /\ UNCHANGED <<conn, closed, fileVars, disturbed, range, offset, code, stream>>
    BY <1>7, <2>1 DEF take_request, Go, calmKeeps, workKeeps, connVars
  <2> QED
    BY <2>2, <2>3, MoveSound
<1>8. CASE UNCHANGED vars
  BY <1>8, StillSound DEF vars, connVars, workVars
<1>9. ASSUME NEW fd \in Fds, recv_past_end(fd) PROVE \A q \in Requests : Sound(q)'
  <2>1. UNCHANGED <<conn, closed, fileVars, disturbed, at, range, offset, code, stream>>
    BY <1>9 DEF recv_past_end, workVars
  <2> QED
    BY <2>1, StillSound
<1> QED
  BY <1>1, <1>2, <1>3, <1>4, <1>5, <1>6, <1>7, <1>8, <1>9, HandlerSound, RefusalSound
     DEF Next

-----------------------------------------------------------------------------
(* Types.  Shape has those of the request queue, the inboxes, the          *)
(* descriptors and the asks already; what a worker does is typed because   *)
(* what it announces is within the file.                                   *)
PoolTypes ==
  /\ inflight \subseteq Requests
  /\ answered \subseteq Requests
  /\ state \in {"open", "dead"}

PeerTypes == conn \in [Conns -> {"new", "open", "gone"}] /\ closed \subseteq Conns

FileTypes == linked \in BOOLEAN /\ changes \in 0..MaxChanges /\ disturbed \subseteq Requests

WorkTypes ==
  /\ client_fd \in [Requests -> Fds \cup {None}]
  /\ range \in [Requests -> [start : 0..MaxSize, end : -1..(MaxSize - 1)]]
  /\ offset \in [Requests -> 0..MaxSize]
  /\ code \in [Requests -> Codes \cup {"none"}]

StreamTypes == stream \in [Conns -> Seq(Written)]

(* TypeOK is what Shape says and these.                                    *)
LEMMA TypesOf ==
  Shape /\ PoolTypes /\ PeerTypes /\ FileTypes /\ WorkTypes /\ StreamTypes => TypeOK
<1> SUFFICES ASSUME Shape, PoolTypes, PeerTypes, FileTypes, WorkTypes, StreamTypes
             PROVE  TypeOK
  OBVIOUS
<1>1. \A s \in Seq(Known) : s \in Seq(Requests)
  <2> SUFFICES ASSUME NEW s \in Seq(Known) PROVE s \in Seq(Requests)
    OBVIOUS
  <2>1. s \in [1..Len(s) -> Known] /\ Len(s) \in Nat /\ Known \subseteq Requests
    BY DEF Known
  <2> QED
    BY <2>1
<1>2. queue \in Seq(Requests) /\ inbox \in [Conns -> Seq(Requests)]
  BY <1>1 DEF Shape
<1> QED
  BY <1>2 DEF TypeOK, Shape, PoolTypes, PeerTypes, FileTypes, WorkTypes, StreamTypes

(* A page is a piece, whoever it reaches.                                  *)
LEMMA PageTyped ==
  ASSUME TypeOK, NEW r \in Requests, NEW fd \in Fds, NEW what \in Whats,
         WriteTo(fd, Page(r, what))
  PROVE  StreamTypes'
<1>1. stream \in [Conns -> Seq(Written)]
  BY DEF TypeOK
<1>2. CASE UNCHANGED stream
  BY <1>1, <1>2 DEF StreamTypes
<1>3. CASE owner[fd] # None /\ WriteSome(fd, Page(r, what))
  <2>1. PICK c \in Conns : c = owner[fd]
    BY <1>3 DEF TypeOK
  <2>2. PICK n \in Nat : n = Len(stream[c])
    BY <1>1
  <2>3. Appends(c, Page(r, what))
    BY <1>3, <2>1 DEF WriteSome, Appends
  <2> QED
    BY <1>1, <2>2, <2>3, PageAppends DEF StreamTypes
<1> QED
  BY <1>2, <1>3 DEF WriteTo

(* A failure keeps them.                                                   *)
LEMMA FailTyped ==
  ASSUME TypeOK, NEW r \in Requests, NEW err \in Codes, Fail(r, err), UNCHANGED workKeeps
  PROVE  PoolTypes' /\ WorkTypes' /\ StreamTypes'
<1>1. PoolTypes /\ WorkTypes /\ StreamTypes
  BY DEF TypeOK, PoolTypes, WorkTypes, StreamTypes
<1>2. PoolTypes'
  BY <1>1 DEF PoolTypes, Fail, poolVars
<1> QED
  BY <1>1, <1>2 DEF Fail, workKeeps, WorkTypes, StreamTypes

(* The steps of a worker keep the types.                                   *)
LEMMA HandlerTyped ==
  ASSUME IInv, NEW r \in Requests, handle_request(r)
  PROVE  PoolTypes' /\ WorkTypes' /\ StreamTypes'
<1> USE DEF Busy
<1>a. /\ TypeOK /\ Sound(r)
      /\ at[r] \in Busy
  BY SafetyPerRequest
     DEF IInv, handle_request, validate_file, stat_file, send_header, open_file,
         sendfile_some, Sending, sendfile_none, sendfile_failed, sendfile_done, reply_error
<1>b. PoolTypes /\ WorkTypes /\ StreamTypes /\ MaxSize \in Nat /\ fileSize \in 0..MaxSize
  BY <1>a, ResponseAssumption, OffAssumption
     DEF TypeOK, PoolTypes, WorkTypes, StreamTypes
<1>c. client_fd[r] \in Fds
  BY <1>a, AtHome
<1>d. PoolTypes'
  <2>1. UNCHANGED poolVars \/ Die \/ Finish(r)
    BY DEF handle_request, validate_file, stat_file, send_header, open_file, sendfile_some,
           SendBytes, sendfile_none, sendfile_failed, sendfile_done, reply_error,
           Fail, Proceed, Announce, AnnounceUpTo, Terminate
  <2> QED
    BY <1>b, <2>1 DEF PoolTypes, poolVars, Die, Finish
<1>e. SUFFICES WorkTypes' /\ StreamTypes'
  BY <1>d
<1>1. CASE \E err \in Codes : Fail(r, err) /\ UNCHANGED workKeeps
  BY <1>b, <1>1 DEF Fail, workKeeps, WorkTypes, StreamTypes
<1>2. CASE UNCHANGED <<client_fd, range, offset, code, stream>>
  BY <1>b, <1>2 DEF WorkTypes, StreamTypes
<1>3. CASE stat_file(r)
  <2>0. PICK any \in Offs : StatWith(r, any)
    BY <1>3, StatWithSome
  <2> DEFINE lines == ask[r].lines
             pieces == range_header(lines)
             first == parse_range(pieces[FirstKept(pieces, fileSize)], fileSize, any)
  <2>a. at[r] = "stat" /\ UNCHANGED workKeeps
    BY <1>3 DEF stat_file, calmKeeps
  <2>1. ASSUME NEW s \in Int, NEW e \in Int, 0 <= s, s <= e + 1, e < fileSize,
               Announce(r, s, e)
        PROVE  WorkTypes' /\ StreamTypes'
    <3>1. s \in 0..MaxSize /\ e \in -1..(MaxSize - 1)
      BY <1>b, <2>1
    <3> QED
      BY <1>b, <2>a, <2>1, <3>1
         DEF Announce, AnnounceUpTo, WorkTypes, StreamTypes, workKeeps
  <2>2. CASE Announce(r, 0, fileSize - 1)
    BY <1>b, <2>1, <2>2
  <2>3. CASE /\ is_range_request(lines) /\ Kept(pieces, fileSize) # {}
             /\ Valid(first, fileSize) /\ Announce(r, first.start, first.end)
    <3>1. PICK x : x = first
      OBVIOUS
    <3>2. /\ x.start \in Int /\ x.end \in Int
          /\ x.start <= x.end /\ x.end < fileSize /\ x.start >= 0
      BY <2>a, <2>3, <3>1, FirstRange
    <3>3. PICK s \in Int, e \in Int : s = x.start /\ e = x.end
      BY <3>2
    <3>4. s <= e + 1 /\ e < fileSize /\ 0 <= s /\ Announce(r, s, e)
      <4>1. Announce(r, s, e)
        BY ONLY <2>3, <3>1, <3>3
      <4>2. fileSize \in Int /\ s \in Int /\ e \in Int
        BY <1>b, <3>3
      <4>3. s <= e + 1 /\ e < fileSize /\ 0 <= s
        BY ONLY <3>2, <3>3, <4>2
      <4> QED
        BY <4>1, <4>3
    <3> QED
      BY <2>1, <3>4
  <2>4. "400" \in Codes /\ "404" \in Codes
    BY DEF Codes
  <2> HIDE DEF pieces, first
  <2> QED
    BY <1>1, <1>2, <2>0, <2>a, <2>2, <2>3, <2>4
       DEF StatWith, Terminate, workKeeps, pieces, first
<1>4. CASE send_header(r)
  <2>1. WorkTypes'
    BY <1>b, <1>4 DEF send_header, workKeeps, WorkTypes
  <2>2. StreamTypes'
    <3>1. PICK what \in {"head", "cut"} : SentAs(r, client_fd[r], "head", what)
      BY <1>4, SentAsSome DEF send_header
    <3> QED
      BY <1>a, <1>c, <3>1, PageTyped DEF SentAs, Whats
  <2> QED
    BY <2>1, <2>2
<1>5. CASE sendfile_some(r)
  <2>1. PICK k \in 1..Remaining(r) : SendBytes(r, k, offset[r] + k)
    BY <1>5 DEF sendfile_some
  <2>2. /\ offset[r] + k <= fileSize /\ offset' = [offset EXCEPT ![r] = offset[r] + k]
        /\ UNCHANGED <<client_fd, range, code>>
    BY <2>1 DEF SendBytes, calmKeeps, workKeeps
  <2>3. offset[r] + k \in 0..MaxSize
    <3>1. offset[r] \in Nat /\ range[r].end \in Int
      BY <1>b DEF WorkTypes
    <3> QED
      BY <1>b, <2>2, <3>1 DEF Remaining
  <2>4. WorkTypes'
    BY <1>b, <2>2, <2>3 DEF WorkTypes
  <2>5. StreamTypes'
    BY <1>5, SendSound DEF StreamTypes
  <2> QED
    BY <2>4, <2>5
<1>6. CASE reply_error(r)
  <2>1. WorkTypes'
    BY <1>b, <1>6 DEF reply_error, workKeeps, WorkTypes
  <2>2. code[r] \in Whats
    BY <1>a, <1>6 DEF reply_error, Sound, EarlyOf, Whats
  <2>3. StreamTypes'
    <3>1. PICK what \in {code[r], "cut"} : SentAs(r, client_fd[r], code[r], what)
      BY <1>6, SentAsSome DEF reply_error
    <3> QED
      BY <1>a, <1>c, <2>2, <3>1, PageTyped DEF SentAs, Whats
  <2> QED
    BY <2>1, <2>3
<1>7. "403" \in Codes /\ "404" \in Codes /\ "500" \in Codes
  BY DEF Codes
<1>8. CASE validate_file(r) \/ open_file(r)
  BY <1>1, <1>2, <1>7, <1>8
     DEF validate_file, open_file, Proceed, Terminate, calmKeeps, workKeeps
<1>9. CASE sendfile_none(r) \/ sendfile_failed(r) \/ sendfile_done(r)
  BY <1>1, <1>2, <1>7, <1>9
     DEF sendfile_none, sendfile_failed, sendfile_done, Terminate, calmKeeps, workKeeps
<1> QED
  BY <1>3, <1>4, <1>5, <1>6, <1>8, <1>9 DEF handle_request

(* Every step keeps the types.                                             *)
LEMMA StepTypeOK == IInv /\ [Next]_vars => TypeOK'
<1> SUFFICES ASSUME IInv, [Next]_vars PROVE TypeOK'
  OBVIOUS
<1>a. Shape'
  BY StepShape DEF IInv
<1>b. PoolTypes /\ PeerTypes /\ FileTypes /\ WorkTypes /\ StreamTypes
  BY DEF IInv, TypeOK, PoolTypes, PeerTypes, FileTypes, WorkTypes, StreamTypes
<1>c. SUFFICES PoolTypes' /\ PeerTypes' /\ FileTypes' /\ WorkTypes' /\ StreamTypes'
  <2>1. (Shape /\ PoolTypes /\ PeerTypes /\ FileTypes /\ WorkTypes /\ StreamTypes => TypeOK)'
    BY TypesOf, PTL
  <2> QED
    BY <1>a, <2>1
<1>pool. UNCHANGED <<inflight, answered, state>> => PoolTypes'
  BY <1>b DEF PoolTypes
<1>peer. UNCHANGED <<conn, closed>> => PeerTypes'
  BY <1>b DEF PeerTypes
<1>file. UNCHANGED <<linked, changes, disturbed>> => FileTypes'
  BY <1>b DEF FileTypes
<1>work. UNCHANGED <<client_fd, range, offset, code>> => WorkTypes'
  BY <1>b DEF WorkTypes
<1>stream. UNCHANGED stream => StreamTypes'
  BY <1>b DEF StreamTypes
<1>1. ASSUME NEW r \in Requests, client_send(r)
      PROVE  PoolTypes' /\ PeerTypes' /\ FileTypes' /\ WorkTypes' /\ StreamTypes'
  BY <1>1, <1>pool, <1>peer, <1>file, <1>work, <1>stream DEF client_send, poolVars, fileVars
<1>2. ASSUME NEW c \in Conns, client_leave(c)
      PROVE  PoolTypes' /\ PeerTypes' /\ FileTypes' /\ WorkTypes' /\ StreamTypes'
  <2>1. PeerTypes'
    BY <1>b, <1>2 DEF client_leave, PeerTypes
  <2> QED
    BY <1>2, <2>1, <1>pool, <1>file, <1>work, <1>stream DEF client_leave, poolVars, fileVars, workVars
<1>3. ASSUME NEW c \in Conns, accept_client(c)
      PROVE  PoolTypes' /\ PeerTypes' /\ FileTypes' /\ WorkTypes' /\ StreamTypes'
  <2>1. PeerTypes'
    BY <1>b, <1>3 DEF accept_client, PeerTypes
  <2> QED
    BY <1>3, <2>1, <1>pool, <1>file, <1>work, <1>stream DEF accept_client, poolVars, fileVars, workVars
<1>4. CASE file_changes
  <2>1. FileTypes'
    <3>1. changes + 1 \in 0..MaxChanges
      BY <1>b, <1>4, ResponseAssumption DEF file_changes, FileTypes
    <3> QED
      BY <1>b, <1>4, <3>1 DEF file_changes, FileTypes, AtBusy
  <2> QED
    BY <1>4, <2>1, <1>pool, <1>peer, <1>work, <1>stream DEF file_changes, poolVars, connVars, workVars
<1>5. ASSUME NEW fd \in Fds, close_client(fd)
      PROVE  PoolTypes' /\ PeerTypes' /\ FileTypes' /\ WorkTypes' /\ StreamTypes'
  <2>1. owner[fd] \in Conns
    BY <1>5 DEF close_client, IInv, TypeOK
  <2>2. PeerTypes'
    BY <1>b, <1>5, <2>1 DEF close_client, PeerTypes
  <2> QED
    BY <1>5, <2>2, <1>pool, <1>file, <1>work, <1>stream DEF close_client, poolVars, fileVars, workVars
<1>6. ASSUME NEW fd \in Fds, deal_client_msg(fd)
      PROVE  PoolTypes' /\ PeerTypes' /\ FileTypes' /\ WorkTypes' /\ StreamTypes'
  <2>1. PICK r \in Requests : r = Head(inbox[owner[fd]])
    BY <1>6, NextRead DEF deal_client_msg
  <2>2. /\ client_fd' = [client_fd EXCEPT ![r] = fd]
        /\ UNCHANGED <<conn, closed, fileVars, range, offset, code>>
        /\ \/ Refuse(r) /\ \E err \in Codes : send_data_nonblock(r, fd, err)
           \/ Submit(r) /\ UNCHANGED <<stream, disturbed>>
    BY <1>6, <2>1 DEF deal_client_msg, msgKeeps, Codes
  <2>3. WorkTypes'
    BY <1>b, <2>2 DEF WorkTypes
  <2>4. PoolTypes'
    BY <1>b, <2>2 DEF PoolTypes, Refuse, Submit
  <2>5. StreamTypes' /\ disturbed' \subseteq Requests
    <3>1. CASE UNCHANGED <<stream, disturbed>>
      BY <3>1, <1>b, <1>stream DEF FileTypes
    <3>2. ASSUME NEW err \in Codes, send_data_nonblock(r, fd, err)
          PROVE  StreamTypes' /\ disturbed' \subseteq Requests
      <4>1. PICK what \in Whats : SentAs(r, fd, err, what)
        BY <3>2, SentAsSome DEF Whats
      <4>2. StreamTypes'
        BY <4>1, PageTyped DEF SentAs, IInv
      <4> QED
        BY <1>b, <4>1, <4>2 DEF SentAs, FileTypes
    <3> QED
      BY <2>2, <3>1, <3>2
  <2>6. FileTypes'
    BY <1>b, <2>2, <2>5 DEF FileTypes, fileVars
  <2> QED
    BY <2>2, <2>3, <2>4, <2>5, <2>6, <1>peer
<1>7. CASE take_request
  <2>1. PoolTypes'
    BY <1>b, <1>7, NextTaken DEF take_request, Take, PoolTypes
  <2> QED
    BY <1>7, <2>1, <1>peer, <1>file, <1>work, <1>stream
       DEF take_request, calmKeeps, workKeeps, connVars, fileVars
<1>8. ASSUME NEW r \in Requests, handle_request(r)
      PROVE  PoolTypes' /\ PeerTypes' /\ FileTypes' /\ WorkTypes' /\ StreamTypes'
  <2>1. UNCHANGED <<conn, closed, fileVars>>
    BY <1>8 DEF handle_request, validate_file, stat_file, send_header, open_file,
                sendfile_some, SendBytes, sendfile_none, sendfile_failed,
                sendfile_done, reply_error, calmKeeps, workKeeps, connVars
  <2>2. disturbed' \subseteq disturbed \cup {r}
    <3> HIDE DEF WriteTo
    <3> QED
      BY <1>8 DEF handle_request, validate_file, stat_file, send_header, open_file,
                  sendfile_some, SendBytes, sendfile_none, sendfile_failed,
                  sendfile_done, reply_error, calmKeeps, send_data_nonblock, Disturb
  <2>3. FileTypes'
    BY <1>b, <2>1, <2>2 DEF FileTypes, fileVars
  <2> QED
    BY <1>8, <2>1, <2>3, <1>peer, HandlerTyped
<1>9. CASE UNCHANGED vars
  BY <1>9, <1>pool, <1>peer, <1>file, <1>work, <1>stream
     DEF vars, poolVars, connVars, fileVars, workVars
<1>10. ASSUME NEW fd \in Fds, recv_past_end(fd)
       PROVE  PoolTypes' /\ PeerTypes' /\ FileTypes' /\ WorkTypes' /\ StreamTypes'
  BY <1>10, <1>pool, <1>peer, <1>file, <1>work, <1>stream
     DEF recv_past_end, poolVars, fileVars, workVars
<1>11. ASSUME NEW r \in Requests, system_refuses(r)
       PROVE  PoolTypes' /\ PeerTypes' /\ FileTypes' /\ WorkTypes' /\ StreamTypes'
  <2>1. /\ Fail(r, "500") /\ "500" \in Codes /\ disturbed' = disturbed \cup {r}
        /\ UNCHANGED <<workKeeps, conn, closed, fileVars>>
    BY <1>11 DEF system_refuses, open_refused, sendfile_refused, Disturb, Codes,
                 workKeeps, connVars
  <2>2. PoolTypes' /\ WorkTypes' /\ StreamTypes'
    BY <2>1, FailTyped DEF IInv
  <2>3. FileTypes'
    BY <1>b, <2>1 DEF FileTypes, fileVars
  <2> QED
    BY <2>1, <2>2, <2>3, <1>peer
<1> QED
  BY <1>1, <1>2, <1>3, <1>4, <1>5, <1>6, <1>7, <1>8, <1>9, <1>10, <1>11 DEF Next

-----------------------------------------------------------------------------
(* Each request is in one place.                                           *)

PlaceOf(r) ==
  /\ at[r] = "queued" <=> r \in QueuedIn(queue)
  /\ at[r] \in Busy <=> r \in inflight
  /\ at[r] = "done" <=> r \in answered

Distinct(s) == \A i, j \in 1..Len(s) : s[i] = s[j] => i = j

WaitingOn(c) ==
  /\ Distinct(inbox[c])
  /\ \A i \in 1..Len(inbox[c]) : at[inbox[c][i]] = "sent" /\ ClientOf[inbox[c][i]] = c

(* The invariant, request by request and connection by connection.         *)
LEMMA PlaceByPlace ==
  Whereabouts <=> /\ \A r \in Requests : PlaceOf(r)
                  /\ Distinct(queue)
                  /\ \A c \in Conns : WaitingOn(c)
<1> QED
  BY Zenon DEF Whereabouts, PlaceOf, Distinct, WaitingOn

(* The same of the next state.                                             *)
LEMMA PlacesNext ==
  (Whereabouts <=> /\ \A r \in Requests : PlaceOf(r)
                   /\ Distinct(queue)
                   /\ \A c \in Conns : WaitingOn(c))'
BY PlaceByPlace, PTL

(* What is not sent, queued or taken stays where it is.                    *)
LEMMA SamePlaces ==
  ASSUME Whereabouts, TypeOK,
         UNCHANGED <<queue, inflight, answered, at>>,
         \A c \in Conns : inbox'[c] \in {inbox[c], <<>>}
  PROVE  Whereabouts'
<1>1. \A r \in Requests : PlaceOf(r)'
  BY PlaceByPlace DEF PlaceOf
<1>2. Distinct(queue)'
  BY PlaceByPlace DEF Distinct
<1>3. ASSUME NEW c \in Conns PROVE WaitingOn(c)'
  <2>1. CASE inbox'[c] = <<>>
    BY <2>1 DEF WaitingOn, Distinct
  <2>2. CASE inbox'[c] = inbox[c]
    BY <2>2, PlaceByPlace DEF WaitingOn, Distinct
  <2> QED
    BY <2>1, <2>2
<1> QED
  BY <1>1, <1>2, <1>3, PlacesNext

(* A request that is not waiting on its connection moves on.               *)
LEMMA OneMoves ==
  ASSUME Whereabouts, TypeOK, NEW r \in Requests, NEW point \in Points,
         at' = [at EXCEPT ![r] = point], at[r] # "sent", UNCHANGED inbox
  PROVE  \A c \in Conns : WaitingOn(c)'
<1> SUFFICES ASSUME NEW c \in Conns PROVE WaitingOn(c)'
  OBVIOUS
<1>1. WaitingOn(c) /\ at \in [Requests -> Points] /\ inbox[c] \in Seq(Requests)
  BY PlaceByPlace DEF TypeOK
<1>2. \A i \in 1..Len(inbox[c]) : inbox[c][i] \in Requests /\ inbox[c][i] # r
  BY <1>1 DEF WaitingOn
<1> QED
  BY <1>1, <1>2 DEF WaitingOn, Distinct

(* The steps of a worker.                                                  *)
LEMMA HandlerPlaces ==
  ASSUME IInv, NEW r \in Requests, handle_request(r) \/ system_refuses(r)
  PROVE  Whereabouts'
<1> USE DEF Busy
<1>1. /\ at[r] \in Busy /\ UNCHANGED <<queue, inbox>>
  BY DEF system_refuses, open_refused, sendfile_refused, handle_request, validate_file, stat_file, send_header, open_file,
         sendfile_some, SendBytes, Sending, sendfile_none, sendfile_failed,
         sendfile_done, reply_error, calmKeeps, workKeeps, connVars, poolVars,
         Fail, Proceed, Announce, AnnounceUpTo, Terminate, Die, Finish
<1>2. \/ UNCHANGED <<at, inflight, answered>>
      \/ /\ \E point \in Busy : at' = [at EXCEPT ![r] = point]
         /\ UNCHANGED <<inflight, answered>>
      \/ at' = [at EXCEPT ![r] = "done"] /\ Finish(r)
  BY DEF system_refuses, open_refused, sendfile_refused, handle_request, validate_file, stat_file, send_header, open_file,
         sendfile_some, SendBytes, Sending, sendfile_none, sendfile_failed,
         sendfile_done, reply_error, poolVars,
         Fail, Proceed, Announce, AnnounceUpTo, Terminate, Die, Go
<1>3. Whereabouts /\ TypeOK /\ at \in [Requests -> Points]
  BY DEF IInv, TypeOK
<1>4. (\A q \in Requests : PlaceOf(q)) /\ Distinct(queue)
  BY <1>3, PlaceByPlace
<1>5. CASE UNCHANGED <<at, inflight, answered>>
  BY <1>1, <1>3, <1>5, SamePlaces
<1>6. ASSUME NEW point \in Busy \cup {"done"}, at' = [at EXCEPT ![r] = point],
             \A q \in Requests : PlaceOf(q)'
      PROVE  Whereabouts'
  <2>1. \A c \in Conns : WaitingOn(c)'
    BY <1>1, <1>3, <1>6, OneMoves DEF Points
  <2>2. Distinct(queue)'
    BY <1>1, <1>4 DEF Distinct
  <2> QED
    BY <1>6, <2>1, <2>2, PlacesNext
<1>7. CASE /\ \E point \in Busy : at' = [at EXCEPT ![r] = point]
           /\ UNCHANGED <<inflight, answered>>
  <2>1. PICK point \in Busy : at' = [at EXCEPT ![r] = point]
    BY <1>7
  <2>2. ASSUME NEW q \in Requests PROVE PlaceOf(q)'
    <3>1. PlaceOf(q)
      BY <1>4
    <3>2. at'[q] = IF q = r THEN point ELSE at[q]
      BY <1>3, <2>1
    <3>3. QueuedIn(queue)' = QueuedIn(queue) /\ inflight' = inflight /\ answered' = answered
      BY <1>1, <1>7 DEF QueuedIn
    <3> QED
      BY <1>1, <3>1, <3>2, <3>3 DEF PlaceOf
  <2> QED
    BY <1>6, <2>1, <2>2
<1>8. CASE at' = [at EXCEPT ![r] = "done"] /\ Finish(r)
  <2>1. ASSUME NEW q \in Requests PROVE PlaceOf(q)'
    <3>1. PlaceOf(q)
      BY <1>4
    <3>2. at'[q] = IF q = r THEN "done" ELSE at[q]
      BY <1>3, <1>8
    <3>3. /\ QueuedIn(queue)' = QueuedIn(queue)
          /\ inflight' = inflight \ {r} /\ answered' = answered \cup {r}
      BY <1>1, <1>8 DEF QueuedIn, Finish
    <3> QED
      BY <1>1, <3>1, <3>2, <3>3 DEF PlaceOf
  <2> QED
    BY <1>6, <1>8, <2>1
<1> QED
  BY <1>2, <1>5, <1>7, <1>8

(* A request is sent: it joins the others on its connection.               *)
LEMMA SentPlaces ==
  ASSUME IInv, NEW r \in Requests, client_send(r)
  PROVE  Whereabouts'
<1>1. /\ Whereabouts /\ at \in [Requests -> Points] /\ inbox \in [Conns -> Seq(Requests)]
      /\ ClientOf[r] \in Conns /\ at[r] = "unsent" /\ at' = [at EXCEPT ![r] = "sent"]
      /\ UNCHANGED <<queue, inflight, answered>>
      /\ inbox' = [inbox EXCEPT ![ClientOf[r]] = Append(inbox[ClientOf[r]], r)]
  BY ResponseAssumption DEF client_send, Go, IInv, TypeOK, poolVars
<1>2. ASSUME NEW q \in Requests PROVE PlaceOf(q)'
  <2>1. PlaceOf(q)
    BY <1>1, PlaceByPlace
  <2>2. at'[q] = IF q = r THEN "sent" ELSE at[q]
    BY <1>1
  <2>3. QueuedIn(queue)' = QueuedIn(queue)
    BY <1>1 DEF QueuedIn
  <2> QED
    BY <1>1, <2>1, <2>2, <2>3 DEF PlaceOf, Busy
<1>3. Distinct(queue)'
  BY <1>1, PlaceByPlace DEF Distinct
<1>4. ASSUME NEW c \in Conns PROVE WaitingOn(c)'
  <2>1. WaitingOn(c) /\ inbox[c] \in Seq(Requests)
    BY <1>1, PlaceByPlace
  <2>2. \A i \in 1..Len(inbox[c]) :
          inbox[c][i] \in Requests /\ inbox[c][i] # r /\ at'[inbox[c][i]] = "sent"
    <3>1. \A i \in 1..Len(inbox[c]) :
            inbox[c][i] \in Requests /\ at[inbox[c][i]] = "sent"
      BY <2>1 DEF WaitingOn
    <3>2. \A q \in Requests : at[q] = "sent" => q # r /\ at'[q] = "sent"
      BY <1>1
    <3> QED
      BY <3>1, <3>2
  <2>3. CASE c = ClientOf[r]
    <3> DEFINE s == inbox[c]
               t == Append(s, r)
    <3>1. inbox'[c] = t
      BY <1>1, <2>3
    <3>2. /\ Len(s) \in Nat /\ Len(t) = Len(s) + 1
          /\ \A i \in 1..Len(s) : t[i] = s[i]
          /\ t[Len(s) + 1] = r
      BY <2>1, AppendElems
    <3>3. \A i \in 1..Len(t) : i \in 1..Len(s) \/ i = Len(s) + 1
      BY <3>2
    <3> HIDE DEF s, t
    <3>4. Distinct(s)
      BY <2>1 DEF WaitingOn, s
    <3>5. \A i \in 1..Len(s) : s[i] # r /\ at'[s[i]] = "sent" /\ ClientOf[s[i]] = c
      BY <2>1, <2>2 DEF WaitingOn, s
    <3>6. Distinct(t)
      BY <3>2, <3>3, <3>4, <3>5 DEF Distinct
    <3>7. \A i \in 1..Len(t) : at'[t[i]] = "sent" /\ ClientOf[t[i]] = c
      BY <1>1, <2>3, <3>2, <3>3, <3>5
    <3> QED
      BY <3>1, <3>6, <3>7 DEF WaitingOn, Distinct
  <2>4. CASE c # ClientOf[r]
    <3>1. inbox'[c] = inbox[c]
      BY <1>1, <2>4
    <3> QED
      BY <2>1, <2>2, <3>1 DEF WaitingOn, Distinct
  <2> QED
    BY <2>3, <2>4
<1> QED
  BY <1>2, <1>3, <1>4, PlacesNext

(* The reactor reads the first request of a connection.                    *)
LEMMA ReadPlaces ==
  ASSUME IInv, NEW fd \in Fds, deal_client_msg(fd)
  PROVE  Whereabouts'
<1>1. PICK c \in Conns : c = owner[fd]
  BY ResponseAssumption DEF deal_client_msg, IInv, TypeOK
<1>2. PICK r : r = Head(inbox[c])
  OBVIOUS
<1>3. /\ Whereabouts /\ at \in [Requests -> Points] /\ inbox \in [Conns -> Seq(Requests)]
      /\ inbox[c] \in Seq(Requests) /\ inbox[c] # <<>> /\ queue \in Seq(Requests)
      /\ WaitingOn(c)
  BY <1>1, PlaceByPlace DEF deal_client_msg, IInv, TypeOK
<1>4. /\ inbox' = [inbox EXCEPT ![c] = Tail(inbox[c])] /\ inflight' = inflight
      /\ \/ Refuse(r) /\ at' = [at EXCEPT ![r] = "done"]
         \/ Submit(r) /\ at' = [at EXCEPT ![r] = "queued"]
  BY <1>1, <1>2 DEF deal_client_msg, Go, Submit, Refuse
<1> DEFINE s == inbox[c]
           t == Tail(s)
<1>5. /\ r \in Requests /\ t \in Seq(Requests) /\ Len(s) \in Nat \ {0} /\ r = s[1]
      /\ Len(t) = Len(s) - 1
      /\ \A i \in 1..Len(t) : t[i] = s[i + 1] /\ i + 1 \in 1..Len(s)
  BY <1>2, <1>3, TailElems
<1>6. /\ \A i, j \in 1..Len(s) : s[i] = s[j] => i = j
      /\ \A i \in 1..Len(s) : at[s[i]] = "sent" /\ ClientOf[s[i]] = c
  BY <1>3 DEF WaitingOn, Distinct
<1>7. at[r] = "sent" /\ ClientOf[r] = c
  BY <1>5, <1>6
<1>8. ASSUME NEW d \in Conns PROVE WaitingOn(d)'
  <2>1. CASE d = c
    <3>1. inbox'[d] = t
      BY <1>3, <1>4, <2>1
    <3> HIDE DEF s, t
    <3>2. \A i, j \in 1..Len(t) : t[i] = t[j] => i = j
      BY <1>5, <1>6
    <3>3. \A i \in 1..Len(t) : t[i] \in Requests /\ t[i] # r /\ at[t[i]] = "sent" /\ ClientOf[t[i]] = d
      BY <1>5, <1>6, <2>1
    <3>4. \A i \in 1..Len(t) : at'[t[i]] = "sent" /\ ClientOf[t[i]] = d
      BY <1>3, <1>4, <3>3
    <3> QED
      BY <3>1, <3>2, <3>4 DEF WaitingOn, Distinct
  <2>2. CASE d # c
    <3>1. inbox'[d] = inbox[d] /\ inbox[d] \in Seq(Requests) /\ WaitingOn(d)
      BY <1>3, <1>4, <2>2, PlaceByPlace
    <3>2. \A i \in 1..Len(inbox[d]) : inbox[d][i] \in Requests /\ inbox[d][i] # r
      BY <1>7, <2>2, <3>1 DEF WaitingOn
    <3>3. \A i \in 1..Len(inbox[d]) : at'[inbox[d][i]] = at[inbox[d][i]]
      BY <1>3, <1>4, <3>2
    <3> QED
      BY <3>1, <3>3 DEF WaitingOn, Distinct
  <2> QED
    BY <2>1, <2>2
<1>9. (\A q \in Requests : PlaceOf(q)) /\ Distinct(queue)
  BY <1>3, PlaceByPlace
<1>10. CASE Refuse(r) /\ at' = [at EXCEPT ![r] = "done"]
  <2>1. queue' = queue /\ answered' = answered \cup {r} /\ QueuedIn(queue)' = QueuedIn(queue)
    BY <1>10 DEF Refuse, QueuedIn
  <2>2. ASSUME NEW q \in Requests PROVE PlaceOf(q)'
    <3>1. PlaceOf(q) /\ at'[q] = IF q = r THEN "done" ELSE at[q]
      BY <1>3, <1>9, <1>10
    <3> QED
      BY <1>4, <1>7, <2>1, <3>1 DEF PlaceOf, Busy
  <2>3. Distinct(queue)'
    BY <1>9, <2>1 DEF Distinct
  <2> QED
    BY <1>8, <2>2, <2>3, PlacesNext
<1>11. CASE Submit(r) /\ at' = [at EXCEPT ![r] = "queued"]
  <2> DEFINE u == Append(queue, r)
  <2>1. queue' = u /\ answered' = answered
    BY <1>11 DEF Submit
  <2>2. /\ Len(queue) \in Nat /\ Len(u) = Len(queue) + 1
        /\ \A i \in 1..Len(queue) : u[i] = queue[i]
        /\ u[Len(queue) + 1] = r
        /\ QueuedIn(u) = QueuedIn(queue) \cup {r}
    BY <1>3, <1>5, AppendElems DEF QueuedIn
  <2>3. r \notin QueuedIn(queue)
    BY <1>5, <1>7, <1>9 DEF PlaceOf
  <2> HIDE DEF u
  <2>4. ASSUME NEW q \in Requests PROVE PlaceOf(q)'
    <3>1. PlaceOf(q) /\ at'[q] = IF q = r THEN "queued" ELSE at[q]
      BY <1>3, <1>9, <1>11
    <3>2. QueuedIn(queue)' = QueuedIn(queue) \cup {r}
      BY <2>1, <2>2 DEF QueuedIn
    <3> QED
      BY <1>4, <1>7, <2>1, <3>1, <3>2 DEF PlaceOf, Busy
  <2>5. \A i \in 1..Len(u) : i \in 1..Len(queue) \/ i = Len(queue) + 1
    BY <2>2
  <2>6. \A i \in 1..Len(queue) : queue[i] # r
    BY <2>3 DEF QueuedIn
  <2>7. Distinct(u)
    BY <1>9, <2>2, <2>5, <2>6 DEF Distinct
  <2>8. Distinct(queue)'
    BY <2>1, <2>7 DEF Distinct
  <2> QED
    BY <1>8, <2>4, <2>8, PlacesNext
<1> QED
  BY <1>4, <1>10, <1>11

(* The reactor reads past the end of a request: the next one is gone.      *)
LEMMA GluedPlaces ==
  ASSUME IInv, NEW fd \in Fds, recv_past_end(fd)
  PROVE  Whereabouts'
<1>1. PICK c \in Conns : c = owner[fd]
  BY DEF recv_past_end, IInv, TypeOK
<1> DEFINE s == inbox[c]
           t == <<Head(s)>> \o Tail(Tail(s))
<1>2. /\ Whereabouts /\ inbox \in [Conns -> Seq(Requests)] /\ s \in Seq(Requests)
      /\ Len(s) > 1 /\ WaitingOn(c)
  BY <1>1, PlaceByPlace DEF recv_past_end, IInv, TypeOK
<1>3. /\ inbox' = [inbox EXCEPT ![c] = t]
      /\ UNCHANGED <<queue, inflight, answered, at>>
  BY <1>1 DEF recv_past_end, poolVars, workVars
<1>4. /\ Len(t) = Len(s) - 1 /\ Len(s) \in Nat /\ t[1] = s[1]
      /\ \A i \in 2..Len(t) : t[i] = s[i + 1] /\ i + 1 \in 1..Len(s)
  BY <1>2, SecondSkipped
<1>5. /\ \A i, j \in 1..Len(s) : s[i] = s[j] => i = j
      /\ \A i \in 1..Len(s) : at[s[i]] = "sent" /\ ClientOf[s[i]] = c
  BY <1>2 DEF WaitingOn, Distinct
<1>6. ASSUME NEW d \in Conns PROVE WaitingOn(d)'
  <2>1. CASE d = c
    <3>1. inbox'[d] = t
      BY <1>2, <1>3, <2>1
    <3> HIDE DEF s, t
    <3>2. \A i \in 1..Len(t) : \E k \in 1..Len(s) :
            t[i] = s[k] /\ k = IF i = 1 THEN 1 ELSE i + 1
      <4> SUFFICES ASSUME NEW i \in 1..Len(t)
                   PROVE  \E k \in 1..Len(s) : t[i] = s[k] /\ k = IF i = 1 THEN 1 ELSE i + 1
        OBVIOUS
      <4>1. CASE i = 1
        BY <1>2, <1>4, <4>1
      <4>2. CASE i # 1
        BY <1>4, <4>2
      <4> QED
        BY <4>1, <4>2
    <3>3. \A i, j \in 1..Len(t) : t[i] = t[j] => i = j
      BY <1>5, <3>2
    <3>4. \A i \in 1..Len(t) : at'[t[i]] = "sent" /\ ClientOf[t[i]] = d
      BY <1>3, <1>5, <2>1, <3>2
    <3> QED
      BY <3>1, <3>3, <3>4 DEF WaitingOn, Distinct
  <2>2. CASE d # c
    <3>1. inbox'[d] = inbox[d] /\ WaitingOn(d)
      BY <1>2, <1>3, <2>2, PlaceByPlace
    <3> QED
      BY <1>3, <3>1 DEF WaitingOn, Distinct
  <2> QED
    BY <2>1, <2>2
<1>7. (\A q \in Requests : PlaceOf(q)') /\ Distinct(queue)'
  BY <1>2, <1>3, PlaceByPlace DEF PlaceOf, Distinct
<1> QED
  BY <1>6, <1>7, PlacesNext

(* A worker takes the first request of the queue.                          *)
LEMMA TakenPlaces ==
  ASSUME IInv, take_request
  PROVE  Whereabouts'
<1>1. PICK r : r = Head(queue)
  OBVIOUS
<1>2. /\ Whereabouts /\ TypeOK /\ at \in [Requests -> Points] /\ queue \in Seq(Requests)
      /\ queue # <<>> /\ queue' = Tail(queue) /\ inflight' = inflight \cup {r}
      /\ UNCHANGED <<answered, inbox>> /\ at' = [at EXCEPT ![r] = "validate"]
  BY <1>1 DEF take_request, Take, Go, IInv, TypeOK, calmKeeps, workKeeps, connVars
<1>3. (\A q \in Requests : PlaceOf(q)) /\ Distinct(queue)
  BY <1>2, PlaceByPlace
<1>4. /\ r \in Requests
      /\ \A i, j \in 1..Len(Tail(queue)) : Tail(queue)[i] = Tail(queue)[j] => i = j
      /\ QueuedIn(Tail(queue)) = QueuedIn(queue) \ {r}
      /\ r \in QueuedIn(queue)
  BY <1>1, <1>2, <1>3, TailDistinct DEF Distinct, QueuedIn
<1>5. at[r] = "queued"
  BY <1>3, <1>4 DEF PlaceOf
<1>6. ASSUME NEW q \in Requests PROVE PlaceOf(q)'
  <2>1. PlaceOf(q) /\ at'[q] = IF q = r THEN "validate" ELSE at[q]
    BY <1>2, <1>3
  <2>2. QueuedIn(queue)' = QueuedIn(queue) \ {r}
    BY <1>2, <1>4 DEF QueuedIn
  <2> QED
    BY <1>2, <1>4, <1>5, <2>1, <2>2 DEF PlaceOf, Busy
<1>7. Distinct(queue)'
  BY <1>2, <1>4 DEF Distinct
<1>8. \A c \in Conns : WaitingOn(c)'
  BY <1>2, <1>4, <1>5, OneMoves DEF Points
<1> QED
  BY <1>6, <1>7, <1>8, PlacesNext

(* Every step leaves each request in one place.                            *)
LEMMA StepWhereabouts ==
  ASSUME IInv, [Next]_vars
  PROVE  Whereabouts'
<1> USE DEF IInv
<1>1. ASSUME NEW r \in Requests, client_send(r) PROVE Whereabouts'
  BY <1>1, SentPlaces
<1>2. ASSUME NEW r \in Requests, handle_request(r) \/ system_refuses(r)
      PROVE  Whereabouts'
  BY <1>2, HandlerPlaces
<1>3. ASSUME NEW fd \in Fds, deal_client_msg(fd) PROVE Whereabouts'
  BY <1>3, ReadPlaces
<1>4. CASE take_request
  BY <1>4, TakenPlaces
<1>5. ASSUME NEW c \in Conns, client_leave(c) \/ accept_client(c) PROVE Whereabouts'
  BY <1>5, SamePlaces DEF client_leave, accept_client, poolVars, workVars
<1>6. CASE file_changes \/ UNCHANGED vars
  BY <1>6, SamePlaces DEF file_changes, vars, poolVars, workVars, connVars
<1>7. ASSUME NEW fd \in Fds, close_client(fd) PROVE Whereabouts'
  <2>1. UNCHANGED <<queue, inflight, answered, at>>
    BY <1>7 DEF close_client, poolVars, workVars
  <2>2. \A c \in Conns : inbox'[c] \in {inbox[c], <<>>}
    BY <1>7 DEF close_client, TypeOK
  <2> QED
    BY <2>1, <2>2, SamePlaces
<1>8. ASSUME NEW fd \in Fds, recv_past_end(fd) PROVE Whereabouts'
  BY <1>8, GluedPlaces
<1> QED
  BY <1>1, <1>2, <1>3, <1>4, <1>5, <1>6, <1>7, <1>8 DEF Next

-----------------------------------------------------------------------------
(* Descriptors and connections.                                            *)

(* Which points a step leaves the requests at, as far as the invariants on *)
(* descriptors are concerned: a request that moves was sent on a           *)
(* connection, and one that a worker has was queued.                       *)
Underway(r) ==
  /\ at'[r] # at[r] => at[r] # "unsent" \/ conn[ClientOf[r]] = "open"
  /\ at'[r] \in Busy \cup {"queued"} => at[r] \in Busy \cup {"queued"}

(* Steps that only move requests.                                          *)
LEMMA SameHomes ==
  ASSUME Homes, UNCHANGED <<conn, closed, owner>>, \A r \in Requests : Underway(r)
  PROVE  Homes'
<1>1. ASSUME NEW r \in Requests, conn[ClientOf[r]] = "new" PROVE at'[r] = "unsent"
  BY <1>1 DEF Homes, Underway
<1> QED
  BY <1>1 DEF Homes

(* They keep descriptors, too.                                             *)
LEMMA SameRemembered ==
  ASSUME Remembered, UNCHANGED <<closed, owner, client_fd>>,
         \A r \in Requests : Underway(r)
  PROVE  Remembered'
BY DEF Remembered, Underway

(* A worker moves its request from one point of the handler to another.    *)
LEMMA HandlerUnderway ==
  ASSUME IInv, NEW r \in Requests, handle_request(r) \/ system_refuses(r)
  PROVE  /\ UNCHANGED <<conn, closed, owner, client_fd>>
         /\ \A q \in Requests : Underway(q)
<1>1. /\ at[r] \in Busy /\ UNCHANGED <<conn, closed, owner, client_fd>>
  BY DEF system_refuses, open_refused, sendfile_refused, handle_request, validate_file, stat_file, send_header, open_file,
         sendfile_some, SendBytes, Sending, sendfile_none, sendfile_failed,
         sendfile_done, reply_error, calmKeeps, workKeeps, connVars, Busy
<1>2. \/ UNCHANGED at
      \/ \E point \in Points : at' = [at EXCEPT ![r] = point]
  BY DEF system_refuses, open_refused, sendfile_refused, handle_request, validate_file, stat_file, send_header, open_file,
         sendfile_some, SendBytes, sendfile_none, sendfile_failed,
         sendfile_done, reply_error,
         Fail, Proceed, Announce, AnnounceUpTo, Terminate, Go, Points
<1>3. at \in [Requests -> Points]
  BY DEF IInv, TypeOK
<1>4. \A q \in Requests : q # r => at'[q] = at[q]
  BY <1>2, <1>3
<1>5. ASSUME NEW q \in Requests PROVE Underway(q)
  <2>1. CASE q = r
    BY <1>1, <2>1 DEF Underway, Busy
  <2>2. CASE q # r
    BY <1>4, <2>2 DEF Underway
  <2> QED
    BY <2>1, <2>2
<1> QED
  BY <1>1, <1>5

(* Every step keeps each open connection at its descriptor.                *)
LEMMA StepHomes ==
  ASSUME IInv, [Next]_vars
  PROVE  Homes'
<1>a. /\ Homes /\ at \in [Requests -> Points] /\ owner \in [Fds -> Conns \cup {None}]
      /\ conn \in [Conns -> {"new", "open", "gone"}] /\ closed \subseteq Conns
      /\ None \notin Conns
  BY ResponseAssumption DEF IInv, TypeOK
<1>b. \A r \in Requests : ClientOf[r] \in Conns
  BY ResponseAssumption
<1>1. ASSUME NEW r \in Requests, client_send(r) PROVE Homes'
  <2>1. /\ UNCHANGED <<conn, closed, owner>> /\ at' = [at EXCEPT ![r] = "sent"]
        /\ conn[ClientOf[r]] = "open"
    BY <1>1 DEF client_send, Go
  <2>2. \A q \in Requests : conn[ClientOf[q]] = "new" => q # r
    BY <2>1
  <2>3. \A q \in Requests : conn[ClientOf[q]] = "new" => at'[q] = "unsent"
    BY <1>a, <2>1, <2>2 DEF Homes
  <2> QED
    BY <1>a, <2>1, <2>3 DEF Homes
<1>2. ASSUME NEW r \in Requests, handle_request(r) \/ system_refuses(r) PROVE Homes'
  BY <1>a, <1>2, HandlerUnderway, SameHomes
<1>3. ASSUME NEW fd \in Fds, deal_client_msg(fd) PROVE Homes'
  <2>1. PICK r : r = Head(inbox[owner[fd]])
    OBVIOUS
  <2>2. /\ r \in Requests /\ at[r] = "sent"
        /\ UNCHANGED <<conn, closed, owner>>
        /\ \E point : at' = [at EXCEPT ![r] = point]
    BY <1>3, <2>1, NextRead DEF deal_client_msg, msgKeeps, Go
  <2>3. \A q \in Requests : at[q] = "unsent" => at'[q] = "unsent"
    BY <1>a, <2>2
  <2> QED
    BY <1>a, <2>2, <2>3 DEF Homes
<1>4. CASE take_request
  <2>1. PICK r : r = Head(queue)
    OBVIOUS
  <2>2. /\ r \in Requests /\ at[r] = "queued"
        /\ UNCHANGED <<conn, closed, owner>>
        /\ at' = [at EXCEPT ![r] = "validate"]
    BY <1>4, <2>1, NextTaken DEF take_request, Take, Go, calmKeeps, workKeeps, connVars
  <2>3. \A q \in Requests : at[q] = "unsent" => at'[q] = "unsent"
    BY <1>a, <2>2
  <2> QED
    BY <1>a, <2>2, <2>3 DEF Homes
<1>5. ASSUME NEW c \in Conns, client_leave(c) PROVE Homes'
  <2>1. /\ UNCHANGED <<closed, owner, at>> /\ conn[c] = "open"
        /\ conn' = [conn EXCEPT ![c] = "gone"]
    BY <1>5 DEF client_leave, workVars
  <2>2. \A d \in Conns : conn'[d] = IF d = c THEN "gone" ELSE conn[d]
    BY <1>a, <2>1
  <2> QED
    BY <1>a, <1>b, <2>1, <2>2 DEF Homes
<1>6. ASSUME NEW c \in Conns, accept_client(c) PROVE Homes'
  <2>1. PICK fd \in Fds : owner[fd] = None /\ owner' = [owner EXCEPT ![fd] = c]
    BY <1>6 DEF accept_client, LowestFree
  <2>2. /\ UNCHANGED <<closed, at>> /\ conn[c] = "new"
        /\ conn' = [conn EXCEPT ![c] = "open"]
    BY <1>6 DEF accept_client, workVars
  <2>3. \A d \in Conns : conn'[d] = IF d = c THEN "open" ELSE conn[d]
    BY <1>a, <2>2
  <2>4. \A g \in Fds : owner'[g] = IF g = fd THEN c ELSE owner[g]
    BY <1>a, <2>1
  <2>5. c \notin closed /\ \A g \in Fds : owner[g] # c
    BY <1>a, <2>2 DEF Homes
  <2>6. \A g, h \in Fds : owner'[g] = owner'[h] /\ owner'[g] # None => g = h
    BY <1>a, <2>4, <2>5 DEF Homes
  <2>7. \A g \in Fds : owner'[g] # None => conn'[owner'[g]] # "new" /\ owner'[g] \notin closed'
    BY <1>a, <2>2, <2>3, <2>4, <2>5 DEF Homes
  <2>8. \A d \in Conns : conn'[d] = "open" => \E g \in Fds : owner'[g] = d
    <3> SUFFICES ASSUME NEW d \in Conns, conn'[d] = "open"
                 PROVE  \E g \in Fds : owner'[g] = d
      OBVIOUS
    <3>1. CASE d = c
      BY <2>4, <3>1
    <3>2. CASE d # c
      <4>1. PICK g \in Fds : owner[g] = d
        BY <1>a, <2>3, <3>2 DEF Homes
      <4> QED
        BY <1>a, <2>1, <2>4, <4>1
    <3> QED
      BY <3>1, <3>2
  <2>9. /\ \A d \in closed' : conn'[d] = "gone"
        /\ \A r \in Requests : conn'[ClientOf[r]] = "new" => at'[r] = "unsent"
    BY <1>a, <1>b, <2>2, <2>3, <2>5 DEF Homes
  <2> QED
    BY <2>6, <2>7, <2>8, <2>9 DEF Homes
<1>7. ASSUME NEW fd \in Fds, close_client(fd) PROVE Homes'
  <2>1. PICK c \in Conns : c = owner[fd]
    BY <1>7, <1>a DEF close_client
  <2>2. /\ conn[c] = "gone" /\ closed' = closed \cup {c}
        /\ owner' = [owner EXCEPT ![fd] = None] /\ UNCHANGED <<conn, at>>
    BY <1>7, <2>1 DEF close_client, workVars
  <2>3. \A g \in Fds : owner'[g] = IF g = fd THEN None ELSE owner[g]
    BY <1>a, <2>2
  <2>4. \A g \in Fds : owner[g] = c => g = fd
    BY <1>a, <2>1 DEF Homes
  <2>5. \A g, h \in Fds : owner'[g] = owner'[h] /\ owner'[g] # None => g = h
    BY <1>a, <2>3 DEF Homes
  <2>6. \A g \in Fds : owner'[g] # None => conn'[owner'[g]] # "new" /\ owner'[g] \notin closed'
    BY <1>a, <2>2, <2>3, <2>4 DEF Homes
  <2>7. \A d \in Conns : conn'[d] = "open" => \E g \in Fds : owner'[g] = d
    BY <1>a, <2>1, <2>2, <2>3 DEF Homes
  <2>8. /\ \A d \in closed' : conn'[d] = "gone"
        /\ \A r \in Requests : conn'[ClientOf[r]] = "new" => at'[r] = "unsent"
    BY <1>a, <2>2 DEF Homes
  <2> QED
    BY <2>5, <2>6, <2>7, <2>8 DEF Homes
<1>8. CASE file_changes \/ UNCHANGED vars
  BY <1>a, <1>8 DEF file_changes, vars, connVars, workVars, Homes
<1>9. ASSUME NEW fd \in Fds, recv_past_end(fd) PROVE Homes'
  BY <1>a, <1>9 DEF recv_past_end, workVars, Homes
<1> QED
  BY <1>1, <1>2, <1>3, <1>4, <1>5, <1>6, <1>7, <1>8, <1>9 DEF Next

(* Every step keeps a request at its client's descriptor until the client  *)
(* is closed.                                                              *)
LEMMA StepRemembered ==
  ASSUME IInv, [Next]_vars
  PROVE  Remembered'
<1>a. /\ Remembered /\ at \in [Requests -> Points] /\ owner \in [Fds -> Conns \cup {None}]
      /\ client_fd \in [Requests -> Fds \cup {None}] /\ None \notin Conns
  BY ResponseAssumption DEF IInv, TypeOK
<1>b. \A r \in Requests : ClientOf[r] \in Conns
  BY ResponseAssumption
<1>1. ASSUME NEW r \in Requests, client_send(r) PROVE Remembered'
  <2>1. /\ UNCHANGED <<closed, owner, client_fd>> /\ at' = [at EXCEPT ![r] = "sent"]
    BY <1>1 DEF client_send, Go
  <2>2. \A q \in Requests : at'[q] \in Busy \cup {"queued"} => at[q] \in Busy \cup {"queued"}
    BY <1>a, <2>1 DEF Busy
  <2> QED
    BY <1>a, <2>1, <2>2 DEF Remembered
<1>2. ASSUME NEW r \in Requests, handle_request(r) \/ system_refuses(r) PROVE Remembered'
  BY <1>a, <1>2, HandlerUnderway, SameRemembered
<1>3. ASSUME NEW fd \in Fds, deal_client_msg(fd) PROVE Remembered'
  <2>1. PICK r : r = Head(inbox[owner[fd]])
    OBVIOUS
  <2>2. /\ r \in Requests /\ ClientOf[r] = owner[fd]
        /\ UNCHANGED <<closed, owner>> /\ client_fd' = [client_fd EXCEPT ![r] = fd]
        /\ \E point : at' = [at EXCEPT ![r] = point]
    BY <1>3, <2>1, NextRead DEF deal_client_msg, msgKeeps, Go
  <2>3. \A q \in Requests : q # r => at'[q] = at[q] /\ client_fd'[q] = client_fd[q]
    BY <1>a, <2>2
  <2>4. client_fd'[r] = fd
    BY <1>a, <2>2
  <2> QED
    BY <1>a, <2>2, <2>3, <2>4 DEF Remembered
<1>4. CASE take_request
  <2>1. PICK r : r = Head(queue)
    OBVIOUS
  <2>2. /\ r \in Requests /\ at[r] = "queued"
        /\ UNCHANGED <<closed, owner, client_fd>>
        /\ at' = [at EXCEPT ![r] = "validate"]
    BY <1>4, <2>1, NextTaken DEF take_request, Take, Go, calmKeeps, workKeeps, connVars
  <2>3. \A q \in Requests : at'[q] \in Busy \cup {"queued"} => at[q] \in Busy \cup {"queued"}
    BY <1>a, <2>2
  <2> QED
    BY <1>a, <2>2, <2>3 DEF Remembered
<1>5. ASSUME NEW c \in Conns, accept_client(c) PROVE Remembered'
  <2>1. PICK fd \in Fds : owner[fd] = None /\ owner' = [owner EXCEPT ![fd] = c]
    BY <1>5 DEF accept_client, LowestFree
  <2>2. UNCHANGED <<closed, at, client_fd>>
    BY <1>5 DEF accept_client, workVars
  <2>3. \A g \in Fds : g # fd => owner'[g] = owner[g]
    BY <1>a, <2>1
  <2> QED
    BY <1>a, <1>b, <2>1, <2>2, <2>3 DEF Remembered
<1>6. ASSUME NEW fd \in Fds, close_client(fd) PROVE Remembered'
  <2>1. PICK c \in Conns : c = owner[fd]
    BY <1>6, <1>a DEF close_client
  <2>2. /\ closed' = closed \cup {c} /\ owner' = [owner EXCEPT ![fd] = None]
        /\ UNCHANGED <<client_fd, at>>
    BY <1>6, <2>1 DEF close_client, workVars
  <2>3. \A g \in Fds : g # fd => owner'[g] = owner[g]
    BY <1>a, <2>2
  <2> QED
    BY <1>a, <2>1, <2>2, <2>3 DEF Remembered
<1>7. CASE \/ file_changes \/ UNCHANGED vars
           \/ \E c \in Conns : client_leave(c)
  BY <1>a, <1>7 DEF client_leave, file_changes, vars, connVars, workVars, Remembered
<1>8. ASSUME NEW fd \in Fds, recv_past_end(fd) PROVE Remembered'
  BY <1>a, <1>8 DEF recv_past_end, workVars, Remembered
<1> QED
  BY <1>1, <1>2, <1>3, <1>4, <1>5, <1>6, <1>7, <1>8 DEF Next

-----------------------------------------------------------------------------
(* The inductive invariant.                                                *)

(* The invariants of the responses, request by request, in the next state. *)
LEMMA SafetyNext ==
  (NothingEarly /\ OnlyOwnAnswers /\ BytesOnce /\ Steady /\ SteadyComplete
     <=> \A r \in Requests : Sound(r))'
BY SafetyPerRequest, PTL

(* It holds at first                                                       *)
LEMMA InitIInv == Init => IInv
<1> SUFFICES ASSUME Init PROVE IInv
  OBVIOUS
<1>a. \A S : <<>> \in Seq(S)
  OBVIOUS
<1>b. /\ \A r \in Requests : /\ at[r] = "unsent" /\ offset[r] = 0
                             /\ range[r] = [start |-> 0, end |-> -1]
      /\ \A c \in Conns : stream[c] = <<>> /\ inbox[c] = <<>> /\ conn[c] = "new"
      /\ \A fd \in Fds : owner[fd] = None
  BY DEF Init
<1>1. Shape
  BY InitShape
<1>2. TypeOK
  <2>1. MaxSize \in Nat /\ OffMax \in Nat
    BY ResponseAssumption, OffAssumption
  <2>2. /\ range \in [Requests -> [start : 0..MaxSize, end : -1..(MaxSize - 1)]]
        /\ offset \in [Requests -> 0..MaxSize]
    BY <2>1 DEF Init
  <2> QED
    BY <1>a, <2>1, <2>2, ResponseAssumption DEF Init, PoolInit, TypeOK, Points
<1>3. Whereabouts
  <2>1. queue = <<>> /\ inflight = {} /\ answered = {} /\ Len(queue) = 0
    BY DEF Init, PoolInit
  <2> QED
    BY <1>b, <2>1 DEF Whereabouts, QueuedIn, Busy
<1>4. Homes
  BY <1>b, ResponseAssumption DEF Init, Homes
<1>5. Remembered
  BY <1>b DEF Remembered, Busy
<1>6. ASSUME NEW r \in Requests PROVE Sound(r)
  <2>1. \A c \in Conns : On(r, c) = {}
    BY <1>b DEF On
  <2>2. EarlyOf(r)
    BY <1>b, <2>1 DEF EarlyOf
  <2>3. OwnOf(r)
    BY <2>1 DEF OwnOf
  <2>4. OnceOf(r)
    BY <1>b, <2>1 DEF OnceOf
  <2>5. SteadyOf(r)
    BY <1>b DEF SteadyOf
  <2> QED
    BY <2>2, <2>3, <2>4, <2>5 DEF Sound
<1> QED
  BY <1>1, <1>2, <1>3, <1>4, <1>5, <1>6, SafetyPerRequest DEF IInv

(* and every step keeps it.                                                *)
LEMMA StepIInv == IInv /\ [Next]_vars => IInv'
<1> SUFFICES ASSUME IInv, [Next]_vars PROVE IInv'
  OBVIOUS
<1>1. Shape'
  BY StepShape DEF IInv
<1>2. TypeOK' /\ Whereabouts' /\ Homes' /\ Remembered'
  BY StepTypeOK, StepWhereabouts, StepHomes, StepRemembered
<1>3. \A r \in Requests : Sound(r)'
  BY StepSound
<1> QED
  BY <1>1, <1>2, <1>3, SafetyNext DEF IInv

(* Every reachable state satisfies the inductive invariant.                *)
THEOREM Invariance == Spec => []IInv
<1> QED
  BY InitIInv, StepIInv, PTL DEF Spec

(* Type correctness: among others, a range lies within the greatest file,  *)
(* and the offset within it, whatever Range lines a client sends.          *)
THEOREM ResponseTypes == Spec => []TypeOK
<1>1. IInv => TypeOK
  BY DEF IInv
<1> QED
  BY <1>1, Invariance, PTL

(* A response, or a part of one, is written to another connection than its *)
(* client's only if the reactor closed that client's, for every number of  *)
(* connections, descriptors and workers (http_server.cpp:178-183, 218-222  *)
(* against tcp_server.cpp:203-208).                                        *)
THEOREM AnswersGoHome == Spec => []OnlyOwnAnswers
<1>1. IInv => OnlyOwnAnswers
  BY DEF IInv
<1> QED
  BY <1>1, Invariance, PTL

(* Of the bytes announced those up to the offset are sent, each once and   *)
(* in order, into how many pieces sendfile cuts them, whatever becomes of  *)
(* the file and of the connection meanwhile (tcp_public.cpp:213-246).      *)
THEOREM EachByteOnce == Spec => []BytesOnce
<1>1. IInv => BytesOnce
  BY DEF IInv
<1> QED
  BY <1>1, Invariance, PTL

(* A client that stays gets, of a file that does not change meanwhile, and *)
(* as long as the system refuses nothing and the header is sent whole, an  *)
(* error page alone or a header and all the bytes that it announces        *)
(* (http_server.cpp:141-190, 199-229).                                     *)
THEOREM SteadyResponsesComplete == Spec => []SteadyComplete
<1>1. IInv => SteadyComplete
  BY DEF IInv
<1> QED
  BY <1>1, Invariance, PTL

=============================================================================
