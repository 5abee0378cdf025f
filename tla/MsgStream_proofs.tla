--------------------------- MODULE MsgStream_proofs ---------------------------
(***************************************************************************)
(* The default protocol's byte stream: that what is received is what was   *)
(* typed, for every number of byte values, capacity of the stream, retry   *)
(* limit, and number and lengths of texts.                                 *)
(***************************************************************************)
EXTENDS MsgStream, QueueLemmas, FiniteSetTheorems

-----------------------------------------------------------------------------
(* Two bytes and the number that they stand for.                           *)

(* Quotient and rest.                                                      *)
LEMMA Division ==
  ASSUME NEW x \in Nat, NEW d \in Nat \ {0}
  PROVE  /\ x \div d \in Nat /\ x % d \in 0..(d - 1)
         /\ x = (x \div d) * d + (x % d)
<1>1. x % d = x - d * (x \div d)
  BY Z3
<1>2. x \div d \in Nat /\ x % d \in 0..(d - 1)
  OBVIOUS
<1> QED
  BY <1>1, <1>2

(* A remainder is no more than what is divided.                            *)
LEMMA RestBound ==
  ASSUME NEW x \in Nat, NEW d \in Nat \ {0}
  PROVE  /\ x % d <= x
         /\ x < d => x % d = x
<1> DEFINE q == x \div d
           r == x % d
<1>1. q \in Nat /\ r \in 0..(d - 1) /\ x = q * d + r
  BY Division
<1> HIDE DEF q, r
<1>2. q * d >= 0
  BY <1>1
<1>3. x < d => q = 0
  <2> SUFFICES ASSUME x < d, q # 0 PROVE FALSE
    OBVIOUS
  <2>1. q >= 1
    BY <1>1
  <2>2. q * d >= d
    BY <1>1, <2>1
  <2> QED
    BY <1>1, <2>2
<1>4. r <= x /\ (x < d => r = x)
  BY <1>1, <1>2, <1>3
<1> QED
  BY <1>4 DEF r

(* The numbers that two bytes can hold.                                    *)
LEMMA Words ==
  /\ Base \in Nat /\ Base > 3
  /\ WordSize \in Nat /\ WordSize >= 16 /\ WordSize > Base
<1>1. Base \in Nat /\ Base > 3
  BY StreamAssumption
<1>2. Base * Base \in Nat /\ Base * Base >= 4 * Base
  BY <1>1
<1> QED
  BY <1>1, <1>2 DEF WordSize

(* A word is written as two bytes, and read back as what it was.           *)
LEMMA WordBytes ==
  ASSUME NEW w \in 0..(WordSize - 1)
  PROVE  /\ w \div Base \in Byte /\ w % Base \in Byte
         /\ MsgSize(<<w \div Base, w % Base>>) = w
<1> DEFINE q == w \div Base
           r == w % Base
<1>1. Base \in Nat /\ Base > 3 /\ WordSize = Base * Base /\ w \in Nat /\ w < WordSize
  BY Words DEF WordSize
<1>2. q \in Nat /\ r \in 0..(Base - 1) /\ w = q * Base + r
  <2>1. w \in Nat /\ Base \in Nat \ {0}
    BY <1>1
  <2> QED
    BY <2>1, Division, Zenon
<1> HIDE DEF q, r
<1>3. q < Base
  <2> SUFFICES ASSUME q >= Base PROVE FALSE
    BY <1>1, <1>2
  <2>1. q * Base >= Base * Base
    BY <1>1, <1>2
  <2> QED
    BY <1>1, <1>2, <2>1
<1>4. MsgSize(<<q, r>>) = w
  BY <1>2 DEF MsgSize
<1> QED
  BY <1>1, <1>2, <1>3, <1>4 DEF Byte, q, r

(* The two bytes of a header.                                              *)
LEMMA TwoBytes ==
  ASSUME NEW hdr \in Seq(Byte), Len(hdr) = SIZE_OFFSET
  PROVE  hdr[1] \in Byte /\ hdr[2] \in Byte
<1>1. Len(hdr) = 2 /\ hdr \in [1..2 -> Byte]
  BY DEF SIZE_OFFSET
<1> QED
  BY <1>1

(* Two bytes are never more than a word.                                   *)
LEMMA BytesWord ==
  ASSUME NEW hdr \in Seq(Byte), Len(hdr) = SIZE_OFFSET
  PROVE  MsgSize(hdr) \in 0..(WordSize - 1)
<1>1. /\ Base \in Nat /\ Base > 3 /\ WordSize = Base * Base
      /\ hdr[1] \in 0..(Base - 1) /\ hdr[2] \in 0..(Base - 1)
  BY TwoBytes, Words DEF WordSize, Byte
<1> DEFINE x == hdr[1]
           y == hdr[2]
<1> HIDE DEF x, y
<1>2. x \in 0..(Base - 1) /\ y \in 0..(Base - 1)
  BY <1>1 DEF x, y
<1>3. x * Base <= (Base - 1) * Base /\ x * Base \in Nat
  BY <1>1, <1>2
<1>4. (Base - 1) * Base = Base * Base - Base
  BY <1>1
<1>5. x * Base + y \in 0..(WordSize - 1)
  BY <1>1, <1>2, <1>3, <1>4
<1> QED
  BY <1>5 DEF MsgSize, x, y

-----------------------------------------------------------------------------
(* Frames.                                                                 *)

(* A frame is two bytes of length and the text.                            *)
LEMMA FrameShape ==
  ASSUME NEW text \in Seq(Byte)
  PROVE  LET frame == construct_message(text)
         IN  /\ frame \in Seq(Byte)
             /\ Len(text) \in Nat
             /\ Len(frame) = Len(text) + SIZE_OFFSET
             /\ \A j \in 1..Len(text) : frame[j + SIZE_OFFSET] = text[j]
             /\ Fits(text) => MsgSize(frame) = Len(text) + SIZE_OFFSET
<1> DEFINE w == (Len(text) + SIZE_OFFSET) % WordSize
           hdr == <<w \div Base, w % Base>>
<1>1. Len(text) \in Nat /\ WordSize \in Nat \ {0} /\ Base \in Nat \ {0}
  BY Words
<1>2. w \in 0..(WordSize - 1) /\ (Fits(text) => w = Len(text) + SIZE_OFFSET)
  BY <1>1, Division, RestBound DEF Fits, SIZE_OFFSET
<1>3. w \div Base \in Byte /\ w % Base \in Byte /\ MsgSize(hdr) = w
  BY <1>2, WordBytes
<1> HIDE DEF w
<1>4. hdr \in Seq(Byte) /\ Len(hdr) = 2
  BY <1>3
<1> HIDE DEF hdr
<1>5. /\ hdr \o text \in Seq(Byte) /\ Len(hdr \o text) = 2 + Len(text)
      /\ \A i \in 1..(2 + Len(text)) :
           (hdr \o text)[i] = IF i <= 2 THEN hdr[i] ELSE text[i - 2]
  <2>1. /\ hdr \o text \in Seq(Byte)
        /\ Len(hdr \o text) = Len(hdr) + Len(text)
        /\ \A i \in 1..(Len(hdr) + Len(text)) :
             (hdr \o text)[i] = IF i <= Len(hdr) THEN hdr[i] ELSE text[i - Len(hdr)]
    BY <1>4, ConcatProperties, Zenon
  <2> QED
    BY <1>4, <2>1
<1>6. MsgSize(hdr \o text) = MsgSize(hdr)
  BY <1>1, <1>5 DEF MsgSize
<1>7. construct_message(text) = hdr \o text
  BY DEF construct_message, hdr, w
<1>8. \A j \in 1..Len(text) : (hdr \o text)[j + 2] = text[j]
  BY <1>1, <1>5
<1> QED
  BY <1>1, <1>2, <1>3, <1>5, <1>6, <1>7, <1>8 DEF SIZE_OFFSET

-----------------------------------------------------------------------------
(* Buffers.                                                                *)

(* The first part of what may be no sequence but has elements that far.    *)
LEMMA Slice ==
  ASSUME NEW S, NEW s, NEW n \in Nat, \A i \in 1..n : s[i] \in S
  PROVE  /\ SubSeq(s, 1, n) \in Seq(S)
         /\ Len(SubSeq(s, 1, n)) = n
         /\ \A i \in 1..n : SubSeq(s, 1, n)[i] = s[i]
<1>1. SubSeq(s, 1, n) \in Seq(S)
  BY SubSeqProperties
<1>2. Len(SubSeq(s, 1, n)) = n
  BY SubSeqProperties
<1>3. \A i \in 1..n : SubSeq(s, 1, n)[i] = s[i]
  BY SubSeqProperties
<1> QED
  BY <1>1, <1>2, <1>3

(* Concatenation, under a name that the provers leave as it is.            *)
Cat(s, t) == s \o t

(* One sequence behind another.                                            *)
LEMMA Join ==
  ASSUME NEW s \in Seq(Byte), NEW t \in Seq(Byte)
  PROVE  /\ Cat(s, t) \in Seq(Byte) /\ Len(Cat(s, t)) = Len(s) + Len(t)
         /\ \A i \in 1..Len(s) : Cat(s, t)[i] = s[i]
         /\ \A i \in 1..Len(t) : Cat(s, t)[Len(s) + i] = t[i]
BY DEF Cat

(* An empty buffer adds nothing.                                           *)
LEMMA EmptyBuffer ==
  ASSUME NEW s \in Seq(Byte)
  PROVE  Cat(<<>>, s) = s /\ Cat(s, <<>>) = s
BY ConcatEmptySeq DEF Cat

(* Brackets make no difference.                                            *)
LEMMA CatAssoc ==
  /\ \A s, t \in Seq(Byte) : Cat(s, t) \in Seq(Byte)
  /\ \A s, t, u \in Seq(Byte) : Cat(Cat(s, t), u) = Cat(s, Cat(t, u))
<1>1. ASSUME NEW s \in Seq(Byte), NEW t \in Seq(Byte) PROVE Cat(s, t) \in Seq(Byte)
  BY DEF Cat
<1>2. ASSUME NEW s \in Seq(Byte), NEW t \in Seq(Byte), NEW u \in Seq(Byte)
      PROVE  Cat(Cat(s, t), u) = Cat(s, Cat(t, u))
  BY DEF Cat
<1> QED
  BY <1>1, <1>2

(* A sequence of bytes is cut in two: what was moved and the rest.         *)
LEMMA CutInTwo ==
  ASSUME NEW s \in Seq(Byte), NEW k \in 0..Len(s)
  PROVE  LET head == SubSeq(s, 1, k)
             rest == SubSeq(s, k + 1, Len(s))
         IN  /\ head \in Seq(Byte) /\ Len(head) = k
             /\ \A i \in 1..k : head[i] = s[i]
             /\ rest \in Seq(Byte) /\ Len(rest) = Len(s) - k
             /\ \A i \in 1..(Len(s) - k) : rest[i] = s[k + i]
             /\ head \o rest = s
<1>1. LET head == SubSeq(s, 1, k)
      IN  head \in Seq(Byte) /\ Len(head) = k /\ \A i \in 1..k : head[i] = s[i]
  OBVIOUS
<1>2. LET rest == SubSeq(s, k + 1, Len(s))
      IN  /\ rest \in Seq(Byte) /\ Len(rest) = Len(s) - k
          /\ \A i \in 1..(Len(s) - k) : rest[i] = s[k + i]
  OBVIOUS
<1>3. SubSeq(s, 1, k) \o SubSeq(s, k + 1, Len(s)) = s
  <2>1. 1 \in 1..(Len(s) + 1) /\ k \in (1 - 1)..Len(s) /\ Len(s) \in k..Len(s)
    OBVIOUS
  <2>2. SubSeq(s, 1, k) \o SubSeq(s, k + 1, Len(s)) = SubSeq(s, 1, Len(s))
    BY <2>1, ConcatAdjacentSubSeq, Zenon
  <2> QED
    BY <2>2, SubSeqFull
<1> QED
  BY <1>1, <1>2, <1>3

(* What buf holds, byte for byte and as a sequence.                        *)
LEMMA BufferBytes ==
  ASSUME NEW hdr \in Seq(Byte), Len(hdr) = SIZE_OFFSET, NEW bytes \in Seq(Byte),
         NEW size \in 0..BUFFER_SIZE
  PROVE  LET buf == Buffer(hdr, bytes)
         IN  /\ \A i \in 1..size :
                  /\ buf[i] \in Byte
                  /\ i <= Len(bytes) => buf[i] = bytes[i]
                  /\ i > Len(bytes) => buf[i] = IF i <= SIZE_OFFSET THEN hdr[i] ELSE 0
             /\ SubSeq(buf, 1, size) \in Seq(Byte)
             /\ Len(SubSeq(buf, 1, size)) = size
             /\ \A i \in 1..size : SubSeq(buf, 1, size)[i] = buf[i]
<1> DEFINE buf == Buffer(hdr, bytes)
<1>1. /\ Len(hdr) = 2 /\ \A i \in 1..2 : hdr[i] \in Byte
      /\ Len(bytes) \in Nat /\ \A i \in 1..Len(bytes) : bytes[i] \in Byte
      /\ 0 \in Byte /\ size \in Nat /\ size <= BUFFER_SIZE /\ BUFFER_SIZE \in Nat
  <2>1. Len(hdr) = 2 /\ hdr \in [1..Len(hdr) -> Byte]
    <3>1. hdr \in [1..Len(hdr) -> Byte]
      OBVIOUS
    <3> QED
      BY <3>1 DEF SIZE_OFFSET
  <2>2. Len(bytes) \in Nat /\ bytes \in [1..Len(bytes) -> Byte]
    OBVIOUS
  <2>3. 0 \in Byte /\ BUFFER_SIZE \in Nat
    BY Words DEF Byte, BUFFER_SIZE
  <2> QED
    BY <2>1, <2>2, <2>3
<1>2. \A i \in 1..size :
        buf[i] = IF i <= Len(bytes) THEN bytes[i] ELSE IF i <= 2 THEN hdr[i] ELSE 0
  BY <1>1 DEF Buffer, SIZE_OFFSET
<1> HIDE DEF buf
<1>3. \A i \in 1..size : buf[i] \in Byte
  BY <1>1, <1>2
<1>4. /\ SubSeq(buf, 1, size) \in Seq(Byte)
      /\ Len(SubSeq(buf, 1, size)) = size
      /\ \A i \in 1..size : SubSeq(buf, 1, size)[i] = buf[i]
  BY <1>1, <1>3, Slice
<1> QED
  BY <1>1, <1>2, <1>3, <1>4 DEF buf, SIZE_OFFSET

(* A C string goes up to the first zero, or to the end.                    *)
LEMMA StringStops ==
  ASSUME NEW buf, NEW size \in Nat, \A i \in 1..size : buf[i] \in Byte
  PROVE  /\ StringUpTo(buf, size) \in Seq(Byte)
         /\ \A k \in 1..size :
              buf[k] = 0 /\ (\A i \in 1..(k - 1) : buf[i] # 0)
                => StringUpTo(buf, size) = SubSeq(buf, 1, k - 1)
<1> DEFINE ends == {i \in 1..size : buf[i] = 0}
           first == CHOOSE i \in ends : \A j \in ends : i <= j
<1>1. \A k \in 0..size : SubSeq(buf, 1, k) \in Seq(Byte)
  <2> SUFFICES ASSUME NEW k \in 0..size PROVE SubSeq(buf, 1, k) \in Seq(Byte)
    OBVIOUS
  <2>1. 1 \in Int /\ k \in Int /\ \A i \in 1..k : buf[i] \in Byte
    OBVIOUS
  <2> QED
    BY <2>1, SubSeqProperties, Zenon
<1>2. StringUpTo(buf, size) = IF ends = {} THEN SubSeq(buf, 1, size) ELSE SubSeq(buf, 1, first - 1)
  BY DEF StringUpTo
<1>3. ends # {} => first \in ends /\ \A j \in ends : first <= j
  <2> SUFFICES ASSUME ends # {} PROVE first \in ends /\ \A j \in ends : first <= j
    OBVIOUS
  <2>1. ends \in SUBSET (1..size)
    OBVIOUS
  <2> HIDE DEF ends
  <2>2. \E i \in ends : \A j \in ends : i <= j
    BY <2>1, LeastExists
  <2> QED
    BY <2>2
<1>4. StringUpTo(buf, size) \in Seq(Byte)
  <2>1. ends # {} => first \in 1..size
    BY <1>3
  <2> HIDE DEF ends, first
  <2>2. ends # {} => first - 1 \in 0..size
    BY <2>1
  <2> QED
    BY <1>1, <1>2, <2>2
<1>5. ASSUME NEW k \in 1..size, buf[k] = 0, \A i \in 1..(k - 1) : buf[i] # 0
      PROVE  StringUpTo(buf, size) = SubSeq(buf, 1, k - 1)
  <2>1. k \in ends /\ \A i \in ends : i \in 1..size /\ i >= k
    BY <1>5
  <2>2. first = k
    <3> HIDE DEF ends
    <3>1. first \in ends /\ first <= k
      BY <1>3, <2>1
    <3> HIDE DEF first
    <3> QED
      BY <2>1, <3>1
  <2> HIDE DEF ends, first
  <2> QED
    BY <1>2, <2>1, <2>2
<1> QED
  BY <1>4, <1>5

-----------------------------------------------------------------------------
(* Types.                                                                  *)

(* What the invariants say of either side by itself.                       *)
SendTypes ==
  /\ client \in {"start", "idle", "send", "closed", "failed"}
  /\ sender \in {"nonblock", "epoll"}
  /\ out \in Seq(Byte)
  /\ tries \in 0..MAX_RETRY_TIMES
  /\ client = "send" => tries < MAX_RETRY_TIMES
  /\ client \in {"start", "idle"} => out = <<>>

RecvTypes ==
  /\ server \in {"idle", "header", "body", "gone"}
  /\ header \in Seq(Byte) /\ Len(header) = SIZE_OFFSET
  /\ got \in Seq(Byte)
  /\ want \in 0..(WordSize - 1)
  /\ waits \in 0..MAX_RETRY_TIMES
  /\ received \in Seq(Seq(Byte))
  /\ logged \in Seq(Seq(Byte))
  /\ server = "idle" => got = <<>>
  /\ server = "header" => want > 0 /\ Len(got) + want = SIZE_OFFSET
  /\ server = "body" => Len(got) + want = MsgSize(header) - SIZE_OFFSET
  /\ Len(logged) = Len(received)

TypedTypes ==
  /\ typed \in Seq(Seq(Byte))
  /\ \A i \in 1..Len(typed) : \A j \in 1..Len(typed[i]) : typed[i][j] # 0

WireTypes ==
  /\ wire \in Seq(Byte) /\ Len(wire) <= Capacity
  /\ cut \in BOOLEAN

(* Together they are the two invariants.                                   *)
LEMMA TypesOf ==
  TypeOK /\ Buffers <=> SendTypes /\ RecvTypes /\ TypedTypes /\ WireTypes
BY DEF TypeOK, Buffers, SendTypes, RecvTypes, TypedTypes, WireTypes

(* And so they are in the next state.                                      *)
LEMMA TypesNext ==
  (TypeOK /\ Buffers <=> SendTypes /\ RecvTypes /\ TypedTypes /\ WireTypes)'
BY TypesOf, PTL

(* What a side leaves alone stays as it is.                                *)
LEMMA SendKept == SendTypes /\ UNCHANGED sendVars => SendTypes'
BY DEF SendTypes, sendVars

(* The same of the server.                                                *)
LEMMA RecvKept == RecvTypes /\ UNCHANGED <<recvVars, logVars>> => RecvTypes'
BY DEF RecvTypes, recvVars, logVars

(* And of the texts.                                                       *)
LEMMA TypedKept == TypedTypes /\ UNCHANGED typed => TypedTypes'
BY DEF TypedTypes

(* A recv_data_nonblock returns.                                           *)
LEMMA ReturnTypes ==
  ASSUME RecvTypes, NEW bytes \in Seq(Byte), recv_returns(bytes)
  PROVE  RecvTypes'
<1> DEFINE buf == Buffer(header, bytes)
<1>a. /\ header \in Seq(Byte) /\ Len(header) = SIZE_OFFSET
      /\ received \in Seq(Seq(Byte)) /\ logged \in Seq(Seq(Byte))
      /\ Len(logged) = Len(received)
  BY DEF RecvTypes
<1>b. 0 \in 0..MAX_RETRY_TIMES /\ <<>> \in Seq(Byte)
  BY StreamAssumption
<1>1. CASE server = "header"
  <2>1. /\ header' = SubSeq(buf, 1, SIZE_OFFSET) /\ got' = <<>> /\ waits' = 0
        /\ IF MsgSize(header') < SIZE_OFFSET
           THEN server' = "idle" /\ want' = 0
           ELSE server' = "body" /\ want' = MsgSize(header') - SIZE_OFFSET
        /\ UNCHANGED <<received, logged>>
    BY <1>1 DEF recv_returns, logVars
  <2>2. SIZE_OFFSET \in 0..BUFFER_SIZE
    BY Words DEF SIZE_OFFSET, BUFFER_SIZE
  <2>3. header' \in Seq(Byte) /\ Len(header') = SIZE_OFFSET
    BY <1>a, <2>1, <2>2, BufferBytes
  <2>4. MsgSize(header') \in 0..(WordSize - 1) /\ WordSize \in Nat /\ WordSize >= 16
    BY <2>3, BytesWord, Words
  <2>5. want' \in 0..(WordSize - 1) /\ server' \in {"idle", "body"}
    BY <2>1, <2>4 DEF SIZE_OFFSET
  <2>6. server' = "body" => Len(got') + want' = MsgSize(header') - SIZE_OFFSET
    BY <2>1, <2>4 DEF SIZE_OFFSET
  <2> QED
    BY <1>a, <1>b, <2>1, <2>3, <2>5, <2>6 DEF RecvTypes
<1>2. CASE server = "body"
  <2> DEFINE size == MsgSize(header)
             body == SubSeq(buf, 1, size - SIZE_OFFSET)
             text == CString(buf, size)
  <2>1. /\ server' = "idle" /\ got' = <<>> /\ want' = 0 /\ waits' = 0
        /\ received' = Append(received, body) /\ logged' = Append(logged, text)
        /\ header' = header
    BY <1>2 DEF recv_returns
  <2>2. size \in 0..(WordSize - 1) /\ WordSize \in Nat /\ WordSize >= 16
    BY <1>a, BytesWord, Words
  <2>3. size - SIZE_OFFSET \in 0..BUFFER_SIZE /\ size \in 0..BUFFER_SIZE /\ size \in Nat
    <3>1. Len(got) + want = size - SIZE_OFFSET /\ Len(got) \in Nat /\ want \in Nat
      BY <1>2 DEF RecvTypes
    <3> QED
      BY <2>2, <3>1 DEF SIZE_OFFSET, BUFFER_SIZE
  <2> HIDE DEF size
  <2>4. body \in Seq(Byte)
    BY <1>a, <2>3, BufferBytes
  <2>5. \A i \in 1..size : buf[i] \in Byte
    BY <1>a, <2>3, BufferBytes
  <2>6. text \in Seq(Byte)
    <3> HIDE DEF buf
    <3> QED
      BY <2>3, <2>5, StringStops DEF CString
  <2> HIDE DEF body, text
  <2>7. /\ received' \in Seq(Seq(Byte)) /\ logged' \in Seq(Seq(Byte))
        /\ Len(logged') = Len(received')
    BY <1>a, <2>1, <2>4, <2>6, AppendElems
  <2>8. 0 \in 0..(WordSize - 1)
    BY <2>2
  <2> QED
    BY <1>a, <1>b, <2>1, <2>7, <2>8 DEF RecvTypes
<1> QED
  BY <1>1, <1>2 DEF recv_returns

(* What one recv takes off the stream, what it leaves, and what the call   *)
(* has with it.                                                            *)
Taken == IF Len(wire) < want THEN Len(wire) ELSE want
TakenBytes == SubSeq(wire, 1, Taken)
LeftBytes == SubSeq(wire, Taken + 1, Len(wire))
Bytes == got \o TakenBytes

(* It cuts the stream in two.                                              *)
LEMMA RecvTakes ==
  ASSUME RecvTypes, WireTypes
  PROVE  /\ Taken \in 0..Len(wire) /\ Taken <= want
         /\ TakenBytes \in Seq(Byte) /\ LeftBytes \in Seq(Byte)
         /\ Len(LeftBytes) = Len(wire) - Taken
         /\ Cat(TakenBytes, LeftBytes) = wire
         /\ Bytes = Cat(got, TakenBytes)
         /\ Bytes \in Seq(Byte) /\ Len(Bytes) = Len(got) + Taken
<1>1. /\ wire \in Seq(Byte) /\ Len(wire) \in Nat /\ want \in Nat
      /\ got \in Seq(Byte)
  BY Words DEF RecvTypes, WireTypes
<1>2. Taken \in 0..Len(wire) /\ Taken <= want
  BY <1>1 DEF Taken
<1>3. /\ TakenBytes \in Seq(Byte) /\ Len(TakenBytes) = Taken
      /\ LeftBytes \in Seq(Byte) /\ Len(LeftBytes) = Len(wire) - Taken
      /\ TakenBytes \o LeftBytes = wire
  BY <1>1, <1>2, CutInTwo DEF TakenBytes, LeftBytes
<1>4. Bytes = Cat(got, TakenBytes) /\ Cat(TakenBytes, LeftBytes) = wire
  BY <1>3 DEF Bytes, Cat
<1>5. Bytes \in Seq(Byte) /\ Len(Bytes) = Len(got) + Taken
  BY <1>1, <1>3, <1>4, Join
<1> QED
  BY <1>2, <1>3, <1>4, <1>5

(* Some bytes are received, the last ones that were wanted or fewer.       *)
LEMMA RecvSomeStep ==
  recv_some =>
    /\ server \in {"header", "body"} /\ want > 0
    /\ wire' = LeftBytes
    /\ UNCHANGED <<sendVars, typed, cut>>
    /\ \/ /\ Taken < want
          /\ got' = Bytes /\ want' = want - Taken /\ waits' = 0
          /\ UNCHANGED <<server, header, logVars>>
       \/ ~(Taken < want) /\ recv_returns(Bytes)
BY DEF recv_some, Taken, TakenBytes, LeftBytes, Bytes

(* So it is between types.                                                 *)
LEMMA RecvSomeTypes ==
  ASSUME RecvTypes, WireTypes, recv_some
  PROVE  RecvTypes' /\ WireTypes'
<1>1. WireTypes'
  <2>1. /\ wire' = LeftBytes /\ Taken \in 0..Len(wire)
        /\ LeftBytes \in Seq(Byte) /\ Len(LeftBytes) = Len(wire) - Taken
    BY RecvTakes, RecvSomeStep
  <2>2. Len(wire) \in Nat /\ Len(wire') \in Nat /\ Capacity \in Nat
    BY <2>1, StreamAssumption DEF WireTypes
  <2>3. wire' \in Seq(Byte) /\ Len(wire') <= Len(wire) /\ cut' = cut
    BY <2>1, <2>2, RecvSomeStep
  <2> QED
    BY <2>2, <2>3 DEF WireTypes
<1>2. CASE recv_returns(Bytes)
  BY <1>1, <1>2, RecvTakes, ReturnTypes
<1>3. CASE /\ Taken < want
           /\ got' = Bytes /\ want' = want - Taken /\ waits' = 0
           /\ UNCHANGED <<server, header, logVars>>
  <2>a. Bytes \in Seq(Byte) /\ Len(Bytes) = Len(got) + Taken /\ Taken \in 0..Len(wire)
    BY RecvTakes
  <2>b. Len(got) \in Nat /\ Len(wire) \in Nat /\ want \in 0..(WordSize - 1)
    BY DEF RecvTypes, WireTypes
  <2>1. 0 \in 0..MAX_RETRY_TIMES /\ WordSize \in Nat
    BY StreamAssumption, Words
  <2>2. want' \in 0..(WordSize - 1) /\ want' > 0 /\ Len(got') + want' = Len(got) + want
    BY <1>3, <2>a, <2>b, <2>1
  <2>3. server' = server /\ header' = header /\ received' = received /\ logged' = logged
    BY <1>3 DEF logVars
  <2>4. server # "idle"
    BY RecvSomeStep
  <2>5. RecvTypes'
    BY <1>3, <2>a, <2>1, <2>2, <2>3, <2>4 DEF RecvTypes
  <2> QED
    BY <1>1, <2>5
<1> QED
  BY <1>1, <1>2, <1>3, RecvSomeStep

(* The user's text is framed.                                              *)
LEMMA TextTyped ==
  ASSUME NEW length \in Nat, typed \in Seq(Seq(Byte))
  PROVE  LET text == Text(length, 1 + (Len(typed) % (Base - 1)))
         IN  /\ text \in Seq(Byte) /\ Len(text) = length
             /\ \A j \in 1..Len(text) : text[j] # 0
<1> DEFINE value == 1 + (Len(typed) % (Base - 1))
<1>1. Len(typed) \in Nat /\ Base - 1 \in Nat \ {0} /\ Base \in Nat
  BY Words
<1>2. Len(typed) % (Base - 1) \in 0..((Base - 1) - 1)
  BY <1>1, Division, Zenon
<1>3. value \in Byte /\ value # 0
  BY <1>1, <1>2 DEF Byte
<1> HIDE DEF value
<1>4. Text(length, value) \in Seq(Byte) /\ Len(Text(length, value)) = length
  BY <1>3 DEF Text
<1>5. \A j \in 1..length : Text(length, value)[j] = value
  BY DEF Text
<1> QED
  BY <1>3, <1>4, <1>5 DEF value

(* What send_message does, with the parts of it named.                     *)
LEMMA SendMessageStep ==
  ASSUME TypedTypes, NEW length \in BodyLengths, send_message(length)
  PROVE  /\ client = "idle" /\ client' = "send" /\ tries' = 0 /\ sender' \in Senders
         /\ UNCHANGED <<wire, recvVars, logVars, cut>>
         /\ \E text \in Seq(Byte) :
              /\ \A j \in 1..Len(text) : text[j] # 0
              /\ typed' = Append(typed, text)
              /\ out' \in Seq(Byte)
              /\ Fits(text) => out' = construct_message(text)
<1> DEFINE text == Text(length, 1 + (Len(typed) % (Base - 1)))
           packet == construct_message(text)
           size == Len(packet) % WordSize
<1>1. /\ client = "idle" /\ client' = "send" /\ tries' = 0 /\ sender' \in Senders
      /\ UNCHANGED <<wire, recvVars, logVars, cut>>
      /\ typed' = Append(typed, text) /\ out' = SubSeq(packet, 1, size)
  BY DEF send_message
<1>2. length \in Nat /\ typed \in Seq(Seq(Byte)) /\ WordSize \in Nat \ {0}
  BY StreamAssumption, Words DEF TypedTypes
<1>3. text \in Seq(Byte) /\ \A j \in 1..Len(text) : text[j] # 0
  BY <1>2, TextTyped
<1> HIDE DEF text
<1>4. packet \in Seq(Byte) /\ Len(text) \in Nat /\ Len(packet) = Len(text) + SIZE_OFFSET
  BY <1>3, FrameShape
<1> HIDE DEF packet
<1>5. Len(packet) \in Nat /\ size \in Nat /\ size <= Len(packet)
  <2>1. Len(packet) \in Nat
    BY <1>4
  <2>2. Len(packet) % WordSize \in 0..(WordSize - 1)
    BY <1>2, <2>1, Division, Zenon
  <2>3. Len(packet) % WordSize <= Len(packet)
    BY <1>2, <2>1, RestBound, Zenon
  <2> QED
    BY <2>1, <2>2, <2>3
<1>6. Fits(text) => size = Len(packet)
  <2>1. Fits(text) => Len(packet) < WordSize
    BY <1>4 DEF Fits
  <2> QED
    BY <1>2, <1>5, <2>1, RestBound
<1> HIDE DEF size
<1>7. out' \in Seq(Byte)
  BY <1>1, <1>4, <1>5, CutInTwo
<1>8. Fits(text) => out' = packet
  BY <1>1, <1>4, <1>6, SubSeqFull
<1> QED
  BY <1>1, <1>3, <1>7, <1>8 DEF packet

(* Every step of either side keeps the types and what Buffers says.        *)
LEMMA StepTypes ==
  ASSUME TypeOK, Buffers, [Next]_vars
  PROVE  TypeOK' /\ Buffers'
<1>a. SendTypes /\ RecvTypes /\ TypedTypes /\ WireTypes
  BY TypesOf
<1>b. UNCHANGED <<wire, cut>> => WireTypes'
  BY <1>a DEF WireTypes
<1>c. <<>> \in Seq(Byte) /\ Len(<<>>) = 0 /\ Capacity \in Nat
  BY StreamAssumption
<1> SUFFICES SendTypes' /\ RecvTypes' /\ TypedTypes' /\ WireTypes'
  BY TypesNext
<1>1. ASSUME NEW length \in BodyLengths, send_message(length)
      PROVE  SendTypes' /\ RecvTypes' /\ TypedTypes' /\ WireTypes'
  <2>1. /\ client' = "send" /\ tries' = 0 /\ sender' \in Senders
        /\ UNCHANGED <<wire, recvVars, logVars, cut>>
    BY <1>a, <1>1, SendMessageStep
  <2>2. PICK text \in Seq(Byte) :
          /\ \A j \in 1..Len(text) : text[j] # 0
          /\ typed' = Append(typed, text)
          /\ out' \in Seq(Byte)
    BY <1>a, <1>1, SendMessageStep
  <2>3. SendTypes'
    BY <2>1, <2>2, StreamAssumption DEF SendTypes
  <2>4. TypedTypes'
    <3>1. /\ typed' \in Seq(Seq(Byte)) /\ Len(typed') = Len(typed) + 1
          /\ \A i \in 1..Len(typed) : typed'[i] = typed[i]
          /\ typed'[Len(typed) + 1] = text /\ Len(typed) \in Nat
      BY <1>a, <2>2, AppendElems DEF TypedTypes
    <3>2. ASSUME NEW i \in 1..Len(typed') PROVE \A j \in 1..Len(typed'[i]) : typed'[i][j] # 0
      <4>1. CASE i \in 1..Len(typed)
        BY <1>a, <3>1, <4>1 DEF TypedTypes
      <4>2. CASE i = Len(typed) + 1
        BY <2>2, <3>1, <4>2
      <4> QED
        BY <3>1, <4>1, <4>2
    <3> QED
      BY <3>1, <3>2 DEF TypedTypes
  <2> QED
    BY <1>a, <1>b, <2>1, <2>3, <2>4, RecvKept
<1>2. CASE connect \/ client_close \/ client_exit
  <2>1. SendTypes'
    BY <1>a, <1>2 DEF connect, client_close, client_exit, SendTypes
  <2> QED
    BY <1>a, <1>b, <1>2, <2>1, RecvKept, TypedKept DEF connect, client_close, client_exit
<1>3. CASE send_some
  <2>1. PICK k \in 1..Len(out) :
          /\ Len(wire) + k <= Capacity
          /\ wire' = IF server = "gone" THEN <<>> ELSE wire \o SubSeq(out, 1, k)
          /\ out' = SubSeq(out, k + 1, Len(out))
          /\ client' = IF k = Len(out) THEN "idle" ELSE "send"
    BY <1>3 DEF send_some
  <2>2. tries' = 0 /\ UNCHANGED <<sender, recvVars, logVars, typed, cut>>
    BY <1>3 DEF send_some
  <2>3. /\ SubSeq(out, 1, k) \in Seq(Byte) /\ Len(SubSeq(out, 1, k)) = k
        /\ out' \in Seq(Byte) /\ Len(out') = Len(out) - k
    <3>1. out \in Seq(Byte) /\ k \in 0..Len(out)
      BY <1>a DEF SendTypes
    <3> QED
      BY <2>1, <3>1, CutInTwo
  <2>4. client' = "idle" => out' = <<>>
    <3>1. k = Len(out) /\ Len(out) \in Nat => Len(out') = 0
      BY <2>3
    <3> QED
      BY <1>a, <2>1, <2>3, <3>1, EmptySeq DEF SendTypes
  <2>5. SendTypes'
    BY <1>a, <2>1, <2>2, <2>3, <2>4, StreamAssumption DEF SendTypes
  <2>6. WireTypes'
    <3>1. wire \in Seq(Byte) /\ Len(wire) \in Nat
      BY <1>a DEF WireTypes
    <3>2. wire \o SubSeq(out, 1, k) \in Seq(Byte) /\ Len(wire \o SubSeq(out, 1, k)) = Len(wire) + k
      BY <2>3, <3>1
    <3>3. wire' \in Seq(Byte) /\ Len(wire') <= Capacity
      BY <1>c, <2>1, <3>2
    <3> QED
      BY <1>a, <2>2, <3>3 DEF WireTypes
  <2> QED
    BY <1>a, <2>2, <2>5, <2>6, RecvKept, TypedKept
<1>4. CASE send_failed
  <2>1. SendTypes' /\ WireTypes'
    BY <1>a, <1>c, <1>4 DEF send_failed, SendTypes, WireTypes
  <2> QED
    BY <1>a, <1>4, <2>1, RecvKept, TypedKept DEF send_failed
<1>5. CASE send_retry
  <2>1. SendTypes'
    <3>1. tries' \in 0..MAX_RETRY_TIMES
      BY <1>a, <1>5, StreamAssumption DEF send_retry, SendTypes
    <3>2. /\ \/ client' = "idle" /\ out' = <<>>
             \/ UNCHANGED <<client, out>> /\ tries' < MAX_RETRY_TIMES
          /\ client = "send" /\ sender' = sender
      BY <1>5 DEF send_retry
    <3> QED
      BY <1>a, <1>c, <3>1, <3>2 DEF SendTypes
  <2>2. WireTypes'
    BY <1>a, <1>5 DEF send_retry, WireTypes
  <2> QED
    BY <1>a, <1>5, <2>1, <2>2, RecvKept, TypedKept DEF send_retry
<1>6. CASE hangup \/ server_exit
  <2>a. /\ server' = "gone" /\ wire' = <<>>
        /\ UNCHANGED <<header, got, want, waits, received, logged, cut>>
    BY <1>6 DEF hangup, server_exit, logVars
  <2>b. RecvTypes'
    BY <1>a, <2>a DEF RecvTypes
  <2>c. WireTypes'
    BY <1>a, <1>c, <2>a DEF WireTypes
  <2>1. RecvTypes' /\ WireTypes'
    BY <2>b, <2>c
  <2> QED
    BY <1>a, <1>6, <2>1, SendKept, TypedKept DEF hangup, server_exit
<1>7. CASE deal_client_msg
  <2>1. RecvTypes'
    <3>1. /\ server' = "header" /\ header' = <<0, 0>> /\ got' = <<>> /\ want' = 2
          /\ waits' = 0 /\ UNCHANGED logVars
      BY <1>7 DEF deal_client_msg, SIZE_OFFSET
    <3>2. 0 \in Byte /\ 2 \in 0..(WordSize - 1) /\ 0 \in 0..MAX_RETRY_TIMES
      BY Words, StreamAssumption DEF Byte
    <3>3. <<0, 0>> \in Seq(Byte) /\ Len(<<0, 0>>) = 2
      BY <3>2
    <3> QED
      BY <1>a, <1>c, <3>1, <3>2, <3>3 DEF RecvTypes, SIZE_OFFSET, logVars
  <2> QED
    BY <1>a, <1>b, <1>7, <2>1, SendKept, TypedKept DEF deal_client_msg
<1>8. CASE recv_some
  BY <1>a, <1>8, RecvSomeStep, RecvSomeTypes, SendKept, TypedKept
<1>9. CASE recv_none
  <2>1. recv_returns(got) /\ UNCHANGED <<sendVars, wire, typed>> /\ cut' \in BOOLEAN
    BY <1>a, <1>9 DEF recv_none, WireTypes
  <2>2. RecvTypes'
    BY <1>a, <2>1, ReturnTypes DEF RecvTypes
  <2>3. WireTypes'
    BY <1>a, <2>1 DEF WireTypes
  <2> QED
    BY <1>a, <2>1, <2>2, <2>3, SendKept, TypedKept
<1>10. CASE recv_retry
  <2>1. UNCHANGED <<sendVars, wire, typed>> /\ cut' \in BOOLEAN
    BY <1>a, <1>10 DEF recv_retry, WireTypes
  <2>2. RecvTypes'
    <3>1. CASE recv_returns(got)
      BY <1>a, <3>1, ReturnTypes DEF RecvTypes
    <3>2. CASE /\ waits + 1 < MAX_RETRY_TIMES /\ waits' = waits + 1
               /\ UNCHANGED <<server, header, got, want, logVars>>
      <4>1. waits' \in 0..MAX_RETRY_TIMES
        BY <1>a, <3>2, StreamAssumption DEF RecvTypes
      <4> QED
        BY <1>a, <3>2, <4>1 DEF RecvTypes, logVars
    <3> QED
      BY <1>10, <3>1, <3>2 DEF recv_retry
  <2>3. WireTypes'
    BY <1>a, <2>1 DEF WireTypes
  <2> QED
    BY <1>a, <2>1, <2>2, <2>3, SendKept, TypedKept
<1>11. CASE UNCHANGED vars
  BY <1>a, <1>b, <1>11, SendKept, RecvKept, TypedKept DEF vars
<1> QED
  BY <1>1, <1>2, <1>3, <1>4, <1>5, <1>6, <1>7, <1>8, <1>9, <1>10, <1>11
     DEF Next, send_data_nonblock, send_data_epoll, recv_data_nonblock

-----------------------------------------------------------------------------
(* Where frames end.                                                       *)

EndOf(texts, n) == Cardinality(FramesUpTo(texts, n))

(* One more frame adds its own places to those before it.                  *)
LEMMA OneMoreFrame ==
  ASSUME NEW texts \in Seq(Seq(Byte)), NEW n \in 1..Len(texts),
         IsFiniteSet(FramesUpTo(texts, n - 1))
  PROVE  /\ IsFiniteSet(FramesUpTo(texts, n))
         /\ EndOf(texts, n) = EndOf(texts, n - 1) + Len(texts[n]) + SIZE_OFFSET
<1> DEFINE size == Len(texts[n]) + SIZE_OFFSET
           before == FramesUpTo(texts, n - 1)
           frame == {n} \X (1..size)
<1>1. size \in Nat
  <2>1. texts[n] \in Seq(Byte)
    OBVIOUS
  <2> QED
    BY <2>1 DEF SIZE_OFFSET
<1>2. FramesUpTo(texts, n) = before \cup frame
  <2>1. 1..n = 1..(n - 1) \cup {n}
    OBVIOUS
  <2> QED
    BY <2>1 DEF FramesUpTo
<1>3. before \cap frame = {}
  <2>1. \A p \in before : p[1] \in 1..(n - 1)
    BY DEF FramesUpTo
  <2>2. \A p \in frame : p[1] = n
    OBVIOUS
  <2> HIDE DEF before, frame
  <2> QED
    BY <2>1, <2>2
<1> HIDE DEF size
<1>4. IsFiniteSet(frame) /\ Cardinality(frame) = size
  <2>1. IsFiniteSet(1..size) /\ Cardinality(1..size) = size
    <3>1. 1 \in Int /\ size \in Int
      BY <1>1
    <3>2. /\ IsFiniteSet(1..size)
          /\ Cardinality(1..size) = IF 1 > size THEN 0 ELSE size - 1 + 1
      BY <3>1, FS_Interval, Zenon
    <3> QED
      BY <1>1, <3>2
  <2>2. IsFiniteSet({n}) /\ Cardinality({n}) = 1
    BY FS_Singleton
  <2>3. /\ IsFiniteSet({n} \X (1..size))
        /\ Cardinality({n} \X (1..size)) = Cardinality({n}) * Cardinality(1..size)
    BY <2>1, <2>2, FS_Product
  <2> QED
    BY <1>1, <2>1, <2>2, <2>3
<1> HIDE DEF before, frame
<1>5. /\ IsFiniteSet(before \cup frame)
      /\ Cardinality(before \cup frame) = Cardinality(before) + Cardinality(frame)
  <2>1. IsFiniteSet(before)
    BY DEF before
  <2>2. Cardinality(before) \in Nat
    BY <2>1, FS_CardinalityType
  <2>3. /\ IsFiniteSet(before \cup frame)
        /\ Cardinality(before \cup frame)
             = Cardinality(before) + Cardinality(frame) - Cardinality(before \cap frame)
    BY <1>4, <2>1, FS_Union
  <2>4. Cardinality(before \cap frame) = 0
    BY <1>3, FS_EmptySet
  <2> QED
    BY <1>1, <1>4, <2>2, <2>3, <2>4
<1>6. Cardinality(before) \in Nat
  BY FS_CardinalityType DEF before
<1> QED
  BY <1>1, <1>2, <1>4, <1>5, <1>6 DEF EndOf, before, size, SIZE_OFFSET

(* So there are finitely many, by the first that would not be.             *)
LEMMA FramesFinite ==
  ASSUME NEW texts \in Seq(Seq(Byte))
  PROVE  \A n \in 0..Len(texts) : IsFiniteSet(FramesUpTo(texts, n))
<1> DEFINE Bad == {n \in 1..Len(texts) : ~IsFiniteSet(FramesUpTo(texts, n))}
<1>1. Len(texts) \in Nat
  OBVIOUS
<1>2. IsFiniteSet(FramesUpTo(texts, 0))
  <2>1. FramesUpTo(texts, 0) = {}
    BY DEF FramesUpTo
  <2> QED
    BY <2>1, FS_EmptySet
<1>3. Bad = {}
  <2> SUFFICES ASSUME Bad # {} PROVE FALSE
    OBVIOUS
  <2>1. Bad \in SUBSET (1..Len(texts))
    OBVIOUS
  <2>2. PICK n \in Bad : \A m \in Bad : n <= m
    <3> HIDE DEF Bad
    <3> QED
      BY <1>1, <2>1, LeastExists
  <2>3. n \in 1..Len(texts) /\ n - 1 \notin Bad
    BY <1>1, <2>2
  <2>4. IsFiniteSet(FramesUpTo(texts, n - 1))
    <3>1. CASE n = 1
      BY <1>2, <3>1
    <3>2. CASE n # 1
      BY <1>1, <2>3, <3>2
    <3> QED
      BY <3>1, <3>2
  <2>5. IsFiniteSet(FramesUpTo(texts, n))
    BY <2>3, <2>4, OneMoreFrame
  <2> QED
    BY <2>2, <2>5
<1>4. ASSUME NEW n \in 0..Len(texts) PROVE IsFiniteSet(FramesUpTo(texts, n))
  BY <1>1, <1>2, <1>3
<1> QED
  BY <1>4

(* The ends are numbers, each behind the one before by one frame.          *)
LEMMA Ends ==
  ASSUME NEW texts \in Seq(Seq(Byte))
  PROVE  /\ \A n \in 0..Len(texts) : EndOf(texts, n) \in Nat
         /\ \A n \in 1..Len(texts) :
              EndOf(texts, n) = EndOf(texts, n - 1) + Len(texts[n]) + SIZE_OFFSET
         /\ \A n \in 0..Len(texts) : \A m \in 0..n : EndOf(texts, m) <= EndOf(texts, n)
<1>1. \A n \in 0..Len(texts) : IsFiniteSet(FramesUpTo(texts, n)) /\ EndOf(texts, n) \in Nat
  BY FramesFinite, FS_CardinalityType DEF EndOf
<1>2. ASSUME NEW n \in 1..Len(texts)
      PROVE  EndOf(texts, n) = EndOf(texts, n - 1) + Len(texts[n]) + SIZE_OFFSET
  <2>1. n - 1 \in 0..Len(texts)
    OBVIOUS
  <2> QED
    BY <1>1, <2>1, OneMoreFrame
<1>3. ASSUME NEW n \in 0..Len(texts), NEW m \in 0..n
      PROVE  EndOf(texts, m) <= EndOf(texts, n)
  <2>1. FramesUpTo(texts, m) \in SUBSET FramesUpTo(texts, n)
    BY DEF FramesUpTo
  <2> QED
    BY <1>1, <2>1, FS_Subset DEF EndOf
<1> QED
  BY <1>1, <1>2, <1>3

(* Only the texts up to there matter.                                      *)
LEMMA SameEnds ==
  ASSUME NEW texts, NEW others, NEW n, \A i \in 1..n : texts[i] = others[i]
  PROVE  EndOf(texts, n) = EndOf(others, n)
<1>1. FramesUpTo(texts, n) = FramesUpTo(others, n)
  BY DEF FramesUpTo
<1> QED
  BY <1>1 DEF EndOf

-----------------------------------------------------------------------------
(* The bytes on their way.                                                 *)

(* Sequence p is the frames of the texts behind the n-th.                  *)
FramesOf(p, texts, n) ==
  /\ Len(p) = EndOf(texts, Len(texts)) - EndOf(texts, n)
  /\ \A i \in (n + 1)..Len(texts) : \A j \in 1..(Len(texts[i]) + SIZE_OFFSET) :
       p[EndOf(texts, i - 1) - EndOf(texts, n) + j] = construct_message(texts[i])[j]

(* Where the j-th byte of the i-th frame is in p.                          *)
LEMMA BytePlace ==
  ASSUME NEW p \in Seq(Byte), NEW texts \in Seq(Seq(Byte)), NEW n \in 0..Len(texts),
         FramesOf(p, texts, n), NEW i \in (n + 1)..Len(texts),
         NEW j \in 1..(Len(texts[i]) + SIZE_OFFSET)
  PROVE  EndOf(texts, i - 1) - EndOf(texts, n) + j \in 1..Len(p)
<1>1. /\ i \in 1..Len(texts) /\ i - 1 \in 0..Len(texts) /\ n \in 0..(i - 1)
      /\ i \in 0..Len(texts) /\ i \in 0..Len(texts) /\ Len(texts) \in 0..Len(texts)
      /\ i \in 0..Len(texts)
  OBVIOUS
<1>2. EndOf(texts, i) = EndOf(texts, i - 1) + Len(texts[i]) + SIZE_OFFSET
  BY <1>1, Ends
<1>3. EndOf(texts, n) <= EndOf(texts, i - 1) /\ EndOf(texts, i) <= EndOf(texts, Len(texts))
  BY <1>1, Ends
<1>4. /\ EndOf(texts, n) \in Nat /\ EndOf(texts, i - 1) \in Nat /\ EndOf(texts, i) \in Nat
      /\ EndOf(texts, Len(texts)) \in Nat
  BY <1>1, Ends
<1>5. Len(texts[i]) \in Nat /\ SIZE_OFFSET = 2
  <2>1. texts[i] \in Seq(Byte)
    BY <1>1
  <2> QED
    BY <2>1 DEF SIZE_OFFSET
<1>6. Len(p) = EndOf(texts, Len(texts)) - EndOf(texts, n)
  BY DEF FramesOf
<1>7. j \in 1..(Len(texts[i]) + 2)
  BY <1>5
<1> DEFINE first == EndOf(texts, n)
           before == EndOf(texts, i - 1)
           last == EndOf(texts, i)
           all == EndOf(texts, Len(texts))
           size == Len(texts[i])
<1>8. /\ first \in Nat /\ before \in Nat /\ last \in Nat /\ all \in Nat /\ size \in Nat
      /\ last = before + size + 2 /\ first <= before /\ last <= all
      /\ j \in 1..(size + 2) /\ Len(p) = all - first
  BY <1>2, <1>3, <1>4, <1>5, <1>6, <1>7
<1> HIDE DEF first, before, last, all, size
<1>9. before - first + j \in 1..Len(p)
  BY <1>8
<1> QED
  BY <1>9 DEF before, first

(* Another text is typed, and its frame is put behind the others.          *)
LEMMA FrameAdded ==
  ASSUME NEW p \in Seq(Byte), NEW texts \in Seq(Seq(Byte)), NEW n \in 0..Len(texts),
         FramesOf(p, texts, n), NEW text \in Seq(Byte)
  PROVE  FramesOf(Cat(p, construct_message(text)), Append(texts, text), n)
<1> DEFINE m == Len(texts)
           all == Append(texts, text)
           frame == construct_message(text)
           q == Cat(p, frame)
<1>1. /\ all \in Seq(Seq(Byte)) /\ Len(all) = m + 1 /\ m \in Nat
      /\ \A i \in 1..m : all[i] = texts[i]
      /\ all[m + 1] = text
  BY AppendElems
<1>2. frame \in Seq(Byte) /\ Len(frame) = Len(text) + SIZE_OFFSET
  BY FrameShape
<1> HIDE DEF all, frame
<1>3. /\ q \in Seq(Byte) /\ Len(q) = Len(p) + Len(frame)
      /\ \A k \in 1..Len(p) : q[k] = p[k]
      /\ \A k \in 1..Len(frame) : q[Len(p) + k] = frame[k]
  <2>1. p \in Seq(Byte) /\ frame \in Seq(Byte)
    BY <1>2
  <2> HIDE DEF FramesOf
  <2> QED
    BY ONLY <2>1, Join DEF q
<1> HIDE DEF q
<1>4. ASSUME NEW k \in 0..m PROVE EndOf(all, k) = EndOf(texts, k)
  <2>1. \A i \in 1..k : all[i] = texts[i]
    BY <1>1
  <2> QED
    BY <2>1, SameEnds, Zenon
<1>5. Len(p) = EndOf(texts, m) - EndOf(texts, n)
  BY DEF FramesOf
<1>6. EndOf(texts, m) \in Nat /\ EndOf(texts, n) \in Nat /\ Len(text) \in Nat
  BY <1>1, Ends
<1>7. EndOf(all, m + 1) = EndOf(texts, m) + Len(frame)
  <2>1. m + 1 \in 1..Len(all) /\ (m + 1) - 1 = m /\ m \in 0..m
    BY <1>1
  <2>2. EndOf(all, m + 1) = EndOf(all, (m + 1) - 1) + Len(all[m + 1]) + SIZE_OFFSET
    BY <1>1, <2>1, Ends, Zenon
  <2>3. EndOf(all, (m + 1) - 1) = EndOf(texts, m)
    BY <1>4, <2>1
  <2> QED
    BY <1>1, <1>2, <1>6, <2>2, <2>3 DEF SIZE_OFFSET
<1>8. Len(q) = EndOf(all, Len(all)) - EndOf(all, n)
  BY <1>1, <1>2, <1>3, <1>4, <1>5, <1>6, <1>7 DEF SIZE_OFFSET
<1>9. ASSUME NEW i \in (n + 1)..Len(all), NEW j \in 1..(Len(all[i]) + SIZE_OFFSET)
      PROVE  q[EndOf(all, i - 1) - EndOf(all, n) + j] = construct_message(all[i])[j]
  <2>1. CASE i \in (n + 1)..m
    <3>1. i \in 1..m /\ i - 1 \in 0..m /\ all[i] = texts[i]
      <4>1. n \in Nat
        BY <1>1
      <4> HIDE DEF m
      <4>2. i \in 1..m /\ i - 1 \in 0..m
        BY ONLY <1>1, <2>1, <4>1
      <4> QED
        BY ONLY <1>1, <4>2
    <3>2. EndOf(all, i - 1) = EndOf(texts, i - 1) /\ EndOf(all, n) = EndOf(texts, n)
      BY <1>4, <3>1
    <3>3. j \in 1..(Len(texts[i]) + SIZE_OFFSET)
      BY <1>9, <3>1
    <3>4. EndOf(texts, i - 1) - EndOf(texts, n) + j \in 1..Len(p)
      BY <2>1, <3>3, BytePlace
    <3>5. p[EndOf(texts, i - 1) - EndOf(texts, n) + j] = construct_message(texts[i])[j]
      BY <2>1, <3>3 DEF FramesOf
    <3> QED
      BY <1>3, <3>1, <3>2, <3>4, <3>5
  <2>2. CASE i = m + 1
    <3>1. i - 1 = m /\ m \in 0..m /\ n \in 0..m
      BY <1>1, <2>2
    <3>2. EndOf(all, i - 1) - EndOf(all, n) = Len(p)
      BY <1>4, <1>5, <3>1
    <3>3. all[i] = text /\ j \in 1..Len(frame)
      BY <1>1, <1>2, <1>9, <2>2
    <3> QED
      BY <1>3, <3>2, <3>3 DEF frame
  <2> QED
    BY <1>1, <1>9, <2>1, <2>2
<1> QED
  BY <1>8, <1>9 DEF FramesOf, q, all, frame

(* If there are any bytes, the first of them are a frame.                  *)
LEMMA FirstFrame ==
  ASSUME NEW p \in Seq(Byte), NEW texts \in Seq(Seq(Byte)), NEW n \in 0..Len(texts),
         FramesOf(p, texts, n), Len(p) > 0
  PROVE  /\ n + 1 \in 1..Len(texts)
         /\ texts[n + 1] \in Seq(Byte)
         /\ Len(texts[n + 1]) + SIZE_OFFSET <= Len(p)
         /\ \A j \in 1..(Len(texts[n + 1]) + SIZE_OFFSET) :
              p[j] = construct_message(texts[n + 1])[j]
<1>1. EndOf(texts, n) \in Nat /\ EndOf(texts, Len(texts)) \in Nat
  BY Ends
<1>2. Len(p) = EndOf(texts, Len(texts)) - EndOf(texts, n)
  BY DEF FramesOf
<1>3. n # Len(texts)
  BY <1>1, <1>2
<1>4. n + 1 \in 1..Len(texts) /\ n + 1 \in (n + 1)..Len(texts) /\ (n + 1) - 1 = n
  BY <1>3
<1>5. texts[n + 1] \in Seq(Byte)
  BY <1>4
<1>6. \A j \in 1..(Len(texts[n + 1]) + SIZE_OFFSET) :
        /\ j \in 1..Len(p)
        /\ p[j] = construct_message(texts[n + 1])[j]
  <2> SUFFICES ASSUME NEW j \in 1..(Len(texts[n + 1]) + SIZE_OFFSET)
               PROVE  j \in 1..Len(p) /\ p[j] = construct_message(texts[n + 1])[j]
    OBVIOUS
  <2>1. EndOf(texts, (n + 1) - 1) - EndOf(texts, n) + j = j
    BY <1>1, <1>4, <1>5 DEF SIZE_OFFSET
  <2>2. EndOf(texts, (n + 1) - 1) - EndOf(texts, n) + j \in 1..Len(p)
    BY <1>4, BytePlace, Zenon
  <2>3. p[EndOf(texts, (n + 1) - 1) - EndOf(texts, n) + j] = construct_message(texts[n + 1])[j]
    BY <1>4, Zenon DEF FramesOf
  <2> QED
    BY <2>1, <2>2, <2>3
<1>7. Len(texts[n + 1]) + SIZE_OFFSET <= Len(p)
  <2>1. Len(texts[n + 1]) + SIZE_OFFSET \in 1..(Len(texts[n + 1]) + SIZE_OFFSET)
    BY <1>5 DEF SIZE_OFFSET
  <2>2. Len(texts[n + 1]) + SIZE_OFFSET \in 1..Len(p)
    BY <1>6, <2>1, Zenon
  <2> QED
    BY <2>2
<1> QED
  BY <1>4, <1>5, <1>6, <1>7

(* Without its first frame it is the frames of the texts behind that.      *)
LEMMA FrameDropped ==
  ASSUME NEW p \in Seq(Byte), NEW texts \in Seq(Seq(Byte)), NEW n \in 0..(Len(texts) - 1),
         FramesOf(p, texts, n), NEW size, size = Len(texts[n + 1]) + SIZE_OFFSET,
         NEW b \in Seq(Byte), Len(p) = size + Len(b),
         \A k \in 1..Len(b) : p[size + k] = b[k]
  PROVE  FramesOf(b, texts, n + 1)
<1> DEFINE m == Len(texts)
<1>1. size \in Nat /\ Len(b) \in Nat /\ m \in Nat /\ n \in 0..m
  <2>1. texts[n + 1] \in Seq(Byte)
    OBVIOUS
  <2> QED
    BY <2>1 DEF SIZE_OFFSET
<1>3. EndOf(texts, n + 1) = EndOf(texts, n) + size
  <2>1. n + 1 \in 1..m /\ (n + 1) - 1 = n /\ texts[n + 1] \in Seq(Byte)
    OBVIOUS
  <2>2. EndOf(texts, n + 1) = EndOf(texts, (n + 1) - 1) + Len(texts[n + 1]) + SIZE_OFFSET
    BY <2>1, Ends, Zenon
  <2>3. EndOf(texts, n) \in Nat /\ Len(texts[n + 1]) \in Nat
    BY <1>1, <2>1, Ends
  <2>4. EndOf(texts, n + 1) = EndOf(texts, n) + Len(texts[n + 1]) + SIZE_OFFSET
    BY ONLY <2>1, <2>2, Zenon
  <2>5. size = Len(texts[n + 1]) + SIZE_OFFSET
    OBVIOUS
  <2>6. ASSUME NEW e \in Nat, NEW l \in Nat PROVE e + l + SIZE_OFFSET = e + (l + SIZE_OFFSET)
    BY ONLY <2>6 DEF SIZE_OFFSET
  <2> QED
    BY ONLY <2>3, <2>4, <2>5, <2>6, Zenon
<1>4. /\ EndOf(texts, n) \in Nat /\ EndOf(texts, n + 1) \in Nat
      /\ \A i \in 0..m : EndOf(texts, i) \in Nat
  BY Ends
<1>5. Len(b) = EndOf(texts, m) - EndOf(texts, n + 1)
  <2>1. EndOf(texts, m) \in Nat
    BY <1>1, <1>4
  <2>2. PICK all \in Nat : all = EndOf(texts, m)
    BY <2>1
  <2>3. PICK start \in Nat : start = EndOf(texts, n)
    BY <1>4
  <2>4. PICK end \in Nat : end = EndOf(texts, n + 1)
    BY <1>4
  <2>5. all - start = size + Len(b)
    BY <2>2, <2>3 DEF FramesOf
  <2>6. end = start + size
    BY ONLY <1>3, <2>3, <2>4
  <2>7. Len(b) = all - end
    BY ONLY <1>1, <2>5, <2>6
  <2> QED
    BY ONLY <2>2, <2>4, <2>7
<1>6. ASSUME NEW i \in ((n + 1) + 1)..m, NEW j \in 1..(Len(texts[i]) + SIZE_OFFSET)
      PROVE  b[EndOf(texts, i - 1) - EndOf(texts, n + 1) + j] = construct_message(texts[i])[j]
  <2>1. i \in (n + 1)..m /\ i - 1 \in 0..m /\ n + 1 \in 0..(i - 1)
    OBVIOUS
  <2>2. EndOf(texts, i - 1) - EndOf(texts, n) + j \in 1..Len(p)
    BY <1>1, <2>1, BytePlace
  <2>3. p[EndOf(texts, i - 1) - EndOf(texts, n) + j] = construct_message(texts[i])[j]
    BY <2>1 DEF FramesOf
  <2>4. /\ EndOf(texts, n + 1) <= EndOf(texts, i - 1) /\ EndOf(texts, i - 1) \in Nat
        /\ j \in Nat /\ j > 0
    <3>1. texts[i] \in Seq(Byte)
      BY <2>1
    <3>2. j \in Nat /\ j > 0
      BY <3>1 DEF SIZE_OFFSET
    <3> QED
      BY <2>1, <3>2, Ends
  <2>5. /\ EndOf(texts, i - 1) - EndOf(texts, n) + j
             = size + (EndOf(texts, i - 1) - EndOf(texts, n + 1) + j)
        /\ EndOf(texts, i - 1) - EndOf(texts, n + 1) + j \in 1..Len(b)
    <3>1. EndOf(texts, i - 1) - EndOf(texts, n) + j \in 1..(size + Len(b))
      BY <2>2
    <3> QED
      <4> DEFINE start == EndOf(texts, n)
                 first == EndOf(texts, n + 1)
      <4>1. \A g \in Nat, k \in Nat :
              first <= g /\ k > 0 /\ g - start + k \in 1..(size + Len(b))
                => /\ g - start + k = size + (g - first + k)
                   /\ g - first + k \in 1..Len(b)
        <5>1. start \in Nat /\ first \in Nat /\ first = start + size
          BY <1>3, <1>4
        <5> HIDE DEF start, first
        <5> QED
          BY ONLY <1>1, <5>1
      <4> QED
        BY <2>4, <3>1, <4>1, Zenon
  <2> QED
    BY <1>1, <2>3, <2>5
<1> QED
  BY <1>5, <1>6 DEF FramesOf

-----------------------------------------------------------------------------
(* Messages.                                                               *)

(* The two bytes at the head of a frame tell how long it is.               *)
LEMMA HeaderTells ==
  ASSUME NEW text \in Seq(Byte), Fits(text), NEW hdr,
         \A j \in 1..SIZE_OFFSET : hdr[j] = construct_message(text)[j]
  PROVE  MsgSize(hdr) = Len(text) + SIZE_OFFSET
<1>1. MsgSize(construct_message(text)) = Len(text) + SIZE_OFFSET
  BY FrameShape
<1>2. hdr[1] = construct_message(text)[1] /\ hdr[2] = construct_message(text)[2]
  BY DEF SIZE_OFFSET
<1> QED
  BY <1>1, <1>2 DEF MsgSize

(* What Framed says of the texts that were typed.                          *)
AllFit(texts) == \A i \in 1..Len(texts) : Fits(texts[i])

(* The head of what is on its way, once two bytes of it were received.     *)
LEMMA HeaderFits ==
  ASSUME NEW hdr \in Seq(Byte), Len(hdr) = SIZE_OFFSET, NEW rest \in Seq(Byte),
         NEW texts \in Seq(Seq(Byte)), AllFit(texts),
         NEW n \in 0..Len(texts), FramesOf(Cat(hdr, rest), texts, n)
  PROVE  /\ n + 1 \in 1..Len(texts)
         /\ texts[n + 1] \in Seq(Byte)
         /\ MsgSize(hdr) = Len(texts[n + 1]) + SIZE_OFFSET
         /\ Len(texts[n + 1]) <= Len(rest)
         /\ \A j \in 1..Len(texts[n + 1]) : rest[j] = texts[n + 1][j]
<1> DEFINE p == Cat(hdr, rest)
<1>1. /\ p \in Seq(Byte) /\ Len(p) = 2 + Len(rest) /\ Len(rest) \in Nat
      /\ \A j \in 1..2 : p[j] = hdr[j]
      /\ \A j \in 1..Len(rest) : p[2 + j] = rest[j]
  <2> HIDE DEF FramesOf
  <2>1. /\ p \in Seq(Byte) /\ Len(p) = Len(hdr) + Len(rest)
        /\ \A j \in 1..Len(hdr) : p[j] = hdr[j]
        /\ \A j \in 1..Len(rest) : p[Len(hdr) + j] = rest[j]
    <3>1. hdr \in Seq(Byte) /\ rest \in Seq(Byte)
      OBVIOUS
    <3> QED
      BY ONLY <3>1, Join DEF p
  <2> QED
    BY <2>1 DEF SIZE_OFFSET
<1> HIDE DEF p
<1>2. FramesOf(p, texts, n) /\ Len(p) > 0
  BY <1>1 DEF p
<1>3. /\ n + 1 \in 1..Len(texts) /\ texts[n + 1] \in Seq(Byte)
      /\ Len(texts[n + 1]) + SIZE_OFFSET <= Len(p)
      /\ \A j \in 1..(Len(texts[n + 1]) + SIZE_OFFSET) :
           p[j] = construct_message(texts[n + 1])[j]
  BY <1>1, <1>2, FirstFrame
<1> DEFINE text == texts[n + 1]
<1>4. text \in Seq(Byte) /\ Len(text) \in Nat /\ Fits(text)
  BY <1>3 DEF AllFit
<1>5. \A j \in 1..(Len(text) + 2) : p[j] = construct_message(text)[j]
  BY <1>3 DEF SIZE_OFFSET
<1>6. Len(text) <= Len(rest)
  BY <1>1, <1>3, <1>4 DEF SIZE_OFFSET
<1> HIDE DEF text
<1>7. \A j \in 1..SIZE_OFFSET : hdr[j] = construct_message(text)[j]
  <2> SUFFICES ASSUME NEW j \in 1..2 PROVE hdr[j] = construct_message(text)[j]
    BY DEF SIZE_OFFSET
  <2>1. j \in 1..(Len(text) + 2)
    BY <1>4
  <2> QED
    BY <1>1, <1>5, <2>1, Zenon
<1>8. MsgSize(hdr) = Len(text) + SIZE_OFFSET
  BY <1>4, <1>7, HeaderTells
<1>9. ASSUME NEW j \in 1..Len(text) PROVE rest[j] = text[j]
  <2>1. construct_message(text)[j + 2] = text[j]
    BY <1>4, FrameShape DEF SIZE_OFFSET
  <2>2. j + 2 \in 1..(Len(text) + 2) /\ j \in 1..Len(rest) /\ j + 2 = 2 + j
    BY <1>1, <1>4, <1>6
  <2> QED
    BY <1>1, <1>5, <2>1, <2>2
<1> QED
  BY <1>3, <1>6, <1>8, <1>9 DEF text

(* A body in buf, whole: what is received and what is logged of it.        *)
LEMMA BodyInBuffer ==
  ASSUME NEW hdr \in Seq(Byte), Len(hdr) = SIZE_OFFSET, NEW text \in Seq(Byte),
         MsgSize(hdr) = Len(text) + SIZE_OFFSET,
         \A j \in 1..Len(text) : text[j] # 0
  PROVE  LET buf == Buffer(hdr, text)
         IN  /\ SubSeq(buf, 1, Len(text)) = text
             /\ Len(text) # 1 => CString(buf, MsgSize(hdr)) = text
<1> DEFINE buf == Buffer(hdr, text)
           b == Len(text)
<1>1. b \in Nat /\ MsgSize(hdr) = b + 2 /\ b + 2 \in 0..BUFFER_SIZE /\ b \in 0..BUFFER_SIZE
  <2>1. MsgSize(hdr) \in 0..(WordSize - 1) /\ WordSize \in Nat
    BY BytesWord, Words
  <2> QED
    BY <2>1 DEF SIZE_OFFSET, BUFFER_SIZE
<1>2. \A i \in 1..(b + 2) :
        /\ buf[i] \in Byte
        /\ i <= b => buf[i] = text[i]
        /\ i > b => buf[i] = IF i <= SIZE_OFFSET THEN hdr[i] ELSE 0
  BY <1>1, BufferBytes
<1>3. /\ SubSeq(buf, 1, b) \in Seq(Byte) /\ Len(SubSeq(buf, 1, b)) = b
      /\ \A i \in 1..b : SubSeq(buf, 1, b)[i] = buf[i]
  BY <1>1, BufferBytes
<1> HIDE DEF buf
<1>4. SubSeq(buf, 1, b) = text
  <2>1. \A i \in 1..b : SubSeq(buf, 1, b)[i] = text[i]
    BY <1>1, <1>2, <1>3
  <2> DEFINE t == SubSeq(buf, 1, b)
  <2>2. t \in Seq(Byte) /\ Len(t) = Len(text) /\ \A i \in 1..Len(t) : t[i] = text[i]
    BY <1>3, <2>1
  <2> HIDE DEF t
  <2>3. t = text
    BY <2>2, SeqEqual
  <2> QED
    BY <2>3 DEF t
<1>5. ASSUME b # 1 PROVE buf[b + 1] = 0
  <2>1. CASE b = 0
    <3>1. hdr[1] \in 0..(Base - 1) /\ hdr[2] \in 0..(Base - 1) /\ Base \in Nat /\ Base > 3
      <4>1. hdr[1] \in Byte /\ hdr[2] \in Byte
        BY TwoBytes
      <4> QED
        BY ONLY <4>1, Words DEF Byte
    <3> DEFINE x == hdr[1]
               y == hdr[2]
    <3>2. x * Base + y = 2
      BY <1>1, <2>1 DEF MsgSize
    <3>3. x \in 0..(Base - 1) /\ y \in 0..(Base - 1)
      BY <3>1
    <3> HIDE DEF x, y
    <3>4. x = 0
      <4> SUFFICES ASSUME x # 0 PROVE FALSE
        OBVIOUS
      <4>1. x >= 1 /\ x \in Nat
        BY <3>1, <3>3
      <4>2. x * Base >= Base
        BY <3>1, <4>1
      <4>3. x * Base \in Nat
        BY <3>1, <4>1
      <4> QED
        BY <3>1, <3>2, <3>3, <4>2, <4>3
    <3>5. buf[1] = hdr[1]
      BY <1>2, <2>1 DEF SIZE_OFFSET
    <3> QED
      BY <2>1, <3>4, <3>5 DEF x
  <2>2. CASE b >= 2
    <3>1. b + 1 \in 1..(b + 2) /\ b + 1 > b /\ ~(b + 1 <= 2)
      BY <1>1, <2>2
    <3> QED
      BY <1>2, <3>1 DEF SIZE_OFFSET
  <2>3. b = 0 \/ b >= 2
    <3>1. \A x \in Nat : x # 1 => x = 0 \/ x >= 2
      OBVIOUS
    <3> QED
      BY <1>1, <1>5, <3>1, Zenon
  <2> QED
    BY <2>1, <2>2, <2>3, Zenon
<1>6. ASSUME b # 1 PROVE CString(buf, MsgSize(hdr)) = text
  <2>1. /\ b + 1 \in 1..(b + 2) /\ b + 2 \in Nat /\ (b + 1) - 1 = b
        /\ \A i \in 1..((b + 1) - 1) : buf[i] # 0
    BY <1>1, <1>2
  <2>2. StringUpTo(buf, b + 2) = SubSeq(buf, 1, (b + 1) - 1)
    BY <1>2, <1>5, <1>6, <2>1, StringStops
  <2> QED
    BY <1>1, <1>4, <2>1, <2>2 DEF CString
<1> QED
  BY <1>4, <1>6 DEF buf

(* A body was received whole, and what is behind it stays on its way.      *)
LEMMA BodyReceived ==
  ASSUME NEW hdr \in Seq(Byte), Len(hdr) = SIZE_OFFSET,
         NEW bytes \in Seq(Byte), Len(bytes) = MsgSize(hdr) - SIZE_OFFSET,
         NEW rest \in Seq(Byte),
         NEW texts \in Seq(Seq(Byte)), AllFit(texts),
         NEW n \in 0..Len(texts), FramesOf(Cat(hdr, Cat(bytes, rest)), texts, n)
  PROVE  /\ n + 1 \in 1..Len(texts)
         /\ bytes = texts[n + 1]
         /\ FramesOf(rest, texts, n + 1)
<1> DEFINE tail == Cat(bytes, rest)
           text == texts[n + 1]
<1>1. /\ tail \in Seq(Byte) /\ Len(tail) = Len(bytes) + Len(rest)
      /\ \A j \in 1..Len(bytes) : tail[j] = bytes[j]
      /\ \A j \in 1..Len(rest) : tail[Len(bytes) + j] = rest[j]
  <2>1. bytes \in Seq(Byte) /\ rest \in Seq(Byte)
    OBVIOUS
  <2> QED
    BY ONLY <2>1, Join DEF tail
<1>2. Len(bytes) \in Nat /\ Len(rest) \in Nat
  OBVIOUS
<1>3. FramesOf(Cat(hdr, tail), texts, n)
  OBVIOUS
<1> HIDE DEF tail
<1>4. /\ n + 1 \in 1..Len(texts) /\ text \in Seq(Byte)
      /\ MsgSize(hdr) = Len(text) + SIZE_OFFSET
      /\ \A j \in 1..Len(text) : tail[j] = text[j]
  BY <1>1, <1>3, HeaderFits
<1> HIDE DEF text
<1>5. Len(bytes) = Len(text)
  <2>1. Len(text) \in Nat
    BY <1>4
  <2> QED
    BY <1>4, <2>1 DEF SIZE_OFFSET
<1>6. bytes = text
  <2>1. \A j \in 1..Len(bytes) : bytes[j] = text[j]
    BY <1>1, <1>4, <1>5
  <2> QED
    BY <1>4, <1>5, <2>1, SeqEqual
<1>7. FramesOf(rest, texts, n + 1)
  <2> DEFINE p == Cat(hdr, tail)
             size == Len(text) + SIZE_OFFSET
  <2>1. /\ p \in Seq(Byte) /\ Len(p) = 2 + Len(tail)
        /\ \A j \in 1..Len(tail) : p[2 + j] = tail[j]
    <3>1. hdr \in Seq(Byte) /\ tail \in Seq(Byte)
      BY <1>1
    <3>2. /\ p \in Seq(Byte) /\ Len(p) = Len(hdr) + Len(tail)
          /\ \A j \in 1..Len(hdr) : p[j] = hdr[j]
          /\ \A j \in 1..Len(tail) : p[Len(hdr) + j] = tail[j]
      BY ONLY <3>1, Join DEF p
    <3> QED
      BY <3>2 DEF SIZE_OFFSET
  <2>2. FramesOf(p, texts, n)
    BY <1>3
  <2> HIDE DEF p
  <2>3. size \in Nat /\ size = 2 + Len(bytes)
    BY <1>2, <1>5 DEF SIZE_OFFSET
  <2>4. Len(p) = size + Len(rest)
    BY ONLY <1>1, <1>2, <2>1, <2>3
  <2> HIDE DEF size
  <2>5. \A k \in 1..Len(rest) : p[size + k] = rest[k]
    <3> SUFFICES ASSUME NEW k \in 1..Len(rest) PROVE p[size + k] = rest[k]
      OBVIOUS
    <3>1. Len(bytes) + k \in 1..Len(tail) /\ size + k = 2 + (Len(bytes) + k)
      BY ONLY <1>1, <1>2, <2>3
    <3> QED
      BY <1>1, <2>1, <3>1
  <2>6. n \in 0..(Len(texts) - 1) /\ size = Len(texts[n + 1]) + SIZE_OFFSET
    BY <1>4 DEF text, size
  <2> QED
    BY <2>1, <2>2, <2>4, <2>5, <2>6, FrameDropped, Zenon
<1> QED
  BY <1>4, <1>6, <1>7 DEF text

-----------------------------------------------------------------------------
(* The stream.                                                             *)

(* What holds while no call gave up.                                       *)
InOrder ==
  /\ Len(received) <= Len(typed)
  /\ \A i \in 1..Len(received) : received[i] = typed[i]
  /\ \A i \in 1..Len(logged) : Len(received[i]) # 1 => logged[i] = received[i]

OnTheWay == FramesOf(Pending, typed, Len(received))

Sound == ~cut /\ Framed => InOrder /\ (server # "gone" => OnTheWay)

(* It is the three invariants in one.                                      *)
LEMMA SoundIs == ReceivedInOrder /\ LoggedIsBody /\ Aligned <=> Sound
<1>1. Aligned <=> (~cut /\ Framed /\ server # "gone" => OnTheWay)
  BY DEF Aligned, OnTheWay, FramesOf, FrameEnd, EndOf
<1> QED
  BY <1>1 DEF ReceivedInOrder, LoggedIsBody, Sound, InOrder

(* And so it is in the next state.                                         *)
LEMMA SoundNext == (ReceivedInOrder /\ LoggedIsBody /\ Aligned <=> Sound)'
BY SoundIs, PTL

(* Where bytes move from one buffer to the next, the whole stays the same. *)
LEMMA Regroup ==
  ASSUME NEW a \in Seq(Byte), NEW b \in Seq(Byte), NEW c \in Seq(Byte),
         NEW d \in Seq(Byte), NEW e \in Seq(Byte)
  PROVE  /\ Cat(Cat(Cat(a, b), Cat(c, d)), e) = Cat(Cat(Cat(a, Cat(b, c)), d), e)
         /\ Cat(Cat(Cat(a, b), c), Cat(d, e)) = Cat(Cat(Cat(a, b), Cat(c, d)), e)
         /\ Cat(Cat(Cat(a, b), c), d) = Cat(a, Cat(b, Cat(c, d)))
<1>1. Cat(Cat(Cat(a, b), Cat(c, d)), e) = Cat(Cat(Cat(a, Cat(b, c)), d), e)
  BY CatAssoc
<1>2. Cat(Cat(Cat(a, b), c), Cat(d, e)) = Cat(Cat(Cat(a, b), Cat(c, d)), e)
  BY CatAssoc
<1>3. Cat(Cat(Cat(a, b), c), d) = Cat(a, Cat(b, Cat(c, d)))
  BY CatAssoc
<1> QED
  BY <1>1, <1>2, <1>3

(* The header, once it is received.                                        *)
Head2 == IF server = "body" THEN header ELSE <<>>

(* All buffers are sequences of bytes.                                     *)
LEMMA PendingBytes ==
  ASSUME SendTypes, RecvTypes, WireTypes
  PROVE  /\ Head2 \in Seq(Byte) /\ got \in Seq(Byte) /\ wire \in Seq(Byte) /\ out \in Seq(Byte)
         /\ Pending = Cat(Cat(Cat(Head2, got), wire), out)
         /\ Pending \in Seq(Byte)
<1>1. Head2 \in Seq(Byte) /\ got \in Seq(Byte) /\ wire \in Seq(Byte) /\ out \in Seq(Byte)
  BY DEF Head2, SendTypes, RecvTypes, WireTypes
<1>2. Pending = Cat(Cat(Cat(Head2, got), wire), out)
  BY DEF Pending, Head2, Cat
<1>3. Pending \in Seq(Byte)
  BY <1>1, <1>2, Join
<1> QED
  BY <1>1, <1>2, <1>3

(* Nothing that was given up comes back.                                   *)
LEMMA NothingUndone ==
  ASSUME TypedTypes, WireTypes, [Next]_vars, ~cut', Framed'
  PROVE  /\ ~cut /\ Framed
         /\ server' # "gone" => server # "gone"
<1>1. cut => cut'
  BY DEF Next, vars, send_message, connect, send_data_nonblock, send_data_epoll,
         client_close, client_exit, hangup, deal_client_msg, recv_data_nonblock,
         server_exit, send_some, send_failed, send_retry, recv_some, recv_none, recv_retry
<1>2. server = "gone" => server' = "gone"
  BY DEF Next, vars, send_message, connect, send_data_nonblock, send_data_epoll,
         client_close, client_exit, hangup, deal_client_msg, recv_data_nonblock,
         server_exit, send_some, send_failed, send_retry, recv_some, recv_none, recv_retry,
         recvVars
<1>3. \/ typed' = typed
      \/ \E text \in Seq(Byte) : typed' = Append(typed, text)
  <2>1. ASSUME NEW length \in BodyLengths, send_message(length)
        PROVE  \E text \in Seq(Byte) : typed' = Append(typed, text)
    BY <2>1, SendMessageStep
  <2>2. CASE UNCHANGED vars
    BY <2>2 DEF vars
  <2>3. CASE Next /\ ~\E length \in BodyLengths : send_message(length)
    BY <2>3
       DEF Next, connect, send_data_nonblock, send_data_epoll,
           client_close, client_exit, hangup, deal_client_msg, recv_data_nonblock,
           server_exit, send_some, send_failed, send_retry, recv_some, recv_none, recv_retry
  <2> QED
    BY <2>1, <2>2, <2>3
<1>4. Framed
  <2>1. CASE typed' = typed
    BY <2>1 DEF Framed
  <2>2. ASSUME NEW text \in Seq(Byte), typed' = Append(typed, text) PROVE Framed
    <3>1. /\ Len(typed') = Len(typed) + 1 /\ Len(typed) \in Nat
          /\ \A i \in 1..Len(typed) : typed'[i] = typed[i]
      BY <2>2, AppendElems DEF TypedTypes
    <3>2. \A i \in 1..Len(typed) : i \in 1..Len(typed')
      BY <3>1
    <3> QED
      BY <3>1, <3>2 DEF Framed
  <2> QED
    BY <1>3, <2>1, <2>2
<1> QED
  BY <1>1, <1>2, <1>4

(* A step that neither takes nor loses a byte.                             *)
LEMMA QuietStep ==
  ASSUME InOrder, server # "gone" => OnTheWay, UNCHANGED <<typed, received, logged>>,
         server' # "gone" => server # "gone" /\ Pending' = Pending
  PROVE  InOrder' /\ (server' # "gone" => OnTheWay')
BY DEF InOrder, OnTheWay

(* The bytes of a whole header are its two bytes.                          *)
LEMMA HeaderBytes ==
  ASSUME NEW hdr \in Seq(Byte), Len(hdr) = SIZE_OFFSET,
         NEW bytes \in Seq(Byte), Len(bytes) = SIZE_OFFSET
  PROVE  SubSeq(Buffer(hdr, bytes), 1, SIZE_OFFSET) = bytes
<1> DEFINE buf == Buffer(hdr, bytes)
           t == SubSeq(buf, 1, SIZE_OFFSET)
<1>1. SIZE_OFFSET \in 0..BUFFER_SIZE
  BY Words DEF SIZE_OFFSET, BUFFER_SIZE
<1>2. /\ t \in Seq(Byte) /\ Len(t) = SIZE_OFFSET
      /\ \A i \in 1..SIZE_OFFSET : t[i] = buf[i]
      /\ \A i \in 1..SIZE_OFFSET : i <= Len(bytes) => buf[i] = bytes[i]
  BY <1>1, BufferBytes
<1> HIDE DEF t, buf
<1>3. \A i \in 1..Len(t) : t[i] = bytes[i]
  BY <1>2 DEF SIZE_OFFSET
<1>4. t = bytes
  BY <1>2, <1>3, SeqEqual
<1> QED
  BY <1>4 DEF t, buf

(* A recv_data_nonblock returns with all that it was to receive.           *)
LEMMA ReturnSound ==
  ASSUME SendTypes, RecvTypes, TypedTypes, WireTypes, WireTypes', Framed,
         InOrder, OnTheWay, UNCHANGED <<out, typed>>,
         NEW bytes \in Seq(Byte), Len(bytes) = Len(got) + want,
         Pending = Cat(Head2, Cat(bytes, Cat(wire', out))),
         recv_returns(bytes)
  PROVE  InOrder' /\ OnTheWay'
<1> DEFINE n == Len(received)
           rest == Cat(wire', out)
<1>1. /\ header \in Seq(Byte) /\ Len(header) = SIZE_OFFSET
      /\ wire' \in Seq(Byte) /\ out \in Seq(Byte) /\ <<>> \in Seq(Byte)
      /\ received \in Seq(Seq(Byte)) /\ logged \in Seq(Seq(Byte))
      /\ Len(logged) = n /\ typed \in Seq(Seq(Byte))
  BY DEF SendTypes, RecvTypes, TypedTypes, WireTypes
<1>2. rest \in Seq(Byte)
  BY <1>1, Join
<1>3. n \in 0..Len(typed)
  BY <1>1 DEF InOrder
<1>4. AllFit(typed)
  BY DEF Framed, AllFit
<1>5. FramesOf(Cat(Head2, Cat(bytes, rest)), typed, n)
  BY DEF OnTheWay
<1> HIDE DEF n, rest
<1>6. CASE server = "header"
  <2>1. /\ header' = SubSeq(Buffer(header, bytes), 1, SIZE_OFFSET) /\ got' = <<>>
        /\ MsgSize(header') >= SIZE_OFFSET => server' = "body"
        /\ UNCHANGED <<received, logged>>
    <3>1. MsgSize(header') >= SIZE_OFFSET => ~(MsgSize(header') < SIZE_OFFSET)
      <4>1. RecvTypes'
        BY ReturnTypes
      <4>2. MsgSize(header') \in 0..(WordSize - 1) /\ WordSize \in Nat
        BY <4>1, BytesWord, Words DEF RecvTypes
      <4> QED
        BY <4>2 DEF SIZE_OFFSET
    <3> QED
      BY <1>6, <3>1 DEF recv_returns, logVars
  <2>2. Len(bytes) = SIZE_OFFSET
    BY <1>6 DEF RecvTypes
  <2>3. header' = bytes
    BY <1>1, <2>1, <2>2, HeaderBytes
  <2>4. Cat(Head2, Cat(bytes, rest)) = Cat(bytes, rest)
    <3>1. Cat(bytes, rest) \in Seq(Byte)
      BY <1>2, Join
    <3> QED
      BY <1>6, <3>1, EmptyBuffer DEF Head2
  <2>5. /\ typed[n + 1] \in Seq(Byte)
        /\ MsgSize(bytes) = Len(typed[n + 1]) + SIZE_OFFSET
    <3>1. FramesOf(Cat(bytes, rest), typed, n)
      BY <1>5, <2>4
    <3>2. /\ bytes \in Seq(Byte) /\ rest \in Seq(Byte)
          /\ typed \in Seq(Seq(Byte)) /\ n \in 0..Len(typed)
      BY <1>1, <1>2, <1>3
    <3> QED
      BY ONLY <1>4, <2>2, <3>1, <3>2, HeaderFits
  <2>6. server' = "body"
    <3>1. MsgSize(bytes) >= SIZE_OFFSET
      BY <2>5 DEF SIZE_OFFSET
    <3> QED
      BY <2>1, <2>3, <3>1
  <2>7. Pending' = Pending
    <3>1. Pending' = Cat(Cat(Cat(bytes, <<>>), wire'), out)
      BY <2>1, <2>3, <2>6 DEF Pending, Cat
    <3>2. Cat(bytes, <<>>) = bytes
      BY EmptyBuffer
    <3>3. Cat(Cat(bytes, wire'), out) = Cat(bytes, rest)
      BY <1>1, CatAssoc DEF rest
    <3> QED
      BY <2>4, <3>1, <3>2, <3>3 DEF rest
  <2> QED
    BY <2>1, <2>7 DEF InOrder, OnTheWay
<1>7. CASE server = "body"
  <2> DEFINE size == MsgSize(header)
             buf == Buffer(header, bytes)
             text == typed[n + 1]
             shown == CString(buf, size)
  <2>1. /\ server' = "idle" /\ got' = <<>>
        /\ received' = Append(received, SubSeq(buf, 1, size - SIZE_OFFSET))
        /\ logged' = Append(logged, shown)
    BY <1>7 DEF recv_returns
  <2>2. Len(bytes) = size - SIZE_OFFSET
    BY <1>7 DEF RecvTypes
  <2>3. FramesOf(Cat(header, Cat(bytes, rest)), typed, n)
    BY <1>5, <1>7 DEF Head2
  <2>4. n + 1 \in 1..Len(typed) /\ bytes = text /\ FramesOf(rest, typed, n + 1)
    <3> HIDE DEF size
    <3>1. Len(bytes) = MsgSize(header) - SIZE_OFFSET
      BY <2>2 DEF size
    <3> QED
      BY ONLY <1>1, <1>2, <1>3, <1>4, <2>3, <3>1, BodyReceived
  <2>5. \A j \in 1..Len(bytes) : bytes[j] # 0
    BY <2>4 DEF TypedTypes
  <2>6. size = Len(bytes) + SIZE_OFFSET
    <3>1. size \in Int
      BY <1>1, BytesWord, Words
    <3> QED
      BY <2>2, <3>1 DEF SIZE_OFFSET
  <2>7. SubSeq(buf, 1, Len(bytes)) = bytes /\ (Len(bytes) # 1 => shown = bytes)
    BY <1>1, <2>5, <2>6, BodyInBuffer
  <2>8. received' = Append(received, bytes) /\ shown \in Seq(Byte)
    <3>1. RecvTypes'
      BY ReturnTypes
    <3>2. received' = Append(received, bytes)
      BY <2>1, <2>2, <2>7
    <3>3. logged' \in Seq(Seq(Byte)) /\ Len(logged') = Len(logged) + 1
          /\ logged'[Len(logged) + 1] = shown
      <4>1. logged' \in Seq(Seq(Byte))
        BY <3>1 DEF RecvTypes
      <4> QED
        BY ONLY <1>1, <2>1, <4>1
    <3>4. shown \in Seq(Byte)
      BY <1>1, <3>3
    <3> QED
      BY <3>2, <3>4
  <2> HIDE DEF shown, buf, size, text
  <2>9. /\ Len(received') = n + 1 /\ n \in Nat
        /\ \A i \in 1..n : received'[i] = received[i]
        /\ received'[n + 1] = text
    BY <1>1, <2>4, <2>8, AppendElems DEF n
  <2>10. /\ Len(logged') = n + 1
         /\ \A i \in 1..n : logged'[i] = logged[i]
         /\ logged'[n + 1] = shown
    BY <1>1, <2>1, <2>8, AppendElems
  <2>11. InOrder'
    <3>1. Len(received') <= Len(typed')
      BY <2>4, <2>9
    <3>2. ASSUME NEW i \in 1..Len(received') PROVE received'[i] = typed'[i]
      <4>1. CASE i \in 1..n
        BY <2>9, <4>1 DEF InOrder, n
      <4>2. CASE i = n + 1
        BY <2>9, <4>2 DEF text
      <4> QED
        BY <2>9, <4>1, <4>2
    <3>3. ASSUME NEW i \in 1..Len(logged'), Len(received'[i]) # 1
          PROVE  logged'[i] = received'[i]
      <4>1. CASE i \in 1..n
        BY <1>1, <2>9, <2>10, <3>3, <4>1 DEF InOrder, n
      <4>2. CASE i = n + 1
        BY <2>4, <2>7, <2>9, <2>10, <3>3, <4>2
      <4> QED
        BY <2>9, <2>10, <4>1, <4>2
    <3> QED
      BY <3>1, <3>2, <3>3 DEF InOrder
  <2>12. Pending' = rest
    <3>1. Pending' = Cat(Cat(Cat(<<>>, <<>>), wire'), out)
      BY <2>1 DEF Pending, Cat
    <3>2. Cat(<<>>, <<>>) = <<>> /\ Cat(<<>>, wire') = wire'
      BY <1>1, EmptyBuffer
    <3> QED
      BY <3>1, <3>2 DEF rest
  <2> QED
    BY <2>4, <2>9, <2>11, <2>12 DEF OnTheWay
<1> QED
  BY <1>6, <1>7 DEF recv_returns

(* Every step keeps what was received in order, and the frames on the way. *)
LEMMA StepSound ==
  ASSUME TypeOK, Buffers, Sound, [Next]_vars
  PROVE  Sound'
<1>a. SendTypes /\ RecvTypes /\ TypedTypes /\ WireTypes
  BY TypesOf
<1>b. SendTypes' /\ RecvTypes' /\ TypedTypes' /\ WireTypes'
  BY StepTypes, TypesNext
<1> SUFFICES ASSUME ~cut', Framed'
             PROVE  InOrder' /\ (server' # "gone" => OnTheWay')
  BY DEF Sound
<1>c. /\ ~cut /\ Framed /\ InOrder
      /\ server' # "gone" => server # "gone"
      /\ server # "gone" => OnTheWay
  BY <1>a, NothingUndone DEF Sound
<1>d. /\ Head2 \in Seq(Byte) /\ got \in Seq(Byte) /\ wire \in Seq(Byte) /\ out \in Seq(Byte)
      /\ Pending = Cat(Cat(Cat(Head2, got), wire), out)
      /\ Pending \in Seq(Byte)
  BY <1>a, PendingBytes
<1>e. Pending' = Cat(Cat(Cat(Head2', got'), wire'), out')
  BY DEF Pending, Head2, Cat
<1>f. ASSUME UNCHANGED <<typed, logVars>>,
             server' # "gone" => Pending' = Pending
      PROVE  InOrder' /\ (server' # "gone" => OnTheWay')
  BY <1>c, <1>f, QuietStep DEF logVars
<1>1. ASSUME NEW length \in BodyLengths, send_message(length)
      PROVE  InOrder' /\ (server' # "gone" => OnTheWay')
  <2>1. client = "idle" /\ UNCHANGED <<wire, recvVars, logVars, cut>>
    BY <1>a, <1>1, SendMessageStep
  <2>2. PICK text \in Seq(Byte) :
          typed' = Append(typed, text) /\ (Fits(text) => out' = construct_message(text))
    BY <1>a, <1>1, SendMessageStep
  <2> DEFINE n == Len(received)
             frame == construct_message(text)
  <2>3. /\ typed \in Seq(Seq(Byte)) /\ Len(typed) \in Nat /\ Len(typed') = Len(typed) + 1
        /\ \A i \in 1..Len(typed) : typed'[i] = typed[i]
        /\ typed'[Len(typed) + 1] = text
    BY <1>a, <2>2, AppendElems DEF TypedTypes
  <2>4. n \in 0..Len(typed) /\ received' = received /\ logged' = logged /\ server' = server
    BY <1>a, <1>c, <2>1 DEF InOrder, RecvTypes, logVars, recvVars
  <2>5. InOrder'
    BY <1>c, <2>3, <2>4 DEF InOrder
  <2>6. out' = frame
    <3>1. Fits(text)
      BY <2>3 DEF Framed
    <3> QED
      BY <2>2, <3>1
  <2>7. Pending' = Cat(Pending, frame)
    <3>1. out = <<>>
      BY <1>a, <2>1 DEF SendTypes
    <3>2. Cat(Cat(Head2, got), wire) \in Seq(Byte)
      BY <1>d, CatAssoc
    <3>3. Pending = Cat(Cat(Head2, got), wire)
      BY <1>d, <3>1, <3>2, EmptyBuffer
    <3>4. Head2' = Head2 /\ got' = got /\ wire' = wire
      BY <2>1 DEF recvVars, Head2
    <3> QED
      BY <1>e, <2>6, <3>3, <3>4
  <2>8. ASSUME server # "gone" PROVE OnTheWay'
    <3>1. FramesOf(Pending, typed, n)
      BY <1>c, <2>8 DEF OnTheWay
    <3> HIDE DEF n, frame
    <3>2. FramesOf(Cat(Pending, frame), Append(typed, text), n)
      BY ONLY <1>d, <2>3, <2>4, <3>1, FrameAdded DEF frame
    <3> QED
      BY <2>2, <2>4, <2>7, <3>2 DEF OnTheWay, n
  <2> QED
    BY <2>4, <2>5, <2>8
<1>2. CASE connect \/ client_close \/ client_exit
  BY <1>2, <1>f DEF connect, client_close, client_exit, recvVars, Pending
<1>3. CASE send_some
  <2>1. PICK k \in 1..Len(out) :
          /\ wire' = IF server = "gone" THEN <<>> ELSE wire \o SubSeq(out, 1, k)
          /\ out' = SubSeq(out, k + 1, Len(out))
    BY <1>3 DEF send_some
  <2>2. UNCHANGED <<recvVars, logVars, typed>>
    BY <1>3 DEF send_some
  <2> DEFINE head == SubSeq(out, 1, k)
             rest == SubSeq(out, k + 1, Len(out))
  <2>3. head \in Seq(Byte) /\ rest \in Seq(Byte) /\ Cat(head, rest) = out
    <3>1. k \in 0..Len(out)
      BY <1>d
    <3> QED
      BY <1>d, <3>1, CutInTwo DEF Cat
  <2> HIDE DEF head, rest
  <2>4. ASSUME server # "gone" PROVE Pending' = Pending
    <3>1. wire' = Cat(wire, head) /\ out' = rest
      BY <2>1, <2>4 DEF head, rest, Cat
    <3>2. Head2' = Head2 /\ got' = got
      BY <2>2 DEF recvVars, Head2
    <3>3. Cat(Cat(Cat(Head2, got), wire), Cat(head, rest))
            = Cat(Cat(Cat(Head2, got), Cat(wire, head)), rest)
      BY <1>d, <2>3, Regroup
    <3> QED
      BY <1>d, <1>e, <2>3, <3>1, <3>2, <3>3
  <2> QED
    BY <1>c, <1>f, <2>2, <2>4
<1>4. CASE send_failed
  BY <1>4 DEF send_failed
<1>5. CASE send_retry
  <2>1. UNCHANGED <<out, wire, recvVars, logVars, typed>>
    BY <1>5 DEF send_retry
  <2>2. Pending' = Pending
    BY <2>1 DEF Pending, recvVars
  <2> QED
    BY <1>f, <2>1, <2>2
<1>6. CASE hangup \/ server_exit
  BY <1>6, <1>f DEF hangup, server_exit
<1>7. CASE deal_client_msg
  <2>1. /\ server = "idle" /\ server' = "header" /\ got' = <<>>
        /\ UNCHANGED <<out, wire, logVars, typed>>
    BY <1>7 DEF deal_client_msg, sendVars
  <2>2. got = <<>>
    BY <1>a, <2>1 DEF RecvTypes
  <2>3. Pending' = Pending
    BY <2>1, <2>2 DEF Pending
  <2> QED
    BY <1>f, <2>1, <2>3
<1>8. CASE recv_some
  <2>1. /\ server \in {"header", "body"} /\ UNCHANGED <<out, typed>>
        /\ wire' = LeftBytes
    BY <1>8, RecvSomeStep DEF sendVars
  <2>2. /\ TakenBytes \in Seq(Byte) /\ LeftBytes \in Seq(Byte)
        /\ Cat(TakenBytes, LeftBytes) = wire
        /\ Bytes = Cat(got, TakenBytes) /\ Bytes \in Seq(Byte)
        /\ Taken <= want /\ Taken \in Nat /\ Len(Bytes) = Len(got) + Taken
    <3>1. Len(wire) \in Nat
      BY <1>d
    <3> QED
      BY <1>a, <3>1, RecvTakes
  <2>3. Pending = Cat(Cat(Cat(Head2, Bytes), LeftBytes), out)
    <3>1. Cat(Cat(Cat(Head2, got), Cat(TakenBytes, LeftBytes)), out)
            = Cat(Cat(Cat(Head2, Cat(got, TakenBytes)), LeftBytes), out)
      BY <1>d, <2>2, Regroup
    <3> QED
      BY <1>d, <2>2, <3>1
  <2>4. CASE recv_returns(Bytes) /\ ~(Taken < want)
    <3>1. Len(Bytes) = Len(got) + want
      <4>1. want \in Nat
        BY <1>a, Words DEF RecvTypes
      <4>2. Taken = want
        BY <2>2, <2>4, <4>1
      <4> QED
        BY <2>2, <4>2
    <3>2. Pending = Cat(Head2, Cat(Bytes, Cat(wire', out)))
      <4>1. Cat(Cat(Cat(Head2, Bytes), LeftBytes), out)
              = Cat(Head2, Cat(Bytes, Cat(LeftBytes, out)))
        BY <1>d, <2>2, Regroup
      <4> QED
        BY <2>1, <2>3, <4>1
    <3>3. OnTheWay
      BY <1>c, <2>1
    <3> QED
      BY <1>a, <1>b, <1>c, <2>1, <2>2, <2>4, <3>1, <3>2, <3>3, ReturnSound
  <2>5. CASE got' = Bytes /\ UNCHANGED <<server, header, logVars>>
    <3>1. Head2' = Head2 /\ got' = Bytes
      BY <2>5 DEF Head2
    <3>2. Pending' = Pending
      BY <1>e, <2>1, <2>3, <3>1
    <3> QED
      BY <1>f, <2>1, <2>5, <3>2
  <2> QED
    BY <1>8, <2>4, <2>5, RecvSomeStep
<1>9. ASSUME recv_returns(got), server \in {"header", "body"}, want = 0,
             UNCHANGED <<sendVars, wire, typed>>
      PROVE  InOrder' /\ (server' # "gone" => OnTheWay')
  <2>1. Len(got) = Len(got) + want
    <3>1. Len(got) \in Nat
      BY <1>d
    <3> QED
      BY <1>9, <3>1
  <2>2. UNCHANGED <<out, wire, typed>>
    BY <1>9 DEF sendVars
  <2>3. Pending = Cat(Head2, Cat(got, Cat(wire', out)))
    BY <1>d, <2>2, Regroup
  <2>4. OnTheWay
    BY <1>c, <1>9
  <2> QED
    BY <1>a, <1>b, <1>c, <1>d, <1>9, <2>1, <2>2, <2>3, <2>4, ReturnSound
<1>10. CASE recv_none
  <2>1. /\ recv_returns(got) /\ server \in {"header", "body"} /\ ~(want > 0)
        /\ UNCHANGED <<sendVars, wire, typed>>
    BY <1>10 DEF recv_none
  <2>2. want = 0
    <3>1. want \in Nat
      BY <1>a, Words DEF RecvTypes
    <3> QED
      BY <2>1, <3>1
  <2> QED
    BY <1>9, <2>1, <2>2
<1>11. CASE recv_retry
  <2>1. server \in {"header", "body"} /\ UNCHANGED <<sendVars, wire, typed>>
    BY <1>11 DEF recv_retry
  <2>2. CASE UNCHANGED <<server, header, got, logVars>>
    <3>1. Pending' = Pending
      BY <2>1, <2>2 DEF Pending, sendVars
    <3> QED
      BY <1>f, <2>1, <2>2, <3>1
  <2>3. CASE recv_returns(got) /\ ~(want > 0)
    <3>1. want \in Nat
      BY <1>a, Words DEF RecvTypes
    <3>2. want = 0
      BY <2>3, <3>1
    <3> QED
      BY <1>9, <2>1, <2>3, <3>2
  <2> QED
    BY <1>11, <2>2, <2>3 DEF recv_retry
<1>12. CASE UNCHANGED vars
  BY <1>12, <1>f DEF vars, sendVars, recvVars, Pending
<1> QED
  BY <1>1, <1>2, <1>3, <1>4, <1>5, <1>6, <1>7, <1>8, <1>10, <1>11, <1>12
     DEF Next, send_data_nonblock, send_data_epoll, recv_data_nonblock

(* Nothing is on its way at first.                                         *)
LEMMA InitIInv == Init => IInv
<1> SUFFICES ASSUME Init PROVE IInv
  OBVIOUS
<1>1. TypeOK /\ Buffers
  <2>1. 0 \in Byte /\ 0 \in 0..MAX_RETRY_TIMES /\ 0 \in 0..(WordSize - 1) /\ Capacity \in Nat
    BY Words, StreamAssumption DEF Byte
  <2>2. <<0, 0>> \in Seq(Byte) /\ Len(<<0, 0>>) = 2 /\ <<>> \in Seq(Byte) /\ Len(<<>>) = 0
    BY <2>1
  <2>3. SendTypes /\ RecvTypes /\ TypedTypes /\ WireTypes
    <3>1. SendTypes
      BY <2>1, <2>2 DEF Init, SendTypes
    <3>2. RecvTypes
      BY <2>1, <2>2 DEF Init, RecvTypes, SIZE_OFFSET
    <3>3. TypedTypes
      BY DEF Init, TypedTypes
    <3>4. WireTypes
      <4>1. wire = <<>> /\ cut = FALSE
        BY DEF Init
      <4>2. Len(wire) <= Capacity
        BY <2>1, <2>2, <4>1
      <4> QED
        BY <2>2, <4>1, <4>2 DEF WireTypes
    <3> QED
      BY <3>1, <3>2, <3>3, <3>4
  <2> QED
    BY <2>3, TypesOf
<1>2. Sound
  <2>1. Len(received) = 0 /\ Len(typed) = 0 /\ Len(logged) = 0
    BY DEF Init
  <2>2. InOrder
    BY <2>1 DEF InOrder
  <2>3. Pending = <<>>
    <3>1. Pending = Cat(Cat(Cat(<<>>, <<>>), <<>>), <<>>)
      BY DEF Init, Pending, Cat
    <3>2. Cat(<<>>, <<>>) = <<>>
      <4>1. <<>> \in Seq(Byte)
        OBVIOUS
      <4> QED
        BY ONLY <4>1, EmptyBuffer
    <3> QED
      BY <3>1, <3>2
  <2>4. EndOf(typed, 0) \in Nat
    BY <1>1, Ends DEF TypeOK
  <2>5. OnTheWay
    BY <2>1, <2>3, <2>4 DEF OnTheWay, FramesOf
  <2> QED
    BY <2>2, <2>5 DEF Sound
<1> QED
  BY <1>1, <1>2, SoundIs DEF IInv

(* The invariant is inductive.                                             *)
LEMMA StepIInv == IInv /\ [Next]_vars => IInv'
<1> SUFFICES ASSUME IInv, [Next]_vars PROVE IInv'
  OBVIOUS
<1>1. TypeOK /\ Buffers /\ Sound
  BY SoundIs DEF IInv
<1>2. TypeOK' /\ Buffers' /\ Sound'
  BY <1>1, StepTypes, StepSound
<1> QED
  BY <1>2, SoundNext DEF IInv

(* The inductive invariant holds in every state the two sides reach: in    *)
(* particular Aligned, that the bytes between them are the frames of what  *)
(* was typed and not yet received.                                         *)
THEOREM Invariance == Spec => []IInv
<1>1. Init => IInv
  BY InitIInv
<1>2. IInv /\ [Next]_vars => IInv'
  BY StepIInv
<1> QED
  BY <1>1, <1>2, PTL DEF Spec

(* Every variable keeps its type, recv_size its two bytes and the counters *)
(* of retries their limit, whatever is given up.                           *)
THEOREM StreamTypes == Spec => []TypeOK
<1>1. IInv => TypeOK
  BY DEF IInv
<1> QED
  BY <1>1, Invariance, PTL

(* While no call gave up, the server receives what the user typed, message *)
(* by message and in order, in whatever pieces the stream comes.           *)
THEOREM MessagesInOrder == Spec => []ReceivedInOrder
<1>1. IInv => ReceivedInOrder
  BY DEF IInv
<1> QED
  BY <1>1, Invariance, PTL

(* The C string in the log is the body, but for a body of one byte.        *)
THEOREM LogShowsBodies == Spec => []LoggedIsBody
<1>1. IInv => LoggedIsBody
  BY DEF IInv
<1> QED
  BY <1>1, Invariance, PTL

(* The bytes typed and not received are those in the three buffers.        *)
LEMMA InTransit == IInv => BytesInTransit
<1> SUFFICES ASSUME IInv, ~cut, Framed, server # "gone"
             PROVE  FrameBytes(typed) =
                      FrameBytes(received) + Len(out) + Len(wire) + Len(got)
                        + (IF server = "body" THEN SIZE_OFFSET ELSE 0)
  BY DEF BytesInTransit
<1> DEFINE n == Len(received)
<1>1. SendTypes /\ RecvTypes /\ TypedTypes /\ WireTypes
  BY TypesOf DEF IInv
<1>2. InOrder /\ OnTheWay
  BY SoundIs DEF IInv, Sound
<1>3. typed \in Seq(Seq(Byte)) /\ received \in Seq(Seq(Byte)) /\ n \in 0..Len(typed)
  BY <1>1, <1>2 DEF TypedTypes, RecvTypes, InOrder
<1>4. EndOf(received, n) = EndOf(typed, n)
  <2>1. \A i \in 1..n : received[i] = typed[i]
    BY <1>2 DEF InOrder
  <2> QED
    BY <2>1, SameEnds
<1>5. Len(Pending) = Len(Head2) + Len(got) + Len(wire) + Len(out)
  <2>1. /\ Head2 \in Seq(Byte) /\ got \in Seq(Byte) /\ wire \in Seq(Byte) /\ out \in Seq(Byte)
        /\ Pending = Cat(Cat(Cat(Head2, got), wire), out)
    BY <1>1, PendingBytes
  <2>2. Cat(Head2, got) \in Seq(Byte) /\ Len(Cat(Head2, got)) = Len(Head2) + Len(got)
    BY <2>1, Join
  <2>3. /\ Cat(Cat(Head2, got), wire) \in Seq(Byte)
        /\ Len(Cat(Cat(Head2, got), wire)) = Len(Cat(Head2, got)) + Len(wire)
    BY <2>1, <2>2, Join
  <2>4. Len(Pending) = Len(Cat(Cat(Head2, got), wire)) + Len(out)
    BY <2>1, <2>3, Join
  <2> QED
    BY <2>2, <2>3, <2>4
<1>6. Len(Head2) = IF server = "body" THEN SIZE_OFFSET ELSE 0
  BY <1>1 DEF Head2, RecvTypes
<1>7. Len(Pending) = EndOf(typed, Len(typed)) - EndOf(typed, n)
  BY <1>2 DEF OnTheWay, FramesOf
<1>8. EndOf(typed, Len(typed)) \in Nat /\ EndOf(typed, n) \in Nat
  <2>1. Len(typed) \in 0..Len(typed)
    BY <1>3
  <2> QED
    BY <1>3, <2>1, Ends
<1>9. FrameBytes(typed) = EndOf(typed, Len(typed)) /\ FrameBytes(received) = EndOf(typed, n)
  BY <1>4 DEF FrameBytes, EndOf
<1>10. Len(Head2) \in Nat /\ Len(got) \in Nat /\ Len(wire) \in Nat /\ Len(out) \in Nat
  BY <1>1, PendingBytes
<1> HIDE DEF n
<1>11. FrameBytes(typed) = FrameBytes(received) + Len(out) + Len(wire) + Len(got) + Len(Head2)
  <2>1. EndOf(typed, Len(typed)) = EndOf(typed, n) + Len(Pending)
    BY <1>5, <1>7, <1>8, <1>10
  <2> QED
    BY <1>5, <1>8, <1>9, <1>10, <2>1
<1> QED
  BY <1>6, <1>11

(* No byte is lost or counted twice on the way.                            *)
THEOREM NoByteLost == Spec => []BytesInTransit
BY Invariance, InTransit, PTL

-----------------------------------------------------------------------------
(* The promise of the protocol.                                            *)

(* A step types a text, or takes something for one, or does neither.       *)
TypeText ==
  /\ \E text \in Seq(Byte) :
       /\ text \in {Text(length, value) : length \in BodyLengths, value \in 1..(Base - 1)}
       /\ typed' = Append(typed, text)
  /\ UNCHANGED <<received, server>>

TakeBody ==
  /\ \E body \in Seq(Byte) : received' = Append(received, body)
  /\ server # "gone" /\ server' # "gone"
  /\ UNCHANGED typed

Elsewhere ==
  /\ server = "gone" => server' = "gone"
  /\ UNCHANGED <<typed, received>>

(* A recv_data_nonblock that returns is one of the last two.               *)
LEMMA ReturnKinds ==
  ASSUME RecvTypes, NEW bytes \in Seq(Byte), recv_returns(bytes), UNCHANGED typed
  PROVE  TakeBody \/ Elsewhere
<1>1. CASE server = "header" /\ UNCHANGED logVars
  BY <1>1 DEF Elsewhere, logVars
<1>2. CASE server = "body"
  <2> DEFINE body == SubSeq(Buffer(header, bytes), 1, MsgSize(header) - SIZE_OFFSET)
  <2>1. server' = "idle" /\ received' = Append(received, body)
    BY <1>2 DEF recv_returns
  <2> HIDE DEF body
  <2>2. received' \in Seq(Seq(Byte)) /\ received \in Seq(Seq(Byte))
    BY ReturnTypes DEF RecvTypes
  <2>3. Len(received') = Len(received) + 1 /\ received'[Len(received) + 1] = body
    BY <2>1, <2>2
  <2>4. body \in Seq(Byte)
    BY <2>2, <2>3
  <2> QED
    BY <1>2, <2>1, <2>4 DEF TakeBody
<1> QED
  BY <1>1, <1>2 DEF recv_returns

(* Every step of the two sides is one of the three.                        *)
LEMMA StepKinds ==
  ASSUME RecvTypes, TypedTypes, WireTypes, [Next]_vars
  PROVE  TypeText \/ TakeBody \/ Elsewhere
<1>1. ASSUME NEW length \in BodyLengths, send_message(length) PROVE TypeText
  <2> DEFINE value == 1 + (Len(typed) % (Base - 1))
             text == Text(length, value)
  <2>1. typed' = Append(typed, text) /\ UNCHANGED <<received, server>>
    BY <1>1 DEF send_message, recvVars, logVars
  <2>2. length \in Nat /\ typed \in Seq(Seq(Byte))
    BY StreamAssumption DEF TypedTypes
  <2>3. value \in 1..(Base - 1)
    <3>1. Len(typed) \in Nat /\ Base - 1 \in Nat \ {0}
      BY <2>2, Words
    <3>2. Len(typed) % (Base - 1) \in 0..((Base - 1) - 1)
      BY <3>1, Division, Zenon
    <3> QED
      BY <3>1, <3>2
  <2>4. text \in Seq(Byte)
    BY <2>2, TextTyped
  <2> HIDE DEF value
  <2>5. text \in {Text(l, v) : l \in BodyLengths, v \in 1..(Base - 1)}
    BY <2>3
  <2> HIDE DEF text
  <2> QED
    BY <2>1, <2>4, <2>5 DEF TypeText
<1>2. CASE recv_some
  <2>1. UNCHANGED typed /\ server # "gone"
    BY <1>2, RecvSomeStep
  <2>2. CASE recv_returns(Bytes)
    BY <2>1, <2>2, ReturnKinds, RecvTakes
  <2>3. CASE UNCHANGED <<server, header, logVars>>
    BY <2>1, <2>3 DEF Elsewhere, logVars
  <2> QED
    BY <1>2, <2>2, <2>3, RecvSomeStep
<1>3. CASE recv_none \/ recv_retry
  <2>1. UNCHANGED typed /\ server # "gone" /\ got \in Seq(Byte)
    BY <1>3 DEF recv_none, recv_retry, RecvTypes
  <2>2. CASE recv_returns(got)
    BY <2>1, <2>2, ReturnKinds
  <2>3. CASE UNCHANGED <<server, logVars>>
    BY <2>1, <2>3 DEF Elsewhere, logVars
  <2> QED
    BY <1>3, <2>2, <2>3 DEF recv_none, recv_retry
<1>4. CASE connect \/ client_close \/ client_exit \/ send_some \/ send_failed \/ send_retry
  BY <1>4 DEF connect, client_close, client_exit, send_some, send_failed, send_retry,
              recvVars, logVars, Elsewhere
<1>5. CASE hangup \/ server_exit \/ deal_client_msg
  BY <1>5 DEF hangup, server_exit, deal_client_msg, logVars, Elsewhere
<1>6. CASE UNCHANGED vars
  BY <1>6 DEF vars, recvVars, logVars, Elsewhere
<1> QED
  BY <1>1, <1>2, <1>3, <1>4, <1>5, <1>6
     DEF Next, send_data_nonblock, send_data_epoll, recv_data_nonblock

(* What is typed and not received, as a queue: typing a text adds it at    *)
(* the end, receiving one takes the first.                                 *)
LEMMA QueueEnds ==
  ASSUME NEW S, NEW s \in Seq(S), NEW n \in 0..Len(s)
  PROVE  /\ \A x \in S : SubSeq(Append(s, x), n + 1, Len(Append(s, x)))
                           = Append(SubSeq(s, n + 1, Len(s)), x)
         /\ n < Len(s) => LET q == SubSeq(s, n + 1, Len(s))
                          IN  /\ q # <<>> /\ Head(q) = s[n + 1]
                              /\ Tail(q) = SubSeq(s, (n + 1) + 1, Len(s))
<1> DEFINE q == SubSeq(s, n + 1, Len(s))
<1>1. Len(s) \in Nat /\ n \in Nat /\ n <= Len(s)
  OBVIOUS
<1>2. q \in Seq(S) /\ Len(q) = Len(s) - n /\ \A i \in 1..(Len(s) - n) : q[i] = s[n + i]
  OBVIOUS
<1>3. ASSUME NEW x \in S
      PROVE  SubSeq(Append(s, x), n + 1, Len(Append(s, x))) = Append(q, x)
  <2> DEFINE t == Append(s, x)
             left == SubSeq(t, n + 1, Len(t))
             right == Append(q, x)
  <2>1. /\ t \in Seq(S) /\ Len(t) = Len(s) + 1
        /\ \A i \in 1..Len(s) : t[i] = s[i]
        /\ t[Len(s) + 1] = x
    BY AppendElems
  <2> HIDE DEF t
  <2>2. /\ left \in Seq(S) /\ Len(left) = (Len(s) + 1) - n
        /\ \A i \in 1..((Len(s) + 1) - n) : left[i] = t[n + i]
    BY <1>1, <2>1
  <2> HIDE DEF q
  <2>3. /\ right \in Seq(S) /\ Len(right) = (Len(s) - n) + 1
        /\ \A i \in 1..(Len(s) - n) : right[i] = q[i]
        /\ right[(Len(s) - n) + 1] = x
    BY <1>2, AppendElems
  <2> HIDE DEF left, right
  <2>4. ASSUME NEW i \in 1..Len(left) PROVE left[i] = right[i]
    <3>1. CASE i \in 1..(Len(s) - n)
      <4>1. n + i \in 1..Len(s) /\ i \in 1..((Len(s) + 1) - n)
        BY <1>1, <3>1
      <4> QED
        BY <1>2, <2>1, <2>2, <2>3, <3>1, <4>1
    <3>2. CASE i = (Len(s) - n) + 1
      <4>1. n + i = Len(s) + 1 /\ i \in 1..((Len(s) + 1) - n)
        BY <1>1, <3>2
      <4> QED
        BY <2>1, <2>2, <2>3, <3>2, <4>1
    <3> QED
      BY <1>1, <2>2, <3>1, <3>2
  <2>5. left = right
    <3>1. Len(left) = Len(right)
      BY <1>1, <2>2, <2>3
    <3> QED
      BY <2>2, <2>3, <2>4, <3>1, SeqEqual
  <2> QED
    BY <2>5 DEF left, right, t
<1>4. ASSUME n < Len(s)
      PROVE  q # <<>> /\ Head(q) = s[n + 1] /\ Tail(q) = SubSeq(s, (n + 1) + 1, Len(s))
  <2>1. n + 1 \in 1..Len(s)
    BY <1>1, <1>4
  <2>2. Head(q) = s[n + 1] /\ Tail(q) = SubSeq(s, (n + 1) + 1, Len(s))
    BY <2>1, HeadTailOfSubSeq
  <2> HIDE DEF q
  <2>3. q # <<>>
    <3>1. Len(q) > 0
      BY <1>1, <1>2, <1>4
    <3> QED
      BY <3>1
  <2> QED
    BY <2>2, <2>3
<1> QED
  BY <1>3, <1>4

(* At first there is no text, and nothing can be broken.                   *)
LEMMA QueueInitial == Init => Queue!QueueInit
<1> SUFFICES ASSUME Init PROVE Queue!QueueInit
  OBVIOUS
<1>1. typed = <<>> /\ received = <<>> /\ ~cut /\ server = "idle"
  BY DEF Init
<1>2. Len(typed) = 0 /\ Len(received) = 0
  BY <1>1
<1>3. ~Broken
  BY <1>1, <1>2 DEF Broken, Framed
<1>4. SubSeq(typed, Len(received) + 1, Len(typed)) = <<>>
  BY <1>1
<1> QED
  BY <1>1, <1>3, <1>4 DEF Queue!QueueInit

(* Every step of the two sides is a step of the queue, or none.            *)
LEMMA QueueStep ==
  ASSUME IInv, IInv', [Next]_vars
  PROVE  [Queue!QueueNext]_(Queue!queueVars)
<1> DEFINE n == Len(received)
           q == SubSeq(typed, n + 1, Len(typed))
<1>1. /\ RecvTypes /\ TypedTypes /\ WireTypes
      /\ typed \in Seq(Seq(Byte)) /\ received \in Seq(Seq(Byte)) /\ n \in Nat
  BY TypesOf DEF IInv, TypedTypes, RecvTypes
<1>2. ~Broken' => ~Broken
  BY <1>1, NothingUndone DEF Broken
<1>3. ~Broken => n \in 0..Len(typed)
  BY <1>1 DEF IInv, ReceivedInOrder, Broken
<1>4. CASE TypeText
  <2>1. PICK text \in Seq(Byte) :
          /\ text \in {Text(length, value) : length \in BodyLengths, value \in 1..(Base - 1)}
          /\ typed' = Append(typed, text)
    BY <1>4 DEF TypeText
  <2>2. received' = received /\ server' = server
    BY <1>4 DEF TypeText
  <2>3. CASE ~Broken'
    <3>1. SubSeq(typed', n + 1, Len(typed')) = Append(q, text)
      BY <1>1, <1>2, <1>3, <2>1, <2>3, QueueEnds
    <3> HIDE DEF q
    <3>2. SubSeq(typed', Len(received') + 1, Len(typed')) = Append(q, text)
      BY <2>2, <3>1
    <3>3. Queue!Send(text)
      BY <1>2, <2>2, <2>3, <3>2 DEF Queue!Send, q
    <3> QED
      BY <2>1, <3>3 DEF Queue!QueueNext
  <2>4. CASE Broken' /\ ~Broken
    BY <2>2, <2>4 DEF Queue!QueueNext, Queue!Break
  <2>5. CASE Broken' /\ Broken
    BY <2>2, <2>5 DEF Queue!queueVars
  <2> QED
    BY <2>3, <2>4, <2>5
<1>5. CASE TakeBody
  <2>1. PICK body \in Seq(Byte) : received' = Append(received, body)
    BY <1>5 DEF TakeBody
  <2>2. server # "gone" /\ server' # "gone" /\ typed' = typed
    BY <1>5 DEF TakeBody
  <2>3. /\ Len(received') = n + 1 /\ received'[n + 1] = body
        /\ SubSeq(received', 1, n) = received
    <3>1. /\ received' \in Seq(Seq(Byte)) /\ Len(received') = n + 1
          /\ \A i \in 1..n : received'[i] = received[i]
          /\ received'[n + 1] = body
      BY <1>1, <2>1, AppendElems
    <3> DEFINE front == SubSeq(received', 1, n)
    <3>2. /\ front \in Seq(Seq(Byte)) /\ Len(front) = n
          /\ \A i \in 1..n : front[i] = received'[i]
      BY <1>1, <3>1
    <3> HIDE DEF front
    <3>3. front = received
      BY <1>1, <3>1, <3>2, SeqEqual
    <3> QED
      BY <3>1, <3>3 DEF front
  <2>4. CASE ~Broken'
    <3>1. n + 1 <= Len(typed) /\ body = typed[n + 1]
      <4>1. Len(received') <= Len(typed')
            /\ \A i \in 1..Len(received') : received'[i] = typed'[i]
        BY <2>4 DEF IInv, ReceivedInOrder, Broken
      <4>2. n + 1 \in 1..Len(received')
        BY <1>1, <2>3
      <4> QED
        BY <2>2, <2>3, <4>1, <4>2
    <3>2. q # <<>> /\ Head(q) = body /\ Tail(q) = SubSeq(typed, (n + 1) + 1, Len(typed))
      <4>1. n \in 0..Len(typed) /\ n < Len(typed)
        BY <1>1, <1>2, <1>3, <2>4, <3>1
      <4>2. LET r == SubSeq(typed, n + 1, Len(typed))
            IN  r # <<>> /\ Head(r) = typed[n + 1] /\ Tail(r) = SubSeq(typed, (n + 1) + 1, Len(typed))
        BY <1>1, <4>1, QueueEnds
      <4> QED
        BY <3>1, <4>2
    <3> HIDE DEF q
    <3>3. SubSeq(typed', Len(received') + 1, Len(typed')) = Tail(q)
      BY <2>2, <2>3, <3>2
    <3>4. Queue!Deliver
      BY <1>2, <2>1, <2>2, <2>4, <3>2, <3>3 DEF Queue!Deliver, q
    <3> QED
      BY <3>4 DEF Queue!QueueNext
  <2>5. CASE Broken'
    <3>1. Queue!Stray
      BY <2>3 DEF Queue!Stray
    <3>2. CASE Broken
      BY <2>5, <3>1, <3>2 DEF Queue!QueueNext, Queue!Babble
    <3>3. CASE ~Broken
      BY <2>5, <3>1, <3>3 DEF Queue!QueueNext, Queue!Break
    <3> QED
      BY <3>2, <3>3
  <2> QED
    BY <2>4, <2>5
<1>6. CASE Elsewhere
  <2>1. /\ typed' = typed /\ received' = received
        /\ server = "gone" => server' = "gone"
    BY <1>6 DEF Elsewhere
  <2>2. CASE ~Broken' /\ server' = "gone" /\ server # "gone"
    BY <1>2, <2>1, <2>2 DEF Queue!QueueNext, Queue!Shut
  <2>3. CASE ~Broken' /\ (server' = "gone" <=> server = "gone")
    BY <1>2, <2>1, <2>3 DEF Queue!queueVars
  <2>4. CASE Broken' /\ ~Broken
    BY <2>1, <2>4 DEF Queue!QueueNext, Queue!Break
  <2>5. CASE Broken' /\ Broken
    BY <2>1, <2>5 DEF Queue!queueVars
  <2> QED
    BY <2>1, <2>2, <2>3, <2>4, <2>5
<1> QED
  BY <1>1, <1>4, <1>5, <1>6, StepKinds

(* The byte stream is a queue of texts: for every number and length of     *)
(* texts, in whatever pieces their frames are sent and received, each is   *)
(* delivered whole, once and in its turn, until a call gives up.           *)
THEOREM StreamImplementsQueue == Spec => ImplementsQueue
<1>1. IInv /\ IInv' /\ [Next]_vars => [Queue!QueueNext]_(Queue!queueVars)
  BY QueueStep
<1> QED
  BY QueueInitial, Invariance, <1>1, PTL DEF Spec, ImplementsQueue, Queue!QueueSpec
=============================================================================
