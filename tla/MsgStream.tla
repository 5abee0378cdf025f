------------------------------- MODULE MsgStream -------------------------------
(***************************************************************************)
(* One connection of the default protocol: a client of tcp_client_v2.cpp   *)
(* frames what its user types and passes it to send_data_nonblock, or to   *)
(* send_data_epoll, which tcp_public.cpp has for trial; the server reads   *)
(* it with the deal_client_msg of TcpServer, two calls of                  *)
(* recv_data_nonblock for each message.  Between them is a byte stream of  *)
(* bounded capacity, and either process may end at any time.  A byte is a  *)
(* number below Base, so Base * Base stands for the 65536 values of the    *)
(* uint16_t lengths.                                                       *)
(***************************************************************************)
EXTENDS Integers, Sequences, FiniteSets

CONSTANTS
  Base,            \* number of byte values, 256 in the code
  BodyLengths,     \* lengths of the texts the user types
  Senders,         \* the functions that messages are passed to
  MaxSends,        \* bound of the model: messages the user sends
  Capacity,        \* bytes the two socket buffers hold
  MAX_RETRY_TIMES

ASSUME StreamAssumption ==
  /\ Base \in Nat /\ Base > 3
  /\ BodyLengths \subseteq Nat
  /\ Senders \subseteq {"nonblock", "epoll"}
  /\ MaxSends \in Nat
  /\ Capacity \in Nat \ {0}
  /\ MAX_RETRY_TIMES \in Nat \ {0}

VARIABLES
  client,    \* not connected, idle (reading the user's input), sending, closed
  sender,    \* the function that was called last to send
  out,       \* what it has still to send: buf and send_size
  tries,     \* retry_times of send_data_nonblock
  wire,      \* the bytes the kernel accepted and the server has not read
  server,    \* idle (in epoll_wait), in the first or second recv, socket closed
  header,    \* the two bytes of buf that the first recv filled
  got,       \* the bytes the current recv_data_nonblock has written to buf
  want,      \* its recv_size
  waits,     \* its retry_times
  typed,     \* the texts passed to construct_message (history)
  received,  \* the bodies, as the recv calls left them in buf (history)
  logged,    \* the same as the C strings of LOG_INFO (history)
  cut        \* a call returned without having moved all its bytes (history)

sendVars == <<client, sender, out, tries>>
recvVars == <<server, header, got, want, waits>>
logVars  == <<received, logged>>
vars     == <<sendVars, wire, recvVars, logVars, typed, cut>>

WordSize == Base * Base
BUFFER_SIZE == WordSize
SIZE_OFFSET == 2

Byte == 0..(Base - 1)
Text(length, value) == [i \in 1..length |-> value]

TypeOK ==
  /\ client \in {"start", "idle", "send", "closed", "failed"}
  /\ sender \in {"nonblock", "epoll"}
  /\ out \in Seq(Byte)
  /\ tries \in 0..MAX_RETRY_TIMES
  /\ wire \in Seq(Byte) /\ Len(wire) <= Capacity
  /\ server \in {"idle", "header", "body", "gone"}
  /\ header \in Seq(Byte) /\ Len(header) = SIZE_OFFSET
  /\ got \in Seq(Byte)
  /\ want \in 0..(WordSize - 1)
  /\ waits \in 0..MAX_RETRY_TIMES
  /\ typed \in Seq(Seq(Byte))
  /\ received \in Seq(Seq(Byte))
  /\ logged \in Seq(Seq(Byte))
  /\ cut \in BOOLEAN

Init ==
  /\ client = "start"
  /\ sender = "nonblock"
  /\ out = <<>>
  /\ tries = 0
  /\ wire = <<>>
  /\ server = "idle"
  /\ header = <<0, 0>>
  /\ got = <<>>
  /\ want = 0
  /\ waits = 0
  /\ typed = <<>>
  /\ received = <<>>
  /\ logged = <<>>
  /\ cut = FALSE

-----------------------------------------------------------------------------
(* The client.                                                             *)

(* A mutated frame whose length leaves the header out.                     *)
construct_message_short(text) ==
  LET total_length == Len(text) % WordSize
  IN  <<total_length \div Base, total_length % Base>> \o text

(* A mutated frame whose length does not wrap.                             *)
construct_message_wide(text) ==
  LET total_length == Len(text) + SIZE_OFFSET
  IN  <<total_length \div Base, total_length % Base>> \o text

(* The length wraps around when the text has 65534 bytes or more.          *)
construct_message(text) ==
  LET total_length == (Len(text) + SIZE_OFFSET) % WordSize
  IN  <<total_length \div Base, total_length % Base>> \o text

(* TcpClient's constructor connects, or throws, and main returns.          *)
connect ==
  /\ client = "start"
  /\ client' \in IF server = "gone" THEN {"failed"} ELSE {"idle", "failed"}
  /\ UNCHANGED <<sender, out, tries, wire, recvVars, logVars, typed, cut>>

(* main: frame the text, and pass its length on as a uint16_t.             *)
send_message(length) ==
  /\ client = "idle"
  /\ Len(typed) < MaxSends
  /\ LET text   == Text(length, 1 + (Len(typed) % (Base - 1)))
         packet == construct_message(text)
     IN  /\ typed' = Append(typed, text)
         /\ out' = SubSeq(packet, 1, Len(packet) % WordSize)
  /\ client' = "send"
  /\ sender' \in Senders
  /\ tries' = 0
  /\ UNCHANGED <<wire, recvVars, logVars, cut>>

(* send accepts some of the bytes, as many as there is room for or fewer.  *)
(* Those for a socket that the server has closed are lost.                 *)
send_some ==
  /\ client = "send"
  /\ \E k \in 1..Len(out) :
       /\ Len(wire) + k <= Capacity
       /\ wire' = IF server = "gone" THEN <<>> ELSE wire \o SubSeq(out, 1, k)
       /\ out' = SubSeq(out, k + 1, Len(out))
       /\ client' = IF k = Len(out) THEN "idle" ELSE "send"
  /\ tries' = 0
  /\ UNCHANGED <<sender, recvVars, logVars, typed, cut>>

(* send of no bytes returns 0, which is taken for a closed peer, and after *)
(* a reset by the server it fails with EPIPE.  One function returns, the   *)
(* other throws, and the loop in main goes on after either.                *)
send_failed ==
  /\ client = "send"
  /\ out = <<>> \/ server = "gone"
  /\ client' = "idle"
  /\ out' = <<>>
  /\ cut' = TRUE
  /\ UNCHANGED <<sender, tries, wire, recvVars, logVars, typed>>

(* A mutated retry that starts the message over.                           *)
send_retry_again ==
  /\ client = "send" /\ sender = "nonblock"
  /\ out # <<>> /\ Len(wire) = Capacity
  /\ tries' = tries + 1
  /\ IF tries' < MAX_RETRY_TIMES
     THEN /\ out' = construct_message(typed[Len(typed)])
          /\ UNCHANGED <<client, cut>>
     ELSE client' = "idle" /\ out' = <<>> /\ cut' = TRUE
  /\ UNCHANGED <<sender, wire, recvVars, logVars, typed>>

(* No room: EAGAIN.  After MAX_RETRY_TIMES in a row the loop ends, logs,   *)
(* and the function returns as if all had been sent.  (send_data_epoll     *)
(* waits for EPOLLOUT instead, and never counts its timeouts.)             *)
send_retry ==
  /\ client = "send" /\ sender = "nonblock"
  /\ out # <<>> /\ Len(wire) = Capacity
  /\ tries' = tries + 1
  /\ IF tries' < MAX_RETRY_TIMES
     THEN UNCHANGED <<client, out, cut>>
     ELSE client' = "idle" /\ out' = <<>> /\ cut' = TRUE
  /\ UNCHANGED <<sender, wire, recvVars, logVars, typed>>

(* The user quits: ~TcpClient closes the socket.                           *)
client_close ==
  /\ client = "idle"
  /\ client' = "closed"
  /\ UNCHANGED <<sender, out, tries, wire, recvVars, logVars, typed, cut>>

(* The client's process is ended in the middle of a frame.                 *)
client_exit ==
  /\ client = "send"
  /\ client' = "closed"
  /\ UNCHANGED <<sender, out, tries, wire, recvVars, logVars, typed, cut>>

-----------------------------------------------------------------------------
(* The server.                                                             *)

(* EPOLLRDHUP comes before EPOLLIN: the socket is closed, unread.          *)
hangup ==
  /\ server = "idle"
  /\ client = "closed"
  /\ server' = "gone"
  /\ wire' = <<>>
  /\ UNCHANGED <<sendVars, header, got, want, waits, logVars, typed, cut>>

(* The server's process is ended (Ctrl + C).                               *)
server_exit ==
  /\ server # "gone"
  /\ server' = "gone"
  /\ wire' = <<>>
  /\ UNCHANGED <<sendVars, header, got, want, waits, logVars, typed, cut>>

deal_client_msg ==
  /\ server = "idle"
  /\ client # "closed" /\ wire # <<>>
  /\ server' = "header"
  /\ header' = <<0, 0>>
  /\ got' = <<>>
  /\ want' = SIZE_OFFSET
  /\ waits' = 0
  /\ UNCHANGED <<sendVars, wire, logVars, typed, cut>>

(* buf after bytes were written over its beginning; it began as zeros with *)
(* the header in front.                                                    *)
Buffer(hdr, bytes) ==
  [i \in 1..BUFFER_SIZE |->
     IF i <= Len(bytes) THEN bytes[i] ELSE IF i <= SIZE_OFFSET THEN hdr[i] ELSE 0]

MsgSize(hdr) == hdr[1] * Base + hdr[2]

StringUpTo(buf, size) ==
  LET ends == {i \in 1..size : buf[i] = 0}
  IN  IF ends = {} THEN SubSeq(buf, 1, size)
      ELSE SubSeq(buf, 1, (CHOOSE i \in ends : \A j \in ends : i <= j) - 1)

(* A mutated terminator on the last byte of the body.                      *)
CString_early(buf, msg_size) == StringUpTo(buf, msg_size - SIZE_OFFSET - 1)

(* What %s prints of buf once buf[msg_size] is '\0'.                       *)
CString(buf, msg_size) == StringUpTo(buf, msg_size)

(* A recv_data_nonblock returns, with bytes in buf: the first one leads to *)
(* the second, or to an exception for an impossible length; the second to  *)
(* the log.                                                                *)
recv_returns(bytes) ==
  \/ /\ server = "header"
     /\ header' = SubSeq(Buffer(header, bytes), 1, SIZE_OFFSET)
     /\ got' = <<>>
     /\ waits' = 0
     /\ IF MsgSize(header') < SIZE_OFFSET
        THEN server' = "idle" /\ want' = 0
        ELSE server' = "body" /\ want' = MsgSize(header') - SIZE_OFFSET
     /\ UNCHANGED logVars
  \/ /\ server = "body"
     /\ server' = "idle"
     /\ LET msg_size == MsgSize(header)
            buf      == Buffer(header, bytes)
        IN  /\ received' = Append(received, SubSeq(buf, 1, msg_size - SIZE_OFFSET))
            /\ logged' = Append(logged, CString(buf, msg_size))
     /\ got' = <<>> /\ want' = 0 /\ waits' = 0
     /\ UNCHANGED header

(* A mutated loop that takes every recv for a complete one.                *)
recv_some_returns ==
  /\ server \in {"header", "body"}
  /\ wire # <<>> /\ want > 0
  /\ LET k     == IF Len(wire) < want THEN Len(wire) ELSE want
         bytes == got \o SubSeq(wire, 1, k)
     IN  /\ wire' = SubSeq(wire, k + 1, Len(wire))
         /\ recv_returns(bytes)
  /\ UNCHANGED <<sendVars, typed, cut>>

(* recv returns what is there, up to recv_size.                            *)
recv_some ==
  /\ server \in {"header", "body"}
  /\ wire # <<>> /\ want > 0
  /\ LET k     == IF Len(wire) < want THEN Len(wire) ELSE want
         bytes == got \o SubSeq(wire, 1, k)
     IN  /\ wire' = SubSeq(wire, k + 1, Len(wire))
         /\ IF k < want
            THEN /\ got' = bytes /\ want' = want - k /\ waits' = 0
                 /\ UNCHANGED <<server, header, logVars>>
            ELSE recv_returns(bytes)
  /\ UNCHANGED <<sendVars, typed, cut>>

(* recv returns 0, which is taken for a closed peer: it is one, or nothing *)
(* was asked for and something else is queued.                             *)
recv_none ==
  /\ server \in {"header", "body"}
  /\ IF wire = <<>> THEN client = "closed" ELSE want = 0
  /\ recv_returns(got)
  /\ cut' = (cut \/ want > 0)
  /\ UNCHANGED <<sendVars, wire, typed>>

(* A mutated loop that never counts.                                       *)
recv_retry_uncounted ==
  /\ server \in {"header", "body"}
  /\ wire = <<>> /\ client # "closed"
  /\ waits' = 0
  /\ UNCHANGED <<server, header, got, want, logVars, sendVars, wire, typed, cut>>

(* EAGAIN.  After MAX_RETRY_TIMES in a row the loop ends, logs, and the    *)
(* function returns as if all had been received.                           *)
recv_retry ==
  /\ server \in {"header", "body"}
  /\ wire = <<>> /\ client # "closed"
  /\ IF waits + 1 < MAX_RETRY_TIMES
     THEN /\ waits' = waits + 1
          /\ UNCHANGED <<server, header, got, want, logVars, cut>>
     ELSE /\ recv_returns(got)
          /\ cut' = (cut \/ want > 0)
  /\ UNCHANGED <<sendVars, wire, typed>>

-----------------------------------------------------------------------------
send_data_nonblock == sender = "nonblock" /\ (send_some \/ send_failed \/ send_retry)
send_data_epoll    == sender = "epoll" /\ (send_some \/ send_failed)
recv_data_nonblock == recv_some \/ recv_none \/ recv_retry

Next ==
  \/ \E length \in BodyLengths : send_message(length)
  \/ connect \/ send_data_nonblock \/ send_data_epoll \/ client_close \/ client_exit
  \/ hangup \/ deal_client_msg \/ recv_data_nonblock \/ server_exit

Spec == Init /\ [][Next]_vars

(* The calls run without waiting for anything but time or, in the case of  *)
(* send_data_epoll, room in the stream, and the reactor answers an event;  *)
(* the user may stop typing.                                               *)
FairSpec ==
  /\ Spec
  /\ WF_vars(send_data_nonblock \/ send_data_epoll)
  /\ WF_vars(recv_data_nonblock)
  /\ WF_vars(deal_client_msg \/ hangup)

-----------------------------------------------------------------------------
(* Safety.                                                                 *)

(* A text whose frame length fits its two bytes.                           *)
Fits(text) == Len(text) + SIZE_OFFSET < WordSize

Framed == \A i \in 1..Len(typed) : Fits(typed[i])

(* As long as no call gave up, the server receives what the user typed,    *)
(* message by message, whatever pieces the stream comes in: it never mixes *)
(* up a header with a body (tcp_server.cpp:79-85, tcp_public.cpp:70-97 and *)
(* 118-156).                                                               *)
ReceivedInOrder ==
  ~cut /\ Framed =>
    /\ Len(received) <= Len(typed)
    /\ \A i \in 1..Len(received) : received[i] = typed[i]

(* Bytes that the frames of some texts take: their places, the j-th byte   *)
(* of the i-th frame, up to the n-th frame.                                *)
FramesUpTo(texts, n) ==
  UNION {{i} \X (1..(Len(texts[i]) + SIZE_OFFSET)) : i \in 1..n}
FrameBytes(texts) == Cardinality(FramesUpTo(texts, Len(texts)))

(* Where the two sides stand: the bytes of what was typed and not yet      *)
(* received are just those in the three buffers, none counted twice or     *)
(* left out by the arithmetic on send_size, recv_size and buf.             *)
BytesInTransit ==
  ~cut /\ Framed /\ server # "gone" =>
    FrameBytes(typed) =
      FrameBytes(received) + Len(out) + Len(wire) + Len(got)
        + (IF server = "body" THEN SIZE_OFFSET ELSE 0)

(* The body is written over the header, but the terminator goes where the  *)
(* whole message would end: what the log shows as a C string is the body   *)
(* all the same, because buf was zeroed, except that a body of one byte is *)
(* shown with a byte of the header behind it (tcp_server.cpp:79-88).       *)
LoggedIsBody ==
  ~cut /\ Framed =>
    \A i \in 1..Len(logged) : Len(received[i]) # 1 => logged[i] = received[i]

(* What the proof of these three needs to know of every state: of the      *)
(* buffers, whatever was given up,                                         *)
Buffers ==
  /\ client = "send" => tries < MAX_RETRY_TIMES
  /\ client \in {"start", "idle"} => out = <<>>
  /\ server = "idle" => got = <<>>
  /\ server = "header" => want > 0 /\ Len(got) + want = SIZE_OFFSET
  /\ server = "body" => Len(got) + want = MsgSize(header) - SIZE_OFFSET
  /\ Len(logged) = Len(received)
  /\ \A i \in 1..Len(typed) : \A j \in 1..Len(typed[i]) : typed[i][j] # 0

(* and of the bytes on their way: they are the frames of what was typed    *)
(* and not yet received, each where the ones before it end.                *)
Pending == (IF server = "body" THEN header ELSE <<>>) \o got \o wire \o out

FrameEnd(i) == Cardinality(FramesUpTo(typed, i))

Aligned ==
  ~cut /\ Framed /\ server # "gone" =>
    LET n == Len(received)
    IN  /\ Len(Pending) = FrameEnd(Len(typed)) - FrameEnd(n)
        /\ \A i \in (n + 1)..Len(typed) : \A j \in 1..(Len(typed[i]) + SIZE_OFFSET) :
             Pending[FrameEnd(i - 1) - FrameEnd(n) + j] = construct_message(typed[i])[j]

IInv == TypeOK /\ Buffers /\ ReceivedInOrder /\ LoggedIsBody /\ Aligned

-----------------------------------------------------------------------------
(* The promise of the protocol.                                            *)

Broken == cut \/ ~Framed

Queue == INSTANCE MsgQueue WITH
  Texts <- {Text(length, value) : length \in BodyLengths, value \in 1..(Base - 1)},
  queue <- IF Broken THEN <<>> ELSE SubSeq(typed, Len(received) + 1, Len(typed)),
  delivered <- received,
  link <- IF Broken THEN "broken" ELSE IF server = "gone" THEN "closed" ELSE "open"

(* Frames, buffers, retries and partial calls of both sides together are   *)
(* a queue of texts: each is delivered whole, once and in its turn, and    *)
(* never taken back, until a call gives up (tcp_client_v2.cpp:23-37 and    *)
(* 92-107, tcp_server.cpp:79-93, tcp_public.cpp:70-97 and 118-156).        *)
ImplementsQueue == Queue!QueueSpec

-----------------------------------------------------------------------------
(* Liveness.                                                               *)

(* Both calls return.  Those of send_data_nonblock and recv_data_nonblock  *)
(* do so whatever the other side does, by their retry limits; that of      *)
(* send_data_epoll, which has none, because the server reads on or ends    *)
(* (tcp_public.cpp:70-97, 118-156, 258-312).                               *)
CallsReturn ==
  /\ (client = "send") ~> (client # "send")
  /\ (server \in {"header", "body"}) ~> (server \in {"idle", "gone"})

(* What was typed arrives, unless a call gave up or either side ended.     *)
AllReceived ==
  \A n \in 1..MaxSends :
    (Len(typed) >= n) ~>
      (Len(received) >= n \/ cut \/ client = "closed" \/ server = "gone" \/ ~Framed)

-----------------------------------------------------------------------------
(* What a comment says of the code, and the code does not do.              *)

(* "throws when ... the maximum of retries is reached": between processes  *)
(* that live a call that comes back normally has moved all its bytes       *)
(* (tcp_public.cpp:66, 114).                                               *)
ReturnsWhenDone == Framed /\ client # "closed" /\ server # "gone" => ~cut
=============================================================================
