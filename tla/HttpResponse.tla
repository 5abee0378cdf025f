----------------------------- MODULE HttpResponse -----------------------------
(***************************************************************************)
(* From a request on a connection to the bytes of its response: the        *)
(* reactor's deal_client_msg and close_client, and the workers'            *)
(* handle_request with validate_file, stat, the header and                 *)
(* sendfile_nonblock, over a file that somebody may shorten, extend or     *)
(* unlink meanwhile and over descriptors that are closed and given to      *)
(* other connections meanwhile.  The queue and the workers are those of    *)
(* RequestPool, which HttpServer implements: a request in flight is in the *)
(* hands of one worker.  A request remembers its client as a descriptor.   *)
(* A client whose request is Stalled does not read its connection.         *)
(***************************************************************************)
EXTENDS RequestPool, HttpRequest

CONSTANTS
  Conns,       \* connections, each made at most once
  Fds,         \* descriptors for client sockets
  None,        \* no connection, no descriptor, nothing asked
  Asks,        \* what each request may ask for
  ClientOf,    \* the connection each request is sent on
  MaxSize,     \* bound of the model: bytes in the file
  Sizes,       \* sizes the file may have
  MaxChanges   \* bound of the model: changes of the file

AskRecords ==
  [path : {"garbled", "toolong", "outside", "file"}, lines : Seq(Line)]

ASSUME ResponseAssumption ==
  /\ Fds \subseteq Nat
  /\ None \notin Conns /\ None \notin Fds /\ None \notin AskRecords
  /\ Asks \in [Requests -> SUBSET AskRecords]
  /\ ClientOf \in [Requests -> Conns]
  /\ MaxSize \in 0..OffMax
  /\ Sizes \subseteq 0..MaxSize
  /\ MaxChanges \in Nat

VARIABLES
  conn,       \* what the peer of a connection did
  inbox,      \* requests sent on a connection and not read
  owner,      \* descriptor table
  closed,     \* connections that close_client closed (history)
  ask,        \* what each request asks for
  fileSize,   \* size of the one file that is asked for
  linked,     \* its name exists and can be read
  changes,    \* how often the file changed
  disturbed,  \* requests whose file changed while they were handled, or for
              \* which the system refused a call (history)
  at,         \* how far each request is
  client_fd,  \* the descriptor each request remembers
  range,      \* the bytes announced: range, or the whole file
  offset,     \* next byte that sendfile sends
  code,       \* error to be replied
  stream      \* what was written to each connection

connVars == <<conn, inbox, owner, closed>>
fileVars == <<fileSize, linked, changes>>
workVars == <<at, client_fd, range, offset, code>>
vars == <<poolVars, connVars, ask, fileVars, disturbed, workVars, stream>>

Points == {"unsent", "sent", "queued", "validate", "stat", "header", "open",
           "sendfile", "error", "done"}
Busy == {"validate", "stat", "header", "open", "sendfile", "error"}
Codes == {"400", "403", "404", "500"}

(* A piece of a response on a connection: a whole header, a byte of the    *)
(* file, an error page, or what there is of a header or a page ("cut")     *)
(* when send_data_nonblock gave up, which may be nothing.                  *)
Whats == {"head", "cut", "byte"} \cup Codes
Written == [of : Requests, what : Whats, pos : 0..MaxSize]

TypeOK ==
  /\ queue \in Seq(Requests)
  /\ inflight \subseteq Requests
  /\ answered \subseteq Requests
  /\ state \in {"open", "dead"}
  /\ conn \in [Conns -> {"new", "open", "gone"}]
  /\ inbox \in [Conns -> Seq(Requests)]
  /\ owner \in [Fds -> Conns \cup {None}]
  /\ closed \subseteq Conns
  /\ ask \in [Requests -> AskRecords \cup {None}]
  /\ fileSize \in 0..MaxSize
  /\ linked \in BOOLEAN
  /\ changes \in 0..MaxChanges
  /\ disturbed \subseteq Requests
  /\ at \in [Requests -> Points]
  /\ client_fd \in [Requests -> Fds \cup {None}]
  /\ range \in [Requests -> [start : 0..MaxSize, end : -1..(MaxSize - 1)]]
  /\ offset \in [Requests -> 0..MaxSize]
  /\ code \in [Requests -> Codes \cup {"none"}]
  /\ stream \in [Conns -> Seq(Written)]

Init ==
  /\ PoolInit
  /\ conn = [c \in Conns |-> "new"]
  /\ inbox = [c \in Conns |-> <<>>]
  /\ owner = [fd \in Fds |-> None]
  /\ closed = {}
  /\ ask = [r \in Requests |-> None]
  /\ fileSize \in Sizes
  /\ linked \in BOOLEAN
  /\ changes = 0
  /\ disturbed = {}
  /\ at = [r \in Requests |-> "unsent"]
  /\ client_fd = [r \in Requests |-> None]
  /\ range = [r \in Requests |-> [start |-> 0, end |-> -1]]
  /\ offset = [r \in Requests |-> 0]
  /\ code = [r \in Requests |-> "none"]
  /\ stream = [c \in Conns |-> <<>>]

Running == state = "open"
AtBusy == {r \in Requests : at[r] \in Busy}
Go(r, point) == at' = [at EXCEPT ![r] = point]

-----------------------------------------------------------------------------
(* Clients, and whoever works on the files.                                *)

client_send(r) ==
  /\ Running
  /\ at[r] = "unsent" /\ conn[ClientOf[r]] = "open"
  /\ \E what \in Asks[r] : ask' = [ask EXCEPT ![r] = what]
  /\ Go(r, "sent")
  /\ inbox' = [inbox EXCEPT ![ClientOf[r]] = Append(@, r)]
  /\ UNCHANGED <<poolVars, conn, owner, closed, fileVars, disturbed, client_fd, range,
                 offset, code, stream>>

(* The client closes the connection, or its sending side only.             *)
client_leave(c) ==
  /\ Running
  /\ conn[c] = "open"
  /\ conn' = [conn EXCEPT ![c] = "gone"]
  /\ UNCHANGED <<poolVars, inbox, owner, closed, ask, fileVars, disturbed, workVars, stream>>

file_changes ==
  /\ Running
  /\ changes < MaxChanges
  /\ linked
  /\ changes' = changes + 1
  /\ \/ fileSize' \in Sizes \ {fileSize} /\ UNCHANGED linked
     \/ linked' = FALSE /\ UNCHANGED fileSize
  /\ disturbed' = disturbed \cup AtBusy
  /\ UNCHANGED <<poolVars, connVars, ask, workVars, stream>>

-----------------------------------------------------------------------------
(* The reactor.                                                            *)

LowestFree(fd) ==
  owner[fd] = None /\ \A other \in Fds : owner[other] = None => fd <= other

(* A connection is accepted and gets a descriptor.                         *)
accept_client(c) ==
  /\ Running
  /\ conn[c] = "new"
  /\ \E fd \in Fds : LowestFree(fd) /\ owner' = [owner EXCEPT ![fd] = c]
  /\ conn' = [conn EXCEPT ![c] = "open"]
  /\ UNCHANGED <<poolVars, inbox, closed, ask, fileVars, disturbed, workVars, stream>>

(* EPOLLRDHUP: the descriptor is closed, with whatever the client had sent *)
(* and whatever the workers still have to send.                            *)
close_client(fd) ==
  /\ Running
  /\ owner[fd] # None /\ conn[owner[fd]] = "gone"
  /\ closed' = closed \cup {owner[fd]}
  /\ owner' = [owner EXCEPT ![fd] = None]
  /\ inbox' = [inbox EXCEPT ![owner[fd]] = <<>>]
  /\ UNCHANGED <<poolVars, conn, ask, fileVars, disturbed, workVars, stream>>

(* There is nobody at the other end of a descriptor.                       *)
Broken(fd) == IF owner[fd] = None THEN TRUE ELSE conn[owner[fd]] = "gone"

WriteSome(fd, pieces) == stream' = [stream EXCEPT ![owner[fd]] = @ \o pieces]

(* What a write to a descriptor does: it reaches the connection that the   *)
(* descriptor names now, unless there is none or its peer went away.       *)
WriteTo(fd, pieces) ==
  \/ owner[fd] # None /\ WriteSome(fd, pieces)
  \/ Broken(fd) /\ UNCHANGED stream

Page(r, what) == <<[of |-> r, what |-> what, pos |-> 0]>>

(* The system does not do for a request what it could.                     *)
Disturb(r) == disturbed' = disturbed \cup {r}

(* A header or a page is sent whole, or only a part of it when the retries *)
(* are used up or send fails.                                              *)
send_data_nonblock(r, fd, what) ==
  \/ WriteTo(fd, Page(r, what)) /\ UNCHANGED disturbed
  \/ WriteTo(fd, Page(r, "cut")) /\ Disturb(r)

(* recv_with_eof reads on past the end of a request when the next one is   *)
(* there already: the two become one, with the path of the first and the   *)
(* lines of both.  (The reactor reads on before it does anything else.)    *)
recv_past_end(fd) ==
  /\ Running
  /\ owner[fd] # None /\ Len(inbox[owner[fd]]) > 1
  /\ LET r    == Head(inbox[owner[fd]])
         next == Head(Tail(inbox[owner[fd]]))
     IN  /\ inbox' = [inbox EXCEPT ![owner[fd]] = <<r>> \o Tail(Tail(@))]
         /\ ask' = [ask EXCEPT ![r].lines = @ \o ask[next].lines]
  /\ UNCHANGED <<poolVars, conn, owner, closed, fileVars, disturbed, workVars, stream>>

msgKeeps == <<conn, owner, closed, ask, fileVars, range, offset, code>>

(* A mutated HttpRequest that does not initialise client_fd.               *)
deal_client_msg_anyfd(fd) ==
  /\ Running
  /\ owner[fd] # None /\ inbox[owner[fd]] # <<>>
  /\ LET r == Head(inbox[owner[fd]])
     IN  /\ inbox' = [inbox EXCEPT ![owner[fd]] = Tail(@)]
         /\ \E any \in Fds : client_fd' = [client_fd EXCEPT ![r] = any]
         /\ Submit(r) /\ Go(r, "queued") /\ UNCHANGED <<stream, disturbed>>
  /\ UNCHANGED msgKeeps

(* Read one request and queue it, or reply with an error at once, from the *)
(* reactor's thread, when it has no proper path or when recv_with_eof      *)
(* throws because recv failed or the header is too long.                   *)
deal_client_msg(fd) ==
  /\ Running
  /\ owner[fd] # None /\ inbox[owner[fd]] # <<>>
  /\ LET r == Head(inbox[owner[fd]])
     IN  /\ inbox' = [inbox EXCEPT ![owner[fd]] = Tail(@)]
         /\ client_fd' = [client_fd EXCEPT ![r] = fd]
         /\ \/ \E err \in {"400", "500"} :
                 /\ err = "400" => ask[r].path = "garbled"
                 /\ Refuse(r) /\ Go(r, "done") /\ send_data_nonblock(r, fd, err)
            \/ /\ ask[r].path # "garbled"
               /\ Submit(r) /\ Go(r, "queued") /\ UNCHANGED <<stream, disturbed>>
  /\ UNCHANGED msgKeeps

-----------------------------------------------------------------------------
(* A worker and the request it took: handle_full_file_request and          *)
(* handle_range_request are the same but for the range.                    *)

workKeeps == <<connVars, ask, fileVars, client_fd>>
calmKeeps == <<workKeeps, disturbed>>

take_request ==
  /\ Running
  /\ Take
  /\ Go(Head(queue), "validate")
  /\ UNCHANGED <<calmKeeps, range, offset, code, stream>>

(* The try block is left by an exception that is caught and replied to.    *)
Fail(r, err) ==
  /\ Go(r, "error")
  /\ code' = [code EXCEPT ![r] = err]
  /\ UNCHANGED <<poolVars, range, offset, stream>>

Proceed(r, point) == Go(r, point) /\ UNCHANGED <<poolVars, range, offset, code, stream>>

(* The process ends by an exception that nobody catches.                   *)
Terminate == Die /\ UNCHANGED <<at, range, offset, code, stream>>

(* weakly_canonical throws std::filesystem::filesystem_error for a name    *)
(* that is too long, or that vanishes between its looks at it.             *)
validate_file(r) ==
  /\ Running /\ at[r] = "validate"
  /\ IF ask[r].path = "toolong" THEN Terminate
     ELSE IF ask[r].path = "outside" THEN Fail(r, "403")
     ELSE IF ~linked THEN Fail(r, "404") \/ Terminate
     ELSE Proceed(r, "stat")
  /\ UNCHANGED calmKeeps

(* Announce bytes of the file, as large as it is now.                      *)
AnnounceUpTo(r, s, e) ==
  /\ Go(r, "header")
  /\ range' = [range EXCEPT ![r] = [start |-> s, end |-> e]]
  /\ offset' = [offset EXCEPT ![r] = s]
  /\ UNCHANGED <<poolVars, code, stream>>

(* A mutated announcement that takes the end of a range for exclusive.     *)
Announce_exclusive(r, s, e) == AnnounceUpTo(r, s, e + 1)

Announce(r, s, e) == AnnounceUpTo(r, s, e)

(* stat, and for a range request parse_ranges and the checks of its first  *)
(* range; std::stoll's exceptions end the process.                         *)
stat_file(r) ==
  /\ Running /\ at[r] = "stat"
  /\ \E any \in Offs :
       LET pieces == range_header(ask[r].lines)
           first  == parse_range(pieces[FirstKept(pieces, fileSize)], fileSize, any)
       IN  IF ~linked THEN Fail(r, "404")
           ELSE IF ~is_range_request(ask[r].lines) THEN Announce(r, 0, fileSize - 1)
           ELSE IF Throws(pieces) THEN Terminate
           ELSE IF Kept(pieces, fileSize) = {} THEN Fail(r, "400")
           ELSE IF ~Valid(first, fileSize) THEN Fail(r, "400")
           ELSE Announce(r, first.start, first.end)
  /\ UNCHANGED calmKeeps

(* send_data_nonblock returns, whether it sent the header or gave up.      *)
send_header(r) ==
  /\ Running /\ at[r] = "header"
  /\ send_data_nonblock(r, client_fd[r], "head")
  /\ Go(r, "open")
  /\ UNCHANGED <<poolVars, range, offset, code, workKeeps>>

open_file(r) ==
  /\ Running /\ at[r] = "open"
  /\ IF linked THEN Proceed(r, "sendfile") ELSE Fail(r, "500")
  /\ UNCHANGED calmKeeps

(* open fails although the file is there: EMFILE, ENFILE, ENOMEM, ...      *)
open_refused(r) ==
  /\ Running /\ at[r] = "open"
  /\ Fail(r, "500") /\ Disturb(r)
  /\ UNCHANGED workKeeps

Remaining(r) == range[r].end + 1 - offset[r]

Bytes(r, k) ==
  [i \in 1..k |-> [of |-> r, what |-> "byte", pos |-> offset[r] + i - 1]]

(* One sendfile that sends k bytes and leaves the offset at next.          *)
SendBytes(r, k, next) ==
  /\ offset[r] + k <= fileSize
  /\ owner[client_fd[r]] # None
  /\ WriteSome(client_fd[r], Bytes(r, k))
  /\ offset' = [offset EXCEPT ![r] = next]
  /\ UNCHANGED <<poolVars, at, range, code, calmKeeps>>

Sending(r) == Running /\ at[r] = "sendfile"

(* Mutated loops: one adds to the offset what sendfile has added already,  *)
(* one is content with what the first sendfile sends.                      *)
sendfile_some_twice(r) ==
  Sending(r) /\ \E k \in 1..Remaining(r) :
    SendBytes(r, k, IF 2 * k > Remaining(r) THEN range[r].end + 1 ELSE offset[r] + 2 * k)
sendfile_some_once(r) ==
  Sending(r) /\ \E k \in 1..Remaining(r) : SendBytes(r, k, range[r].end + 1)

sendfile_some(r) ==
  Sending(r) /\ \E k \in 1..Remaining(r) : SendBytes(r, k, offset[r] + k)

(* A mutated loop that goes on when there is nothing left to send.         *)
sendfile_none_continues(r) ==
  /\ Sending(r)
  /\ Remaining(r) > 0 /\ offset[r] >= fileSize
  /\ UNCHANGED vars

(* sendfile returns 0: the file has become too short.                      *)
sendfile_none(r) ==
  /\ Sending(r)
  /\ Remaining(r) > 0 /\ offset[r] >= fileSize
  /\ Fail(r, "500")
  /\ UNCHANGED calmKeeps

(* sendfile fails: the descriptor is closed, or the peer is gone; in the   *)
(* second case the kernel may also raise SIGPIPE, which nobody handles.    *)
sendfile_failed(r) ==
  /\ Sending(r)
  /\ Remaining(r) > 0
  /\ Broken(client_fd[r])
  /\ \/ Fail(r, "500")
     \/ owner[client_fd[r]] # None /\ Terminate
  /\ UNCHANGED calmKeeps

(* sendfile fails although neither is the case: EIO, ENOMEM, ...           *)
sendfile_refused(r) ==
  /\ Sending(r)
  /\ Remaining(r) > 0
  /\ Fail(r, "500") /\ Disturb(r)
  /\ UNCHANGED workKeeps

sendfile_done(r) ==
  /\ Sending(r)
  /\ Remaining(r) <= 0
  /\ Finish(r)
  /\ Go(r, "done")
  /\ UNCHANGED <<range, offset, code, stream, calmKeeps>>

reply_error(r) ==
  /\ Running /\ at[r] = "error"
  /\ send_data_nonblock(r, client_fd[r], code[r])
  /\ Finish(r)
  /\ Go(r, "done")
  /\ UNCHANGED <<range, offset, code, workKeeps>>

-----------------------------------------------------------------------------
handle_request(r) ==
  \/ validate_file(r) \/ stat_file(r) \/ send_header(r) \/ open_file(r)
  \/ sendfile_some(r) \/ sendfile_none(r) \/ sendfile_failed(r) \/ sendfile_done(r)
  \/ reply_error(r)

system_refuses(r) == open_refused(r) \/ sendfile_refused(r)

Next ==
  \/ \E r \in Requests : client_send(r) \/ handle_request(r) \/ system_refuses(r)
  \/ \E c \in Conns : client_leave(c) \/ accept_client(c)
  \/ \E fd \in Fds : close_client(fd) \/ recv_past_end(fd) \/ deal_client_msg(fd)
  \/ take_request \/ file_changes

Spec == Init /\ [][Next]_vars

(* A worker in sendfile whose descriptor names the connection of a client  *)
(* that does not read: EAGAIN is retried without a limit.                  *)
Hindered(r) ==
  at[r] = "sendfile" /\
    \E q \in Stalled : owner[client_fd[r]] = ClientOf[q] /\ conn[ClientOf[q]] = "open"

(* Workers run, but for those that wait for a client to read.  Whether     *)
(* clients send, read, stay or leave is theirs to decide, and no worker is *)
(* helped out by a call that the system refuses.                           *)
FairSpec ==
  /\ Spec
  /\ WF_vars(take_request)
  /\ \A r \in Requests : WF_vars(~Hindered(r) /\ handle_request(r))
-----------------------------------------------------------------------------
(* Safety.                                                                 *)

(* Where on a connection the pieces written for a request are.             *)
On(r, c) == {i \in 1..Len(stream[c]) : stream[c][i].of = r}

(* Where the bytes of the file went that were sent for a request.          *)
Places == UNION {{c} \X (1..Len(stream[c])) : c \in Conns}
WrittenAt(p) == stream[p[1]][p[2]]
PosAt(p) == WrittenAt(p).pos
BytePlaces(r) ==
  {p \in Places : WrittenAt(p).of = r /\ WrittenAt(p).what = "byte"}

(* Of the announced bytes exactly those up to the offset were sent, each   *)
(* once and in order, whatever pieces sendfile made of them and whatever   *)
(* became of the file and the connection (tcp_public.cpp:213-246, the      *)
(* offset that sendfile moves itself).                                     *)
BytesOnce ==
  \A r \in Requests :
    /\ {PosAt(p) : p \in BytePlaces(r)} = range[r].start..(offset[r] - 1)
    /\ offset[r] - 1 <= range[r].end
    /\ \A p, q \in BytePlaces(r) :
         /\ PosAt(p) = PosAt(q) => p = q
         /\ p[1] = q[1] /\ p[2] < q[2] => PosAt(p) < PosAt(q)

(* A request remembers only a descriptor number.  Nothing of its response  *)
(* reaches another connection unless its own was closed by the reactor     *)
(* before it was answered (http_server.cpp:178-183 and 218-222 against     *)
(* tcp_server.cpp:203-208).                                                *)
OnlyOwnAnswers ==
  \A c \in Conns, r \in Requests :
    On(r, c) # {} /\ ClientOf[r] # c => ClientOf[r] \in closed

(* The pieces of a response on the connection that it belongs to, and that *)
(* they are a header and behind it nothing but bytes of the file.          *)
Response(r) == On(r, ClientOf[r])
PieceOf(r, i) == stream[ClientOf[r]][i]

Alone(r, whats) ==
  \E first \in Response(r) : Response(r) = {first} /\ PieceOf(r, first).what \in whats

Headed(r) ==
  \E first \in Response(r) :
    /\ PieceOf(r, first).what = "head"
    /\ \A i \in Response(r) \ {first} : first < i /\ PieceOf(r, i).what = "byte"

(* If the client stays, the file did not change while the request was      *)
(* handled, and the system refused nothing (open and sendfile did not      *)
(* fail, no header or page was cut short), the response is one error page  *)
(* and nothing else, or a whole header and then just the bytes that it     *)
(* announces (in order and each once, by BytesOnce): no page after a       *)
(* header, no body that stops short (http_server.cpp:141-190, 199-229).    *)
SteadyComplete ==
  \A r \in Requests \ disturbed :
    at[r] = "done" /\ conn[ClientOf[r]] = "open" =>
      \/ Alone(r, Codes)
      \/ /\ Headed(r)
         /\ {PieceOf(r, i).pos : i \in {j \in Response(r) : PieceOf(r, j).what = "byte"}}
              = range[r].start..range[r].end

(* The pieces of a Range header that ask for some byte of the file.        *)
Satisfiable(pieces) == {i \in 1..Len(pieces) : Asked(pieces[i], fileSize) # {}}

(* Unless another line with "Range:" in it comes first, a range response   *)
(* announces just the bytes that the first satisfiable piece of the Range  *)
(* line asks for, clamped to the file as it was when it was looked at; and *)
(* such a request for a file is refused only if no piece is satisfiable or *)
(* an earlier one is an empty suffix (http_request.cpp:69-152,             *)
(* http_server.cpp:153-167).  Of a header with a suffix that overflows     *)
(* line 107 it says nothing of what is announced.                          *)
RangeStep(r) ==
  at[r] = "stat" /\ Plain(ask[r].lines) /\ linked =>
    LET pieces == MeantPieces(ask[r].lines)
        some   == Satisfiable(pieces)
    IN  /\ at'[r] = "header" /\ (\A i \in 1..Len(pieces) : ~Overflows(pieces[i], fileSize)) =>
             /\ some # {}
             /\ range'[r].start..range'[r].end = Asked(pieces[FirstOf(some)], fileSize)
        /\ at'[r] = "error" /\ some # {} =>
             \E i \in 1..(FirstOf(some) - 1) :
               pieces[i].form = "suffix" /\ Asked(pieces[i], fileSize) = {}

RangeAsAsked == [][\A r \in Requests : RangeStep(r)]_vars

(* What the proof of RangeAsAsked needs to know of every state: what is    *)
(* read, queued or handled is a request that somebody made.                *)
Known == {r \in Requests : ask[r] \in AskRecords}

Shape ==
  /\ ask \in [Requests -> AskRecords \cup {None}]
  /\ owner \in [Fds -> Conns \cup {None}]
  /\ inbox \in [Conns -> Seq(Known)]
  /\ queue \in Seq(Known)
  /\ at \in [Requests -> Points]
  /\ \A r \in Requests : at[r] \in Busy => r \in Known
  /\ DOMAIN range = Requests
  /\ fileSize \in 0..MaxSize

(* And what the proofs of the others need: each request is in one place,   *)
Whereabouts ==
  /\ \A r \in Requests :
       /\ at[r] = "queued" <=> r \in QueuedIn(queue)
       /\ at[r] \in Busy <=> r \in inflight
       /\ at[r] = "done" <=> r \in answered
  /\ \A i, j \in 1..Len(queue) : queue[i] = queue[j] => i = j
  /\ \A c \in Conns : \A i \in 1..Len(inbox[c]) :
       /\ at[inbox[c][i]] = "sent"
       /\ ClientOf[inbox[c][i]] = c
       /\ \A j \in 1..Len(inbox[c]) : inbox[c][i] = inbox[c][j] => i = j

(* each connection has one descriptor as long as it is not closed,         *)
Homes ==
  /\ \A fd, other \in Fds : owner[fd] = owner[other] /\ owner[fd] # None => fd = other
  /\ \A fd \in Fds :
       owner[fd] # None => conn[owner[fd]] # "new" /\ owner[fd] \notin closed
  /\ \A c \in Conns : conn[c] = "open" => \E fd \in Fds : owner[fd] = c
  /\ \A c \in closed : conn[c] = "gone"
  /\ \A r \in Requests : conn[ClientOf[r]] = "new" => at[r] = "unsent"

(* a request remembers the descriptor of its client, who may be gone,      *)
Remembered ==
  \A r \in Requests : at[r] \in Busy \cup {"queued"} =>
    /\ client_fd[r] \in Fds
    /\ owner[client_fd[r]] = ClientOf[r] \/ ClientOf[r] \in closed

(* nothing is written before the header, and the offset starts with the    *)
(* range,                                                                  *)
Unwritten == {"unsent", "sent", "queued", "validate", "stat", "header"}

NothingEarly ==
  \A r \in Requests :
    /\ at[r] \in Unwritten => \A c \in Conns : On(r, c) = {}
    /\ range[r].start <= offset[r]
    /\ at[r] = "error" => code[r] \in Codes

(* and how far the response is of a request that is not disturbed.         *)
Steady ==
  \A r \in Requests \ disturbed :
    /\ at[r] \in {"stat", "header", "open", "sendfile"} => linked
    /\ at[r] \in {"header", "open", "sendfile"} => range[r].end < fileSize
    /\ conn[ClientOf[r]] = "open" =>
         /\ at[r] = "error" => Response(r) = {}
         /\ at[r] \in {"open", "sendfile"} => Headed(r)

IInv ==
  /\ Shape /\ TypeOK /\ Whereabouts /\ Homes /\ Remembered
  /\ NothingEarly /\ OnlyOwnAnswers /\ BytesOnce /\ Steady /\ SteadyComplete

-----------------------------------------------------------------------------
(* Liveness.                                                               *)

(* A queued request is dealt with to the end, whatever happens to the file *)
(* and to the connection, unless the process ends, or sendfile waits for a *)
(* client that does not read: for the request itself, or for others in all *)
(* workers at once (tcp_public.cpp:217-253).                               *)
Responded ==
  \A r \in Requests :
    (at[r] = "queued") ~>
      \/ at[r] = "done" \/ ~Running
      \/ Hindered(r)
      \/ Cardinality({q \in Requests : Hindered(q)}) = Capacity

-----------------------------------------------------------------------------
(* A client that goes away is an error of that client's connection only,   *)
(* and does not end the server: it ends, if at all, while a worker makes   *)
(* out what a request asks for (tcp_public.cpp:119-127).                   *)
SurvivesClients == state = "dead" => \E r \in Requests : at[r] \in {"validate", "stat"}
=============================================================================
