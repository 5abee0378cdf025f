# Specifications of tcp_example

TLA+ models of the epoll TCP server, its HTTP server, its message protocol and its
`select` predecessor, checked with TLC and, where marked, proved with TLAPS. Paths are relative to the
repository's root.

- [The system](#the-system): what there is to model
- [The modules](#the-modules): how state and actions correspond to the code
- [The runs](#the-runs): what TLC checks, with which bounds
- [Fairness](#fairness)
- [The proofs](#the-proofs)
- [Where code and text disagree](#where-code-and-text-disagree)
- [Not modelled](#not-modelled) and [Plan](#plan)

To check: `tlc -config TcpServer_scarce.cfg MCTcpServer` (a cfg `X_y.cfg` belongs
to `MCX.tla`), `tlapm TcpServer_proofs.tla`.

## The system

One process is one **reactor thread** (`main` calls `listen_loop()` for ever). The
HTTP server adds **worker threads**. Components and what each is for:

| component | code | state | operations |
|---|---|---|---|
| TcpServer | `src/tcp_server.cpp` | `listen_fd`, `epoll_fd`, the local `event[]`; in the kernel: listen queue, descriptor table, interest and ready lists | constructor, `listen_loop`, `accept_new_client`, `close_client`, `deal_client_msg`, destructor |
| message protocol | `src/tcp_public.cpp`, `tcp_client_v2.cpp` | buffers, remaining sizes, retry counters | `construct_message`, `send_data_nonblock`, `recv_data_nonblock` |
| worker pool | `src/http_server.cpp` | `request_queue`, `queue_mutex`, `queue_cv`, `stop_flag`, `worker_threads` | constructor, `deal_client_msg`, `process_requests`, `stop`, signal handler |
| HTTP responses | `src/http_server.cpp`, `src/tcp_public.cpp` | a request's descriptor, ranges and offset; the file on disk | `handle_request`, `handle_full_file_request`, `handle_range_request`, `validate_file`, `sendfile_nonblock`, error replies |
| HttpRequest | `src/http_request.cpp` | path, flag, ranges | `extract_path`, `parse_range_header`, `parse_ranges` |
| TcpClient | `src/tcp_client.cpp`, `tcp_client_v2.cpp` | one socket | constructor, destructor, `main` |
| recv_with_eof | `src/tcp_public.cpp` | a buffer for each call | reads a header up to its terminator |
| send_data_epoll | `src/tcp_public.cpp` | an epoll instance for each call | sends a message, waiting for `EPOLLOUT` |
| select server (version 1) | `tcp_server_v1.c` | `g_listenSocket`, the array `g_clientSocket` of 16 slots, the local `fd_set` | `create_socket`, `accept_connection`, `accept_select` |
| C client (version 1) | `tcp_client_v1.c` | one socket | blocking connect and send |
| logging, tests | `src/tcp_public.cpp`, `test/` | | |

How they interact:

- A peer's connection enters the kernel's listen queue. The listening socket is
  *edge*-triggered: it is reported once, and `accept_new_client` must empty the
  queue. Clients are *level*-triggered, `EPOLLIN | EPOLLRDHUP`.
- `listen_loop` gets a batch of events and handles it in the kernel's order;
  a descriptor closed for one entry can come back from `accept4` for the next.
- `HttpServer` overrides `deal_client_msg`: the reactor reads and parses the header,
  pushes the request, and notifies. Workers and reactor share the queue, the
  condition variable, `stop_flag`, *and the descriptors*: a request is bound to
  its client by a number only, which the reactor may close while a worker writes.
- `recv_with_eof` runs on the reactor thread and cuts a connection's byte stream into
  requests. Nothing is kept between its calls.
- All socket I/O is non-blocking with retries; some retry loops have a limit after
  which the function returns normally, some have none.

What is hard, by component, and so what correctness means:

- **TcpServer**: stale entries in a batch; descriptors and epoll watches that run
  out between `accept4` and `epoll_ctl`; edges lost with connections still queued;
  every open connection must be in the interest list exactly once, only
  connections whose peer left are closed, every queued connection is accepted and
  every client that keeps sending keeps being read.
- **Message protocol**: partial sends and receives, `EAGAIN` retries, lengths that
  wrap at 16 bits, zero-length reads. Messages come out as they went in; calls
  return; bytes are neither lost nor counted twice.
- **Worker pool**: a notification between test and wait, `notify_one` after unlock,
  shutdown, exceptions that leave a thread. Each request is handled once and in
  order, no worker idles beside a queued request, `stop()` returns.
- **HTTP responses**: the time between `validate_file`, `stat`, `open` and
  `sendfile`, a file that changes in it, descriptors reused in it, error pages
  after a header. The body is what was announced, sent once, to the right client.
- **HttpRequest**: boundaries of range arithmetic; exceptions of `std::stoll`; a search
  that finds `Range:` in other lines as well.
- **recv_with_eof**: it reads four bytes at a time and looks at the last four only, so a
  read that goes over the terminator never finds it; `max_size`; no limit on polling.
  Requests come out one by one and whole, whatever pieces they arrive in.
- **send_data_epoll**: waits without a limit, and throws where its sibling returns.
- **Select server**: the first argument of `select` is a number of slots and not of
  descriptors; sockets for which there is no slot leak; the `accept` between `select`
  and the loop over its results. Slots hold different open descriptors, each used
  only for what `select` said of it.

`PROJECT.json` lists the hazards at their lines, with the properties that guard them.

## The modules

```
TcpServer ───── TcpServer_proofs ────┐
HttpServer ──── HttpServer_proofs ───┤
SelectServer ── SelectServer_proofs ─┼── QueueLemmas
MsgStream ───── MsgStream_proofs ────┤
HttpResponse ── HttpResponse_proofs ─┘
                   ResponseSafety_proofs
HeaderReader ── HeaderReader_proofs

RequestPool ◄─ implemented by ─ HttpServer
MsgQueue ◄─ implemented by ─ MsgStream
RequestPool, HttpRequest ◄─ EXTENDS ─ HttpResponse
HttpResponse_proofs ◄─ EXTENDS ─ ResponseSafety_proofs
```

The pool connects the two HTTP modules: `HttpServer` (threads, mutex, condition
variable) implements `RequestPool`, and `HttpResponse` is built on `RequestPool`'s
actions, so it says what happens to requests without a word about threads.

### TcpServer

The reactor and the kernel parts it relies on.

| in the model | in the code |
|---|---|
| `event`, `accepting` | what is left of `event[]` in `listen_loop`; inside `accept_new_client` |
| `backlog`, `edge` | listen queue; listening socket on epoll's ready list |
| `owner`, `watched` | descriptor table (lowest free number first); interest list |
| `epoll_wait` | as many ready events as fit in `MAX_EPOLL_EVENT_SIZE`, one per descriptor; consumes the edge |
| `dispatch_hangup`, `dispatch_error`, `deal_client_msg`, `dispatch_listen` | the branches of the loop over `event[]`, in the order they are tested |
| `accept_client`, `accept_unwatchable`, `accept_drained`, `accept_failed` | one turn of the accept loop: success, `epoll_ctl` fails, `EAGAIN`, `EMFILE` |
| `close_client` | including its refusal of descriptors 0..2 |

`retry_times` in `accept_new_client` is never incremented, so the model has no such
counter. `acceptErr`, `released`, `refused` and the `conn` field of an event are history.
A message is a unit (`inbox` counts them); its bytes are in `MsgStream`. `deal_new_client`
and `deal_close_client` only log in this class.

### MsgQueue and MsgStream

`MsgQueue` is the promise of the default protocol for one connection: texts are queued as they
are typed (`Send`) and delivered in turn (`Deliver`) until the server closes the socket (`Shut`).
The protocol has no way to find back into the frames, so once a call has given up or a text did
not fit its frame (`Break`), all that is left is that nothing delivered changes (`Babble`).
`MsgStream` implements it: the queue is what was typed and not yet received, wherever its bytes
are.

One client and one server over a stream that holds `Capacity` bytes. `connect` is
`TcpClient`'s constructor, `send_message` the frame that `main` builds, and `send_some`,
`send_failed` and `send_retry` are one turn each of the function that sends it: either
`send_data_nonblock`, or `send_data_epoll`, which has the first two alone, since it waits
for room and never counts a timeout. (Nothing in the repository calls it; it
takes the place of the other in the model.) Either process may end at any moment:
`client_close`, `client_exit` and `server_exit`; what is sent to a closed socket is lost, and
the next call fails. On the other side are
the server's `deal_client_msg`, and `recv_some`, `recv_none` and `recv_retry`, its two
calls of `recv_data_nonblock`, with `recv_returns` as what the handler does with
either result. A byte is a number below `Base`, so that `Base * Base` plays the
part of 65536 and the wrap of the `uint16_t` lengths happens on short messages. The
body overwrites the header in `buf`, as in the code; `logged` is what `%s` then prints.

### HeaderReader

`HttpServer::deal_client_msg` and its call of `recv_with_eof`, on several connections but one
thread: while `current` is set, nothing else of `listen_loop` can happen. A client's stream is
the sequence of positions at which its requests end (the program looks for nothing else in
it), and bytes are known by their positions: `arrived` is how far the kernel has got, `taken`
how far the server has read, `start` where the buffer of this call begins. `recv_some` is
one `recv` of up to `EOF_LEN` bytes with the three ways the loop goes on; `recv_none` is a
`recv` that returns 0 or fails because the peer is gone. A `recv` that fails with `EAGAIN`
changes nothing. `heads`, `failed` and `pipelined` are history: what was returned, which
calls threw, and which clients wrote on before their last request was taken.

### RequestPool and HttpServer

`RequestPool` is the abstract specification: refuse or queue, take in order, at most
`Capacity` in flight, close, die. `HttpServer` has one action for each stretch of code
between two points where other threads can see something. A worker goes
`loop → lock → locked → handle`, or `→ dozing → waiting`; *dozing* is the moment
between the false predicate and the release of the mutex inside `wait`. The
mutex is no variable: its holders are the workers `locked` or `dozing`. The
reactor goes `idle → recv → push → notify`, and `stop → join → joined` when the object
is destroyed. Five constants name the requests that need not be answered, each for a
reason of its own: `Silent`, whose header never ends (`recv_with_eof` has no limit);
`Stalled`, whose client never reads (`sendfile_nonblock`'s retry counter is commented
out); `Escaping`, whose handling throws what nobody catches; `Leaving`, whose client
closes the connection, or its sending side only, so that `EPOLLRDHUP` may close it
before the request is read (`close_client`); and `Pipelined`, sent behind another on the
same connection, which `recv_end` may swallow with the one before. `lost` collects
the requests that the last two ways took. `listen_loop` is the reactor's turn of the
loop over its events.

### HttpRequest and HttpResponse

`HttpRequest` holds the parser as pure operators. A request is a sequence of lines:
`RangeLines` are those in which the regular expression of `parse_range_header` finds
`Range:`. It is not anchored, so these include lines named `within`, which have the
word inside: `If-Range:`, `X-Range:`, or the request line itself with a path like
`/Range:`. Their value may hold `bytes=` pieces too, and the parser then serves them.
A `Range:` without a value takes the next line's text. `parse_range` is one turn of the loop of
`parse_ranges`; where its signed `off_t` subtraction overflows (`Overflows`) the language
defines nothing, and `Off(n, any)` is whatever value the build produces. The references are
`Meant`, the proper Range lines, and `Asked`, the set of bytes a piece asks for; `Plain`
says that no other line that contains `Range:` comes before the one that is meant.
`HttpResponse` follows requests through the points of `handle_request`: `validate`,
`stat`, `header`, `open`, `sendfile`, `error`. Around them, the reactor accepts,
reads, and closes connections; clients leave; `file_changes` shortens, extends or
unlinks the file. `stream[c]` is everything written to connection `c`; a write goes
to whichever connection owns the descriptor *now*. One call of `sendfile` is one
action, sending any number of bytes up to what is left. MIME types and the
texts of headers are left out; a header or a page is one piece, or one cut short
(`cut`) where `send_data_nonblock` gave up.

The reactor refuses a request with 400 when it has no proper path, and with 500 when
`recv_with_eof` throws, which any request may meet; `recv_past_end` is its reading on
into the next request of the connection, which gives one request with the first's path and
both their lines. Three kinds of exception are caught by nobody and end the process
(`Terminate`): `std::filesystem`'s in `validate_file`, for a name that is too long or a file that vanishes
between two looks at it; `std::stoll`'s in `parse_ranges`; and the signal of `sendfile`.
The system may refuse what the program cannot influence: `open_refused`
(`EMFILE`, `ENFILE`, ...) and `sendfile_refused` (`EIO`, `ENOMEM`, ...). `disturbed` is
history: the requests whose file changed while they were handled, for which the
system refused a call, or of which a header or page was cut. `Hindered` is a worker inside
`sendfile` whose client does not read.

### SelectServer

`tcp_server_v1.c`: `slots` is `g_clientSocket`; one round of `accept_select` is `select`, then
`accept_connection`, `accept_failed` (`EMFILE`) or `no_connection`, then the loop over the slots
with `recv_msg(i)` and `close_client(i)` for those in the set, then `scan_done`. `owner` is the
descriptor table with the lowest free number first, `readFds` the set after `select`,
which looks at descriptors below `NFDS` only and clears the rest. `Store` puts the
descriptor into the first free slot, or nowhere. `seen` is history. A peer is what
`tcp_client_v1.c` does: connect, send, end.

Modules also hold a few operators that their comments call mutated: plausible
bugs, used only to see that each property can fail (`PROJECT.json`, "mutants").

## The runs

| run | cfg | shows |
|---|---|---|
| scarce | `TcpServer_scarce` | `BatchFresh`: no entry goes stale inside a batch. `OnlyHangupsClosed`: only connections whose peer left are closed. `OneHome`: no connection lost, leaked or owned twice. `EdgeOrError`: an edge is lost only when an accept failed |
| served | `TcpServer_served` | queued connections are accepted, busy clients get their turn again and again, descriptors of gone peers come back |
| emfile | `TcpServer_emfile` | *violation* of `NoMissedEdge` |
| pool | `HttpServer_pool` | `EachOnce`, `NoIdleWhileQueued` (no lost wakeup), `MissedOnlyInWindow`; `ImplementsPool` (refinement with fairness) and `Answered` |
| stop | `HttpServer_stop` | *violation* of `StopReturns` |
| header | `HeaderReader_header` | `HeadsWhole`: requests are returned one by one and whole. `ThrowsForCause`: a call throws only for pipelining, excess length or a peer that left. `OverrunBounded`: the buffer passes `max_size` by less than a terminator. `HeadsReturned`: only a header that stays incomplete keeps the reactor |
| files | `HttpResponse_files` | `BytesOnce`, `OnlyOwnAnswers`, `SteadyComplete` with two requests, a changing file, a system that may refuse, and reused descriptors; `Responded` beside a client that does not read |
| ranges | `HttpResponse_ranges` | `RangeAsAsked` at every boundary, for every order of lines, with `bytes=` behind other lines' `Range:`, and with a second request that is read as part of the first |
| leave | `HttpResponse_leave` | *violation* of `SurvivesClients` |
| delivery | `MsgStream_delivery` | `ReceivedInOrder`, `BytesInTransit`, `LoggedIsBody`; `ImplementsQueue` (refinement); both calls return, what is typed arrives |
| giveup | `MsgStream_giveup` | *violation* of `ReturnsWhenDone` |
| select | `SelectServer_select` | `SlotsOpen`, `ReadyFresh`, `LeaksStayAbove`, `UnheardForEver`; clients on low descriptors are read again and again, released, and queued ones accepted while descriptors last |

Bounds, and why they are enough:

- `scarce`: three connections for two descriptors, so that one waits while others are
  closed and their descriptors reused within a batch of two; one descriptor is
  number 2, which `close_client` refuses (a server started without stdio), so that
  this branch is taken; a queue of two, so that a drain takes several turns.
- `served`: three descriptors suffice for two connections. A server that is out of
  descriptors serves nobody new, and `emfile` shows what it then loses. With
  batches of one there is always more ready than fits.
- `pool`: three workers are one to work, one to doze and one to wait; four requests
  include each kind: one that is answered; `Silent`; `Stalled`, which is also `Pipelined`;
  `Escaping`, which is also `Leaving`. Two of the workers are left when the stalled client
  keeps one.
- `header`: terminators of three bytes, requests that end at positions 4 and 9 (both in
  the middle of a read, the second one within reach of the first) or at 7, beyond the
  `MAX_SIZE` of six. Arrivals cut the streams anywhere, so reads of one, two and
  three bytes occur at each position. Two connections: one can keep the thread from the other.
- `files`: two of everything that can be confused (connections, requests, descriptors);
  a file of up to two bytes has a partial `sendfile`; one change is enough to fall
  between any two system calls. One client asks for the whole file, the other from its
  second byte on, which a file of a single byte has not; the second client does
  not read. `ranges`: two requests of one connection, because the first may swallow the
  second; with `off_t` of three bits
  (-4..3) against sizes 0..2, so both sides of every comparison, an empty file and
  the overflow of `file_size - (-4)`, with every value it may give, occur.
- `delivery`: 16 stands for 65536; bodies of 0, 1, 3, 14 and 15 bytes give an empty body, one
  shorter than a header, an ordinary one, and lengths that wrap to 0 and 1; a stream of three bytes is
  shorter than most frames, so every send is partial.
- `select`: with the listening socket at 1 and two slots, `select` looks at descriptor 2 and not
  at 3, which has the second slot, and 4 can only leak. Four connections use up all
  three, so each of `accept`'s outcomes occurs, and closed descriptors are reused.
  One `recv` takes all that is there (`RECV_BUF_SIZE` 2, `MAX_UNREAD` 1), so in this run
  `ServedAgain` only says that whoever sends is heard at last; that the rest left by a
  `recv` disturbs no invariant is covered by the proofs.

`TcpServer`'s `MAX_MSGS`, `SelectServer`'s `MAX_UNREAD`, `MsgStream`'s `MaxSends`, and `HttpResponse`'s `MaxSize` and
`MaxChanges` are bounds of the models and appear in guards; so do the finite sets of
connections, requests and streams, each used at most once. Every other constant is one of
the code. `CHECK_DEADLOCK FALSE` because each of these systems may rest: peers need not
come back, the object may be destroyed, the process may end.

## Fairness

Fairness is assumed of threads and of the kernel, never of peers, users, file
writers or whoever destroys the server.

- **TcpServer**: `WF(listen_loop)`, because `main` calls it in an endless loop. `SF` of the
  wait that reports a given descriptor: epoll's ready list is a queue, and what did
  not fit is reported before what became ready again. Without it a busy client could
  be reported for ever in a batch of one.
- **HttpServer**: `WF` for each worker, the reactor, `stop()` and construction: threads of a live
  process run. `<>[]` no spurious wakeups: a condition variable may wake for no reason
  at any time, not for ever; a worker doing nothing else could keep the mutex,
  which is unfair, from the others.
- **RequestPool**: an open pool takes what it can; requests that are not stalled finish.
- **HttpResponse**: `WF` for `take_request` and for each request's handling, but for
  that of a `Hindered` request: `sendfile_nonblock` retries `EAGAIN` without a limit, so a
  worker whose client does not read may stay there for ever. `Responded` excuses that
  request, and the others only when every worker is so kept. It gets no help from
  `system_refuses`, which has no fairness.
- **MsgStream**: `WF` of both calls and of the reactor; they wait for nothing but time, except
  that `send_data_epoll` waits for room as well. That room comes rests on the server: it
  is a process of this program, whose reactor reads on or which ends. `CallsReturn`
  is in this respect a property of the two processes together, not of the call. The
  stream is a plain queue, as TCP provides.
- **HeaderReader**: `WF(listen_loop)`, as above. Clients need not complete a header:
  `HeadsReturned` assumes `[]<>~Starved` in its own statement, since the code guarantees
  nothing otherwise.
- **SelectServer**: `WF(accept_select)`, the endless loop of `main`. `select` reports
  everything that is ready below `NFDS` at once, so no fairness among clients is needed.

## The proofs

For every value of the constants under the named assumptions (`ConstantsAssumption`,
`ServerAssumption`, `ReaderAssumption`, `ResponseAssumption`, `OffAssumption`,
`SelectAssumption`, `StreamAssumption`): any number of connections, descriptors, workers, slots and requests.
They demand no more than sizes and kinds (a byte has at least four values), with two
exceptions that say what they model:
a request is at least as long as its terminator, so that terminators do not
overlap; and the listening socket is one that `select` looks at
(`listen_fd <= MAX_CLIENT_NUM`).

**TcpServer_proofs**: `Spec => []IInv`, and from it `TypeCorrect`, `BatchAlwaysFresh`,
`NoLiveClientClosed`, `EveryConnectionHasOneHome`, `EdgeLostOnlyByError`. None of the
invariants is inductive alone. That closing a descriptor harms no other entry needs that
there is one entry for each descriptor (`BatchFresh`), that `accept4` returns descriptors
outside `watched` and the batch only names those inside (`OneHome`), and that the
event mask is still true of the peer (`MaskHolds`). `AtRest` says that there is nothing
to dispatch or accept outside the object's life. One lemma for each conjunct, one
step for each action that can disturb it.

**HttpServer_proofs**: `Spec => []IInv`, and from it `TypeCorrect`, `EachRequestOnce`,
`NoLostWakeup`, `OnlyWindowIsMissed`. `NoIdleWhileQueued` is a counting argument: a push
adds one to the queue and a notification on its way; a notification makes one
more worker awake if one waits. It needs `MutexInv`: while a worker dozes the
queue is empty, because a push needs the mutex. `ServerImplementsPool` is the refinement:
each step of the threads is a step or a stutter of `RequestPool`. `RoomToTake` shows
with the cardinality theorems that a worker about to take leaves fewer in flight than
there are workers. `lost` is apart from all the places a request can be held in
(`LostStep`): what `EPOLLRDHUP` or a swallowing read took was never in the pool.

**HeaderReader_proofs**: `Spec => []IInv`, and from it `TypeCorrect`,
`RequestsReturnedWhole`, `NoThrowWithoutCause` and `OverrunIsBounded`, for every length of the
terminator, every `max_size` and every set of streams. The heart is `NextRequest`: a client
that does not pipeline has written no byte beyond the request being read (`NotAhead`), so a
read cannot go over its terminator, and a buffer that begins where the last request
ended (`Adjoined`) and has not reached `max_size` (`ReadSoFar`) ends at the next one or goes on.
For the others, strings adjoin because a call that returns leaves nothing read.

**SelectServer_proofs**: `Spec => []IInv`, and from it `TypeCorrect`, `SlotsAlwaysOpen`,
`LeaksAlwaysAbove`, `ReadyAlwaysFresh` and `UnheardStays`. That leaked descriptors stay above
those in slots although numbers are reused is a counting argument (`AcceptedFd`): the open
descriptors among the lowest `MAX_CLIENT_NUM` are just those in slots, so if a slot is free, so
is one of these descriptors, and the kernel's lowest is among them; if none is free, they are all
taken. Both halves are the pigeonhole principle. `ReadyFresh` needs that the descriptor
which `accept` returns was not in the set (`SetFilled`: the set names open ones), and that a
slot emptied by the loop is behind it. `UnheardStays` is an action theorem from the
same invariant: what the loop reads or closes is below `NFDS`.

**QueueLemmas**: what `Append` and `Tail` do to a queue and to the set of its elements, and
that a set of indices has a least one, shared by the modules with queues.

**HttpResponse_proofs**: `RangesAnswered`, `Spec => RangeAsAsked`. The parser lemmas compare
`parse_range` with the reference `Asked` for every piece, file size and width of `off_t`:
a kept and valid range is what was asked unless the subtraction overflowed (`ValidIsAsked`), a
dropped piece asks for nothing (`DroppedAsksNothing`), an invalid one is an empty suffix
(`InvalidIsEmptySuffix`). Whether a piece is kept does not depend on the value that an overflow
produces (`KeptAnyhow`), so the theorem holds for all of them; what is announced after an
overflow is excepted. Requests consist of any lines whatever, with `bytes=` behind any `Range:` in
them. `FoundLine` shows that the line which the parser finds is the one that was meant
under `Plain`, and only then: of other headers the theorem says nothing. `Shape` is the invariant that links the lemmas to the state, also for a request that
has swallowed others (`recv_past_end`).

**ResponseSafety_proofs**: `Spec => []IInv`, and from it `ResponseTypes`, `AnswersGoHome`,
`EachByteOnce` and `SteadyResponsesComplete`, for any number of clients, requests, workers and
descriptors. The three invariants speak of what a connection received, and a worker knows
only a number; so `IInv` adds what links the two. `Whereabouts`: a request is in one place,
with its client, in the queue or with one worker. `Homes`: a connection has one descriptor
until it is closed, and an open one has it still. `Remembered`: the `client_fd` of a request is
owned by the connection that sent it, or that connection was closed, and then the number may be
anybody's, which is why `OnlyOwnAnswers` and `SteadyComplete` except connections that were closed.
`NothingEarly`: nothing is written of a request before its header. `Steady`: who is not
`disturbed` has ranges within the file, and has sent a whole header by the time it opens it.
The step lemmas go request by request: a write appends pieces of its own request alone, to the
stream of whoever owns the descriptor, so what any other request wrote stays as it was, and its
own bytes come in order (`StepSound`). Nothing is assumed of the file, which may change between
any two calls, nor of the system, which may fail `open` and `sendfile` at will and cut any
header or page: `SteadyComplete` speaks of those requests for which neither happened. For the
others a 500 page may follow a header or part of a body, which is what the code does.

**MsgStream_proofs**: `Spec => []IInv`, and from it `StreamTypes`, `MessagesInOrder`,
`NoByteLost`, `LogShowsBodies` and `StreamImplementsQueue`, for every number of byte values, capacity, retry limit, and
number and lengths of texts. `Buffers` holds whatever is given up: how much a call has and
still wants is what its message says. `Aligned` is the heart: the bytes between the two sides,
read from the server's buffer to the client's (`Pending`), are the frames of the texts not yet
received, one after the other. Moving bytes from a buffer to the next leaves `Pending` as
it is, by associativity (`Regroup`); `send_message` adds a frame behind it (`FrameAdded`),
a body that was received whole takes one from its front (`BodyReceived`, `FrameDropped`). The
header is then the length of the text behind it (`HeaderFits`, with the arithmetic of
`WordBytes`), so that the second call asks for just this text, and the string in the log
ends where the text does because `buf` was zeroed (`BodyInBuffer`). Where a frame begins is
a sum over texts: `FrameBytes` counts the places of its bytes as a set, whose cardinality
grows by one frame at a time (`Ends`), and that all of these sets are finite follows from
the first one that would not be (`FramesFinite`), without induction.

`StreamImplementsQueue` is the refinement. A step types a text, takes what is in `buf` for one,
or does neither (`StepKinds`). While nothing is broken the first is `Send`; the second is
`Deliver`, because `ReceivedInOrder` holds behind the step as well, which makes the new body the
head of the queue; and the third is `Shut` or a stutter. A step that breaks the connection is
`Break`, and nothing mends it (`NothingUndone`).

**Only model-checked**: everything temporal beyond invariants and action properties
(`AcceptedEventually`, `ServedAgain`, `ReleasedEventually`, `Released`, `Answered`, `Responded`,
`HeadsReturned`, `CallsReturn`, `AllReceived`, the fairness part of `ImplementsPool`), because
liveness under fairness and `ENABLED` are beyond the prover. Every invariant and action
property that a run checks is a theorem as well.

## Where code and text disagree

1. **emfile.** `accept_new_client` throws when `accept4` fails, with connections still queued on
   an edge-triggered socket. `src/tcp_server.cpp:25-27` says all new input must be
   processed in one event, or events are lost. They are, until another peer connects.
2. **stop.** `stop()` sets `stop_flag` and notifies without the mutex
   (`src/http_server.cpp:72-73`). A worker between predicate and wait misses it, and
   `join` (line 75) never returns. `OnlyWindowIsMissed` proves that this is the only
   window.
3. **giveup.** After the last retry, `send_data_nonblock` and `recv_data_nonblock` log and return
   as if they had succeeded; `src/tcp_public.cpp:114` promises an exception.
4. **leave.** `sendfile` raises `SIGPIPE` when the client is gone; the HTTP server handles
   only `SIGINT` and `SIGTERM`. The comment at `src/tcp_public.cpp:120-127` demands
   that this be handled, and `send` does so by its flag.

No text promises otherwise of the following, so no run refutes anything; the properties
state what the code does.

- `src/tcp_server.cpp:87` terminates the body, which was written over the header, at `msg_size`,
  the header included. Zeros behind the body keep the log right, except for a body of one
  byte, which is logged with a byte of the header (`LoggedIsBody` leaves it out).
- `recv_with_eof` reads four bytes at a time where its comment says byte by byte
  (`src/tcp_public.cpp:169`). A client that waits for its answers never notices
  (`RequestsReturnedWhole`); for one that pipelines, requests are glued together or lost.
  The buffer has `max_size + 1` bytes, and up to `max_size + 3` may be read into it.
- `Range:` is also found inside `If-Range:`, `X-Range:` or a path, whose `bytes=` are then
  served, and behind an empty `Range:` the next line is taken for the value
  (`src/http_request.cpp:143`): `RangeAsAsked` speaks of `Plain` requests.
- A failing `open` or `sendfile` sends a 500 page behind the header that announced the
  file (`src/tcp_public.cpp:208-231`), and a client that only shuts down its sending side after a
  complete request is closed unread (`src/tcp_server.cpp:203-208`).
- The select server accepts clients it will never hear (`tcp_server_v1.c:141`, `UnheardForEver`)
  and keeps the descriptors of those it has no slot for (lines 152-160,
  `LeaksStayAbove`); a `recv` that fills the buffer puts the terminator behind it (line 183).

## Not modelled

- The text of paths, lines and numbers: a request comes with a path that is garbled, too long,
  outside the root or a file, and with lines known by name and kind of value.
- What `recv_with_eof` leaves unread when it throws, and the pieces of a request glued at other
  places than the end of a line: `HttpResponse` has whole requests, one or several;
  `HeaderReader` has the positions. That responses to several requests of one
  connection, handled by different workers, do not mix is not claimed: nothing in the
  code keeps them apart, and `SteadyComplete` and `BytesOnce` look at each request's pieces alone.
- The bytes of messages in `SelectServer`, and of requests in `HeaderReader`, where they
  are positions.
- `tcp_send_msg` of `tcp_client_v1.c` and `accept_single_req` of `tcp_server_v1.c`, which
  nothing calls.
- The descriptor that `TcpClient`'s constructor leaks when it throws at `src/tcp_client.cpp:34`
  and `:40`: nobody uses its number again, since `main` then ends.
- `send` and `recv` errors other than `EAGAIN` and a closed peer: both are logged like
  the retry limit and end the loop the same way.
- Logging, time stamps, MIME types, header texts: pure output. Tests: they run
  clients against a server and assert nothing themselves.
- Failing threads outside of construction, signals other than by their effect on the
  process, IPv6, more than one `TcpServer` in a process.

## Plan

In the order of what the system depends on; done so far: 1 to 11.

1. `TcpServer`, with the proof of its inductive invariant.
2. `RequestPool` and `HttpServer`: refinement by TLC, safety by proof.
3. `MsgStream`.
4. `HttpRequest`, `HttpResponse`, with the proof of the ranges.
5. The refinement proof `ServerImplementsPool`.
6. `HeaderReader`: `recv_with_eof` over streams that arrive in pieces, with its proof; the Range
   header as one of several lines.
7. `SelectServer`: version 1, its table of slots and `select`'s first argument, with its proof.
8. `send_data_epoll`, `TcpClient` and processes that end, in `MsgStream`.
9. Proofs of `HttpResponse`'s safety: types, `BytesOnce`, `OnlyOwnAnswers` and
   `SteadyComplete`, from an invariant that ties `client_fd` to the owner of the descriptor
   or to `closed`.
10. Proofs of `MsgStream`'s safety, for messages of any number and length.
11. `MsgQueue`, and that `MsgStream` implements it, by TLC and by proof.
12. Still open: that `HttpResponse` without its files and streams is `RequestPool`.
