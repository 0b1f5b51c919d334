# A TLA+ verification of file-compressor

file-compressor is a small C++17 program: compression algorithms, a TCP server
and client, an HTTP server with a compression API on top of it, and a React page
that uses the API. This directory models the parts of it whose correctness
depends on order, on concurrency or on every input, checks the models with TLC,
and proves what matters most about them with TLAPS. Paths are given from the
repository's root, so `src/Server.cpp` is `src/src/Server.cpp` in
`PROJECT.json`.

## 1. The system

| component | state it keeps | operations | correct when |
|---|---|---|---|
| `Server` (`src/Server.cpp`) | `serverSocket`, atomic `running`, `serverThread`, `clientHandler`; the kernel's listening socket; one detached thread per connection | `start`, `stop`, `setHandler`, destructor; `acceptLoop` in its own thread | a server that is down has left nothing behind; `stop()` returns; every client that waits is given a thread or reset; each is served by the handler it arrived for; the process survives |
| `HttpServer` (`src/HttpServer.cpp`) | as `Server`, plus per connection the bytes read so far | lifecycle as `Server`; `handleClient`: read headers, parse, read body, call the handler, answer | the handler sees exactly the announced body; one response per connection; a thread ends when its client has gone |
| `CompressionApi` (`src/CompressionApi.cpp`) | none | `handle(request)` | what `/compress` gave `/decompress` takes back; bad input is a 400 |
| `RLECompression` | loop variables | `compress`, `decompress` | lossless, accepts its own streams, refuses exactly the malformed ones |
| `AdaptiveCompression`, `IdentityCompression` | none | `compress`, `decompress` | lossless, never longer than one byte more, the choice is right |
| `HttpServerMain` | `g_stop` | signal handler, poll every 200 ms, `stop()` | a signal ends the program without a thread using a dead object |
| `Client` (`src/Client.cpp`) | `clientSocket`, `connected` | `connect`, `sendData`, `receiveData`, `shutdownWrite`, `disconnect` | what it receives is the handler's reply to what it sent; an end of stream means all of it; calls return |
| connection handlers (`defaultEchoHandler` in `src/Server.cpp`, those of `src/ServerMain.cpp` and `tests/test14_network_large_payload.cpp`) | the bytes read | read, reply, close | the reply is to a beginning of the stream; no client that leaves by the calls of `Client` ends the process (one that aborts can) |
| `FileHandler` | none (the file system) | `readFile`, `writeFile` | what a successful write wrote is what the next read returns, or an exception |
| `FileCompressionTool` (`frontend/.../file-compression-tool.tsx`, `api.ts`) | React state: file, bytes, mode, output, error, busy | pick, run, download | the output shown belongs to the file and mode shown |
| `rle.ts`, `adaptive.ts` | none | as their C++ namesakes | the same functions; no page calls them today |
| command line programs, compatibility headers, tests, build files | - | - | no logic of their own |

How they interact. The owner thread calls `Server` or `HttpServer`; the object's
accept thread shares `running` (atomic) and `serverSocket` (a plain `int`) with
it, and the two meet at `join()`. Connection threads are detached: nobody waits
for them, and those of `Server` share nothing with the object because the
handler is copied for them. Those of `HttpServer` capture `this`. An HTTP
connection talks to its client over a TCP stream that cuts messages anywhere and
may be shut, closed or reset at any moment, then calls `CompressionApi::handle`
with the request, which calls `AdaptiveCompression`. A `Client` talks to a thread of
`Server` over such a stream too: it sends, may shut its writing side, and receives
until the server closes. The page sends the bytes of
a file to the API and keeps the answer.

What is hard in it: `stop()` against a thread that is somewhere in its accept
loop (before the test, before the read of `serverSocket`, inside `accept()`);
connections that arrive or are accepted while the server is stopping; the error
paths of `start()`; threads that cannot be created; restart with another handler
while old connections live; the segmentation of requests; clients that leave;
the limits 255, 64 KiB and Content-Length; malformed streams; partial `send()`s,
errors that a socket reports only once, a client and a handler that wait for each
other; a file that is read while it is written. `PROJECT.json`
lists these as `hazards`, each at its line and with the properties that cover it.

## 2. The modules

| module | models | how |
|---|---|---|
| `TcpServer` | `Server` | three kinds of threads with a program counter each (`owner`, `acceptor`, `conn`), the fields of the object, the kernel's sockets. Every system call of `stop()` and every access of the accept loop to shared state is a step |
| `ServerContract` | what `Server` promises, abstractly | down, up, stopping, gone; a client waits, is served, closed or dropped |
| `TcpServerRefinement` | - | the mapping from `TcpServer` to `ServerContract` |
| `TcpServerProofs` | - | theorems, the refinement among them |
| `HttpConnection` | `HttpServer::handleClient` with its helpers, and the client | bytes are counted; TCP segments are the choice of `n` in `Receives` |
| `ConnectionInService` | - | `HttpConnection` seen as one thread of `HttpService`: the mapping |
| `HttpConnectionProofs` | - | theorems |
| `RleLoops` | the two loops of `RLECompression` | one action per pass of a loop; `marks` is a history variable for the loop invariant |
| `Codec` | the three algorithms as functions | recursive functions that list the state of a loop behind each byte (`Scans`) or pair (`Expansions`) |
| `RleFunctional` | - | the loops compute the functions |
| `RleLoopsProofs` | - | theorems about the two |
| `CompressionApi` | `CompressionApi::handle` over `Codec` | a first request of any kind, then what `/compress` returned is sent to `/decompress` |
| `FrontendCodec` | `rle.ts`, `adaptive.ts` | recursive functions of their own (`scans`, `totals`, `fills`), extends `CompressionApi` to be compared with what the API answers |
| `CompressionApiProofs` | - | theorems about `Codec`, `CompressionApi` and `FrontendCodec` |
| `TcpStream` | a TCP connection as `send()`, `recv()`, `shutdown()` and `close()` observe it | two logs with positions; segments, FINs and resets arrive as steps |
| `EchoSession` | `Client`, and the connection threads with the three handlers of the repository, over `TcpStream` | one action per system call; the client calls in any order and connects again |
| `EchoContract` | what a session promises, abstractly, without sockets | ask, finish, answer, receive |
| `EchoSessionProofs` | - | theorems |
| `FileHandler` | `readFile()` and `writeFile()` of several threads on one file | one action per system call of the streams; errors and deaths at each |
| `FileHandlerProofs` | - | theorems |
| `HttpService` | `HttpServerMain` with the lifecycle of `HttpServer`, its accept thread and its connection threads | extends `TcpServer`: the steps of `start()`, `stop()`, the loop and the destructor are those of `Server`, taken by `main()` and by the program's threads |
| `HttpServiceProofs` | - | theorems |
| `FileCompressionTool` | the React component and its calls of `api.ts` | a handler's part up to its `await` is one action, what follows it another |
| `FileCompressionToolProofs` | - | theorems |
| `MC...` | - | the small instances for TLC |

The state and the actions of `TcpServer` correspond to the code as follows.
`start()` is `StartSocket` (or `SocketFails`), then `BindFails` for the three
error paths behind it or `StartListens`, which also sets `running` and creates
the thread. `stop()` is `StopBegin`, `StopShutdown`, `StopClose`, `StopClear`,
`StopJoin`, one per statement, because the accept thread can run between any two.
The loop is `AcceptTest` (`while (running)`), `AcceptLoad` (the argument
`serverSocket` is read), `AcceptEnter` (`accept()` resolves the descriptor and
blocks or fails), `AcceptTake` or `AcceptTransient`, `AcceptFailed` (the test of
`running` behind an error; `EINTR` and the other errors both `continue`) and
`AcceptSpawn` (handler copy and thread). `HandlerCloses` stands for the end of a
handler: it closes its socket, whatever else it does. No fairness makes it come.

`HttpConnection` runs `headers -> parse -> body -> dispatch -> head -> payload ->
close`, and `refuse` is the catch block. `got` is what the thread has received,
`BodySize` is `req.body.size()`. `left` is what the current `sendAll()`, or the
`send()` of the catch block, has still to hand to the kernel, and `unread` what the
kernels hold for the client, at most `Window`: `Sends` is one `send()` that takes as
much as there is room for, and without room the thread waits. The client takes bytes
with `ClientReads` or never; when it has closed, its kernel answers bytes with a
reset (`ClosedIsReset`). A reset in the middle of `sendAll()` fails the next
`send()`, one in the middle of the catch block's makes it return what it has taken.
Retries after `EINTR` are stutters.

`HttpService` uses the actions of `TcpServer` as they are, because
`HttpServer::start()`, `stop()`, `acceptLoop()` and the destructor are the same
statements as `Server`'s but for the backlog of 16 and an unchecked result of
`setsockopt()`. What it adds is `main()` (`MainSetsHandler`, `MainStarts`,
`MainPolls`, `MainStops`, `MainDestroys`, `MainExits`), the signal, the end of the
process, and connection threads that read a request, then read `this->handler`
(`ThreadCalls` records in `found` what they find there), answer and close. What
such a thread reads and writes is in `HttpConnection`; here only the order of its
steps against those of `main()` matters.

`FileCompressionTool` has the component's state under its own names. A read of
`f.arrayBuffer()` in flight is an element of `reads`, an API call in flight is
`flight`; an outcome is named by the mode and the content it was computed from,
so that the page can be asked whose output it shows. `readAlone` and `runAlone`
are history variables: the last pick met no read in flight; nothing was picked or
switched during the last run.

`EchoSession` has the members of `Client` and the variables of its calls under their
own names (`totalSent`, `maxSize`, `out`); `call` says which call the client is in.
`SendSome(n)` is one `send()` that takes `n` bytes, `ReceiveSome` one `recv()`. `hpc`
is where the connection's thread is; the handlers differ in `ReadsOnce` (one
`read()`, or a loop to the end) and in `Reply` (the bytes, or their run-length
stream). The one `send()` of a handler is several steps `HandlerSends(n)`, because
the kernel takes its bytes as there is room. It fails behind a reset
(`HandlerSendFails`), or raises `SIGPIPE` on a broken connection of which it has
taken nothing (`HandlerKilled`); a call that has taken bytes returns their number.
`ClientAborts` is what any other TCP client may do as well: a reset out of the blue,
in a call or between two. `accepted`, `returned`, `ended` and
`failed` are history variables: what `sendData()` returned true for, what
`receiveData()` returned, how the last one ended, whether a call failed.

`FileHandler` distinguishes data the stream buffers (`WriteBuffers`, written by
`flush()`) from data it writes at once (`Direct` bytes and more), because a full
disk shows at different statements. `Unwind` is the destructor of the stream behind
the exception of a failed flush: it tries to write the buffer again. `content` is
the history variable the properties are about: what the last `writeFile()` to
return was given, as long as nothing has disturbed it; `expected` is its value when a read
began, forgotten when a write begins during the read.

Modules that contain operators named `...Skipped`, `...Forgotten`, `...Once` and
so on keep faulty variants of a definition, each the slip its comment names. No
specification uses them; put in the place of the original they make a property
fail, which shows that the property depends on that line of the code.

### The environment, as modelled

* Linux. `shutdown()` on a listening socket resets the connections that wait and
  makes a blocked `accept()` return an error; `close()` alone wakes nobody. A
  connection whose peer has reset reports the pending error once, then end of
  file to `recv()` and `EPIPE` with `SIGPIPE` to `send()`.
* The unsynchronised read of `serverSocket` returns the old descriptor or -1.
* The owner is one thread, and calls `setHandler()` only while the server is
  down, as every caller in the repository does.
* A descriptor closed by `stop()` is not reused before the accept thread has left
  its loop by anything but this server's own next socket, which `stop()`'s join
  excludes. A reuse of the number by some other file of the process is not modelled.
* Handlers do not throw; they need not end, for the `read()` of a handler has no
  timeout. `CompressionApi::handle` catches what its algorithms throw.
* `HttpConnection`: the kernels hold `Window` bytes of a response, for any window
  of one byte or more; of a client that has closed, the kernel answers bytes with
  a reset, which loses what was on its way.
* `TcpStream`: `close()` with unread bytes sends a reset instead of a FIN, and a
  segment for a closed socket is answered by one. What had arrived before a reset
  is still read; then one call reports the error, and from then on `recv()` returns
  0 and `send()` raises `SIGPIPE`. A reset behind a FIN leaves no error for
  `recv()`, and raises `SIGPIPE` in the next `send()`. `shutdown(SHUT_WR)` makes later `send()`s raise `SIGPIPE` too. A
  `send()` that is interrupted by a reset after it has taken bytes returns their
  number. The two kernels hold `Window` bytes of one direction, at least the
  longest reply to one `read()` (8192 bytes, `ReplyFits`).
* Files: a write may reach the disk in part before it fails; writes behind the end
  leave zeros. libstdc++ buffers less than 1024 bytes, writes more at once, and its
  destructor writes again what a failed flush has left, from the beginning of the
  buffer. A process that dies leaves the file as it is. A machine that loses power
  is not modelled: the code does not call `fsync()`.

## 3. What TLC checks

All runs are in `PROJECT.json`. Deadlock checking is off where the system may
rightly stop: the owner may destroy the server, a connection or the program ends,
an algorithm returns. It is on for the page, which always takes a click.

| run | instance | what it shows |
|---|---|---|
| `TcpServer` | 3 connections, backlog 2, 2 descriptors, 1 handler besides the default, threads may fail to be created; fairness | the inductive invariant and the safety properties of `Server`; refinement of `ServerContract`; `stop()` comes nearer to its end with each step and is never held up; and, as long as threads can be created, the contract's liveness (`KeepsPromises`): `stop()` returns and every client that waits is given a thread or reset |
| `TcpStartLaunchesLoop` | the same | **violated**: finding 1 |
| `HttpService` | 3 connections, backlog 2, 1 descriptor, threads may fail; fairness | threads find a handler and the server object until a signal comes; a signal ends the program |
| `HttpUsesDeadServer` | 2 connections, backlog 1 | **violated**: finding 3 |
| `HttpConnection` | header limit 4, reads of 2, Content-Length up to 3, refused, or wrapped around from a negative number, one byte beyond the body; headers, bodies and 400s of up to 3 bytes over a window of 2; fairness | every segmentation and every departure of the client; the thread is one of `HttpService`'s; threads end once the client has gone, and, with a client that goes on reading, once it has sent everything |
| `HttpSurvivesTheClient` | header limit 3, Content-Length up to 2, answers of up to 2 bytes over a window of 1 | **violated**: finding 2 |
| `RleLoops` | bytes 0..3 (run limit 3), every input and every stream up to length 6 | the loop invariant, the round trip, validation, agreement with `Codec` in every pass |
| `CompressionApi` | bytes 0..3, bodies up to length 6 | no exception gets through; the API's round trip and sizes; no shorter stream; the page's codec agrees with the API |
| `FileCompressionTool` | 3 files, 3 reads in flight; symmetric in both | the button, one outcome at a time, the outcome belongs to the file and mode shown |
| `EchoSession` | messages of 2 and 3 bytes, 5 bytes on one connection, buffers of 2, 4 bytes on the way; 3 handlers; reconnects without bound; fairness | refinement of `EchoContract`, the meaning of an end of stream, only an abort raises `SIGPIPE` in the server, the three never all wait for each other, every step between two calls brings the end nearer, calls return |
| `ClientSendIsKilled` | the same | **violated**: finding 4 |
| `FileHandler` | 3 threads, contents of 2 bytes (buffered) and 3 (direct); symmetric in the threads | what was written is read, nothing is invented |

### Why the bounds are enough

*Server.* Three connections let one be served, one be in the accept thread's hand
and one wait, and two fill the backlog. Two descriptors let a restarted server
use another number than before; two handlers (one and the default) let it have
another handler. Nothing bounds the number of calls, restarts or failures: the
state space is finite without it.

*RLE.* The run limit is a parameter that is 255 in the code and 3 in the runs;
with inputs of length 6 there are runs of 3, 4 and 6, that is, exactly full, one
more, and twice full, and two runs of the same byte side by side. A byte of 0
exercises zero counts at every place.

*HTTP.* The header limit is two reads, so headers end before, at, in, and behind
the last read; bodies need up to two reads, and may come in part with the header.
Whatever is sent may be longer than the window, so that each `send()` may take a
part, may wait with the window full, and may meet a reset between two parts.

*Echo session.* A message of three bytes does not fit into one buffer of two, two
messages fit into one connection, a reply can be cut, and the window can be full.
A `maxSize` of one makes `receiveData()` return in the middle of a reply, four is
more than some replies. `MaxBytes` bounds what is sent on one connection; the
number of connections, calls and resets has no bound. An abort at any moment meets
every step of the thread; afterwards the thread runs to its end, and the next
connection is a new run.

*Files.* Three threads are two writers and a reader, or two readers and a writer;
the two contents differ in length and in every position, so that a mixture of them
is neither. Nothing bounds the number of calls.

*HTTP program.* One descriptor is enough, for `main()` starts the server once and
every error path gives it back. Three connections let one thread be in its
request, one be in the accept thread's hand and one wait when the signal comes.
Nothing bounds the polls, which change nothing.

*Page.* Three files are the two of an overtaking read and one more to be picked
meanwhile. The number of reads in flight is bounded by `Read`: a pick needs a
free identity. Two reads show the overtaking, the third is beside both.

The proofs do not depend on any of these bounds.

### Fairness

`FairSpec` of `TcpServer` asks that a thread that can go on does: the owner
inside a call (never that it calls) and the accept thread. It asks nothing of
handlers: `defaultEchoHandler()` waits in `read()` as long as its client is silent.
So `KeepsPromises` says of a client no more than that it does not wait in the queue
for ever; when its thread ends is a question of `EchoSession`. `accept()` may
fail any number of times, but a connection that waits again and again is taken
in the end: strong fairness of `AcceptTake(c)` per connection stands for the
kernel's FIFO queue and for errors such as `EMFILE` that pass. Clients need not
connect, the owner need not stop. `FairSpec` of `HttpConnection` is weak fairness
of the thread and of the reset that answers bytes for a closed socket. It asks
nothing of the client, which may stay silent and may leave its response unread.
`ThreadEnds` has two parts for that: a thread whose client has closed or reset
ends, in whatever call it is and however full the window; and if the client makes
room again and again, a thread ends whose client has sent a whole regular request
or has shut its writing side. `HFairSpec` of `HttpService` asks
only that `main()` and the accept thread go on when they can (`main()` looks at
`g_stop` every 200 ms). It asks nothing of clients, connection threads, `accept()`
failures or the signal, so `SignalEndsProgram` holds with every connection open.
`FairSpec` of `EchoSession` lets a call, the connection's thread and the network go
on when they can; nothing obliges the client to call or to abort. `CallsReturn` then says that
`sendData()` always comes to an end, and `receiveData()` when the client has shut
its writing side or has sent something to a handler that reads once. Without either
both sides wait: that is the deadlock the default `receiveData(4096)` meets with a
handler that reads to the end.
`FileHandler` states no liveness: a failing disk may end every call, and nothing waits.
`FileCompressionTool` states no liveness: neither a read nor a `fetch()` has a
timeout in the code.

### Findings

1. `start()` sets `running` before it creates the thread (`src/Server.cpp:101`).
   If `std::thread` throws, the next `start()` returns as if the server ran, with
   no accept loop. `Server.h:11` says that start launches one. A `stop()` in
   between recovers: `DownIsClean` holds in that run.
2. The 400 of the catch block (`src/HttpServer.cpp:261`) can raise `SIGPIPE` after
   a reset, which nothing handles, and ends the process; the comment at line 253
   calls it best effort.
3. `HttpServer::acceptLoop()` copies the handler like `Server`'s, where the comment
   says why ("so detached threads don't access `this`", `src/Server.cpp:206`), but
   its threads capture `this` and read `this->handler` (`src/HttpServer.cpp:191`
   and `224`). Between the destruction of the server at the end of `main()` and
   the end of the process, a thread can call a destroyed `std::function`.
   `AliveUntilSignalled` is what does hold: not before a signal.

4. `sendData()` (`src/Client.cpp:131`) promises "true if all data sent
   successfully, false otherwise" (line 119), but its `send()` raises `SIGPIPE`
   after `shutdownWrite()`, and on a connection whose reset was already reported,
   and ends the client's process.

Not a contradiction of any text, but visible in the model: a request followed by
more bytes than announced is served if the excess comes in a later segment and
refused with a 400 if it comes along with the header (`BodyRead`), and headers
between 64 KiB and 64 KiB + 1023 bytes are accepted or not depending on how they
are cut (`HeaderLimit`). If the thread for a connection cannot be created
(`src/Server.cpp:208`), the exception leaves the accept thread and ends the
process (`AcceptSpawn` under `ThreadsMayFail`). On the page, a slow read of a file
picked earlier overwrites the bytes of the one picked later, and a run that ends
after a pick or a mode switch puts its output beside the new file or mode; a read
that fails shows nothing. `ShownBelongs` therefore has two conditions, and is
violated without either. A client of `Server` that aborts can end the whole process:
when its FIN and then a reset have come before the handler's `send()`
(`src/Server.cpp:17`), that call raises `SIGPIPE`, which nothing handles, and for a
handler that reads to the end a reset alone is enough, because its `read()` consumes
the error. TLC reaches both (`HandlerKilled`); `OnlyAbortsKill` says that there is no
other way. In a session, `receiveData()` throws away what it has received when a later
`recv()` fails; and when `sendData()` gets the error of a reset, the next
`receiveData()` sees an end of stream although part of the reply is lost, which is why
`EofMeansWhole` asks that no call has failed. A handler that reads once answers a
beginning of what was sent and then resets the connection if there is more, which may
cost the client that answer. A file that is read during a write may give a beginning
of the new data as if it were the whole file (`NothingInvented` is all that holds
then), and two writers at a time may leave a file that is neither's, with zeros in it.
`RegularIsServed` speaks of requests that are exactly as long as announced, with
headers up to the limit.

## 4. What TLAPS proves

For every value of the constants that their `ASSUME`s allow. Each argument is an
inductive invariant, checked by TLC first, shown to hold initially and to survive
each action; the properties follow from it.

*Server.* `ServerInv` adds to the properties where the socket is at each step of
`start()` and `stop()` (`SocketByPhase`), that the accept thread exists exactly
while the object can join it and returns only after `running` is clear
(`LoopByPhase`), and that a waiting connection still has its handler installed
(`WaitingAreHeld`). None of the properties is inductive alone: that the accept
thread does not sleep on a dead socket, for example, needs that only `stop()`
takes the socket down and that it wakes the thread in the same step.
`TcpServerProofs` proves type correctness, `DownIsClean`, `NoLeakedSocket`,
`LoopHasLiveSocket`, `NeverAsleepOnDeadSocket`, `ServedByItsHandler`,
`NoServiceWhileDown` for any number of connections,
descriptors and handlers, with or without thread creation failing, and
`NeverTerminates` from the assumption that it does not. `ServerInv` also feeds
`Refinement`: initial states map to initial states, and each
action maps to one of the contract or to a stutter.
`StopIsBounded` and `StopIsNeverHeld` are the safety half of "`stop()` returns".
The first gives a measure, `StopLeft`, of at most nine, that falls with every step
of `stop()` and of the accept thread once `running` is clear: the loop can take one
more connection, and no client and no failure of `accept()` makes it start over.
The second says that until `stop()` has returned one of the two has a next step
that needs no client. What is left to TLC is the conclusion from weak fairness,
which the prover cannot draw.

*HTTP program.* `ServiceIsServer` shows that every step of the program is a step of
`TcpServer` or a stutter, so that every theorem about `Server` is one about
`HttpServer` as `main()` uses it: the refinement of `ServerContract`
(`ServiceRefines`), and that the `stop()` which a signal leads to ends within nine
steps and waits for no client (`ServiceStops`). `ServiceInv` adds where the owner is at each point of `main()`
(`MainByPhase`) and that there are connection threads only between a start that
succeeded and the end (`ThreadsByPhase`); `AlwaysConfigured` and
`AliveUntilSignalled` follow from it and `ServerInv`.

*Echo session.* `EchoInv` relates positions (`Positions`), the states of the two
sockets and the resets on their way (`Sockets`), what the thread has sent at each of
its steps (`ServerProgress`), and the bytes of both directions to the variables of
the calls (`Bytes`, `Sending`, `Receiving`). The last has two cases, because a
receive that failed has lost bytes: either what was returned and what the call
holds are the beginning that was taken, or the connection is broken and nothing can
be taken any more - so that no later call can return the bytes behind the hole.
`OnlyAbortsEndTheServer` says when a handler raises `SIGPIPE`: only if the client has
aborted, and in a handler that reads once only behind its FIN (`BrokenBehindFin`).
It rests on the server's sending first: without an abort `rst["client"]` implies that
the server has sent something, and a `send()` that has taken bytes raises nothing.
A client aborted before the first byte is `Abandoned`: it is the one case in which a
handler that reads to the end may go on with a part of what was sent, and nobody is
left to receive the reply. `EchoRefinement` maps each step to one of
`EchoContract` or a stutter. All this is `DataInv`.

`NobodyIsStuck` and `SessionIsBounded` are the safety half of `CallsReturn`, for every
window, buffer size and message. The first says that in `sendData()`, and in a
`receiveData()` to which an answer is due, the client's call, the thread or the
network has a next step. `DataInv` is too weak for it, so `EchoInv` adds two parts:
`OneRead`, a handler that reads once has read nothing before that read and at most
one buffer by it, whence its reply always has room (`ReplyHasRoom`); and `Farewell`,
a thread that has ended has told its client, with a reset if it left something
unread - without it a client could fill the window of a thread that is gone. The
second gives the measure `ToGo`: each byte counts for the stages still before it, a
byte of a request also for the two of its reply, and calls, steps of the thread, FIN
and RST count once. Every step but a call of the client makes it smaller. Both
rest on two assumptions about constants: `ReplyFits`, a window of twice the handler's
buffer (the kernel's default buffers are far above 8192 bytes), and in
`SessionAssumption` that a run-length stream is at most twice as long as its data and
not empty. `RleAtMostDoubles` of `CompressionApiProofs` proves the latter of
`RleCompress`, so that it is no assumption about the code.

*Files.* `FileInv` says that a settled file is what it was written to be, that the
file of an undisturbed writer is the beginning of its data it has written
(`FileMatches`), that a reader which still expects something has read a beginning
of the file (`ReadMatches`), and that a lone writer stands at the end of the file
(`NoHoles`). `WrittenIsRead` and `NoByteInvented` follow, for any number of threads.

*RLE.* `RleInv` states that the emitted pairs tile the part of the data behind the
current run (`Tiling`), that the run lies just before the index (`Scanning`), that
the expanded bytes are the prefix the pairs read so far stand for (`Prefix`), and
that the counts seen by the pre-pass are not zero (`Validated`). `Lossless` is the
round trip for every input of every length and every run limit;
`ExactValidation` and `RejectsBeforeExpanding` are about every stream, and the
second shows that the zero test inside the expanding loop (`RLECompression.cpp:96`)
never fires. `NoWastedPair` bounds the output. `LoopsAreTheFunctions` ties the loops
to `Codec`: its invariant is `RleInv` with `LoopsComputeCodec`, which says for every
pass that the variables of the loop are the entry of `Scans` or `Expansions` at its
index, so that what is proved of the functions is proved of the loops.

*Codec.* The functions of `Codec` are recursive, and facts about them for every
length need induction. The library states it with an operator as parameter, which
the installed provers cannot instantiate; `IntervalInduction` says the same of a
set, by the least element of its complement (`WFMin`). With it `ScansUnfold`,
`ExpansionsUnfold` and their like show that the recursive equations hold, and then:
- `RleLossless`: behind each byte, the output flushed there expands to exactly the
  bytes read (`ScanInv`), so the whole stream expands to the whole input, and it has
  no zero count.
- `RleShortest`: no stream, whoever made it, that expands to `data` is shorter than
  `RleCompress(data)`. The cost behind a byte, `Cost`, never falls, and over one pair
  of the other stream, at most `MaxByte` equal bytes, it rises by one pair at most
  (`OnePairPerBlock`): greedy runs are optimal. `RleAtMostDoubles` bounds the cost
  from above, two bytes for each one.
- `AdaptiveLossless` and `AdaptiveShortest` carry both to the tagged streams, the
  tie and the empty file included.

*API.* `ApiInv` says that a response is what `handle()` makes of the request beside
it, that no exception becomes a body, and that what was uploaded is what is asked
back for. `RoundTripThroughTheApi`, `ShortestThroughTheApi` and `SizeThroughTheApi`
follow from it and the theorems about the codec, for every set of bodies.

*Page's codec.* `SameFormat` shows that `rle.ts` and `adaptive.ts` compute the
functions of `Codec` on every byte sequence. The first run begins differently but
the states agree from the first byte on (`SameScans`); the array of zeros is filled
up to the offset with what the server has appended (`FillsAreExpansions`), because
the total of the counts is the length of the expansion (`TotalsAreLengths`).
`PageAgrees` is `FrontendAgrees` for every request.

*HTTP.* `HttpInv` says what has been read and checked at each step (`ReadSoFar`)
and what has been written (`WrittenSoFar`). `ExactBody`, `CutsDoNotMatter`,
`HeadersBounded`, `OneResponse` and `OrderlyClose` hold for every set of requests,
every limit and every read size. `ThreadIsBounded` is the safety half of
`ThreadEnds`: a thread takes at most one step for each byte its client sends, one
for each byte of the up to three parts it sends itself, and five more. `ThreadIsServiceThread` joins the two models of a connection's thread:
what `handleClient()` does in `HttpConnection` is, step by step, what `HttpService`
lets a thread do while the server is up (`reading`, `handling`, `writing`, `done`),
or hidden from it, so that the coarse thread there leaves out nothing that the
detailed one does. Its states satisfy `ServiceInv` and `ServerInv`, that is, they
are states the program's model can be in. What a thread does after a signal is in
`HttpService` alone: the detailed one does not look at the object but for `handler`.

*Page.* `ToolInv` adds to the properties what is in flight while they hold
(`InFlightBelongs`): after a pick that met no read, the only read there may be is
that of the file shown, and during an undisturbed run the call is that of the
file and mode shown. `BusyButton`, `ResultOrError` and `ResultBelongs` hold for
any number of files and reads.

Only model-checked: what follows from fairness (`KeepsPromises`, `ThreadEnds`,
`SignalEndsProgram`, `CallsReturn`), which is beyond this prover, as is `ENABLED`;
and the four violations. Every invariant and every action property of the passing
runs is proved.

## 5. What is not modelled

`PROJECT.json` gives the reason per component. In short: the text of headers and
messages (a header is well formed or not; of Content-Length only the value counts
that `std::stoul` makes of it, wrapped around for a negative number, or its
refusal), calls of `Client` that change nothing, console I/O, the formatting and
layout of the page, the Windows headers, tests and build files. `Server::handleClient()`
has no caller: the lambda in `acceptLoop()` does the same. What the page should show
when a file cannot be read (`ReadFails` in `FileCompressionTool`) is said nowhere,
so no property covers it. `ServerMain` does not catch what `start()` throws; the
process ends, which the model of `Server` leaves to its caller.

## 6. Plan

Done: the two servers, the program around the HTTP one, the codec with the API over
it, the page and its codec, the client with its session, and the file handler; the
proofs of their invariants and refinements. What could follow:

1. The API behind `HttpConnection`: bytes instead of counts, so that the round trip
   of `CompressionApi` is one of two connections.
2. `HttpConnection` over `TcpStream`, so that what the client has of a response,
   and not only what was sent, is part of the model.
