# TLA+ models of linux-tutorial

The repository is a collection of small C programs, each of which shows one
facility of Linux: processes that lock, threads that post and wait, processes
that exchange messages, servers, a camera.  What they have in common is what
makes them hard to test: several threads or processes, a flag that tells them to
stop, calls that sleep, and error paths that leave half of the work done.  There
are no tests, and next to no documentation; the code is the reference, and the
few comments that say what a program does are checked where the code disagrees.

Contents: [inventory](#inventory) - [modules](#modules) - [runs](#runs) -
[fairness](#fairness) - [proofs](#proofs) - [limits](#limits) - [plan](#plan)

## Inventory

| part | sources | state | operations |
|---|---|---|---|
| File lock | sync/file_lock.c | the name shm_lock, descriptors, g_app_quit of two processes, the kernel's record locks | shm_open, fork, read/write section, unlock, signal, close, shm_unlink |
| Message queue | ipc/mq_producer.c, ipc/mq_consumer.c | the queue, g_quit and up to three threads per process | mq_open, send, receive, stop by flag and SIGUSR1, join, mq_close |
| Semaphore | ipc/semaphore.c | semaphore value, quit, 3 + 5 threads | create threads, post, timed wait, q, joins, sem_destroy |
| Local socket | ipc/sock_server.c, ipc/sock_client.c | the socket's name, listener, a session per client | unlink, bind, accept, recv, connect, send |
| TCP | net/tcp_server.c, net/tcp_client.c | listener, g_app_quit, descriptors, a session thread per connection | bind, accept, pthread_create, recv, close, signal, connect, send |
| TLS | net/tls_server.c, net/tls_client.c | as TCP, plus the shared SSL_CTX and an SSL per session | as TCP, plus handshake, shutdown, SSL_CTX_free |
| libuv | libuv/tcp_server.c, libuv/tcp_client.c | the loop, handles, requests | callbacks of connection, read, write, close |
| D-Bus | dbus/receiver.c, dbus/sender.c | names, match rules, incoming queue, filters | dispatch, pop_message, replies, signals |
| Camera | uvc/main.c | camera_t, mapped buffers, the driver's two queues | open, init, start, frame (select, DQBUF, copy, QBUF), convert, stop, finish, close |
| Logging | include/log.h | none | formatting |
| Vendored | include/, libs | - | headers and archives of OpenSSL, D-Bus, libuv, libjpeg |

**How they interact.**  A program is either a pair of processes that meet at a
kernel object (lock, queue, socket, bus) or a process whose threads share a
global.  Apart from that the parts are independent: no program of one directory
calls another's code.  Therefore each part is a module of its own, and each
module composes all its processes, threads and the kernel object they share.

**Which behaviours are hard.**

* *Stopping.*  Every loop tests a global flag and then calls something that
  sleeps.  A signal between the test and the call is lost.  A signal to a process
  is handled by one thread; the others sleep on.
* *Ends and crashes.*  Lock holders killed inside, messages left in a queue
  nobody unlinks, sessions cut off when `main` returns, names unlinked while
  somebody else uses the object.
* *Partial failure.*  pthread_create, DQBUF/QBUF, bind, accept or uv_accept that
  fails in the middle of a hand-over of a resource.
* *Reuse.*  Descriptor numbers, buffers, a semaphore destroyed with waiters.
* *Limits.*  Full queues and buffers, no descriptor left.

**What makes each part correct.**

* File lock: a writer excludes everybody and readers only writers, on each
  object, through interrupted waits and kills; nobody is served twice for ever;
  a process told to quit ends; the name does not stay behind.
* Message queue: per producer, messages arrive in order without holes, at most
  the last is lost; the queue is closed after its last use; the stop works.
* Semaphore: the semaphore is destroyed under nobody; all joins come to an end;
  the limit only costs tokens.
* TCP: a session touches its own connection only; no descriptor is lost;
  everything that arrived is received unless the server is stopped.
* Local socket: each connection loses nothing whoever takes the name; the name
  leads to a server again, unless one fails; the descriptors of clients that ended come back.
* TLS: the SSL_CTX outlives every SSL; each connection loses nothing; nobody waits
  in a handshake for ever, short of descriptors that others take each time.
* libuv: neither side misses that the other has gone, for as long as the
  memory of the handles lasts.
* D-Bus: a receiver prints every signal that is due once, in the order of the
  bus, be it filtered or popped; what was sent is flushed.
* Camera: a buffer has one owner at a time, head holds a whole and ever later
  frame, the program ends; the conversion stays within its arrays and makes each
  pixel of its own four bytes.

## Modules

An action is one call of the program, or the statements between two calls that
can sleep or fail.  A variable that says where a process or thread is (`pc`,
`main`, `ses`, `snd`, ...) has a value for each such place.  A call that sleeps is
a place of its own, "wait" or "asleep", distinct from the place before it: what
happens between the two is the window in which signals are lost.  Each module has,
in front of its actions, a few variants of them with a mistake; they are not part
of the specification, and serve to show that the properties notice the mistake.

**FileLock** (sync/file_lock.c), with **ReadersWriter** as its abstract
specification.  A member of `Inst` is one run of the program: parent
(process_read) and, after `Fork`, child (process_write).  `name` is what
LOCK_SHM is bound to, an object is named after the run that created it.  `Lock`,
`Block` and `Unlock` are file_wlock/file_rlock/file_unlock with the kernel's rule
`Grantable`; `Signal` sets the process's g_app_quit and makes a sleeping fcntl
fail; `Kill` is SIGKILL or a crash at any point.  `LocksObjects` states that the
program implements ReadersWriter on every object: who is inside is derived from
where the processes are, not from the kernel's table.

**Stream** is the abstract specification that the queue and the three kinds of
socket share: what has been received is a prefix of what was sent, and the receiving end
closes when the sender has ended and nothing is left, or else the connection is
cut.  Each of the four says what the variables of Stream are in its own terms
(`Connection`), and that every step is one of Stream's or none of it (`Streams`).

**MessageQueue** (ipc/mq_producer.c, ipc/mq_consumer.c).  Runs of both programs
share one queue which outlives them.  `main`, `snd` and `rcv` are the three threads
of a run; `SpawnSend` and `SpawnRecv` may leave a thread uncreated, which main does
not notice; `TimeUp`, `KillSend`, `KillRecv`, `JoinSend`, `JoinRecv` are the stop
in the order of the code; `Die` is a crash.  Messages are pairs of run and number;
`lastRead` is the only history variable.  In `Streams` the stream of a run is what was
received and what waits in the queue: it is half closed, and never cut, when its
thread is gone or mq_close has been called.

**Semaphore** (ipc/semaphore.c).  `main` walks through its loops with index `i`, any
pthread_create may fail (for a producer: goto EXIT; for a consumer: ignored, and the
missing thread is joined all the same), `Post` fails at SEM_VALUE_MAX, `TimeOut` is
the end of sem_timedwait.

**TcpServer** (net/tcp_server.c, net/tcp_client.c).  `main` and the session threads
of a server that is started, stopped, killed and started again; `hand` is
client_fd, `table` the kernel's descriptor table, `sock` what a session remembers
of it - they are separate so that a wrong close would hit somebody else's
connection.  `Signal` is handled by any one thread.  `peer` is the server's end as
the client's send meets it: open, closed in order (one more send succeeds), reset.
A session has two places before close, "leave" when it was told to stop and
"close" when recv has returned 0: the code is the same, but only the second has to
have received everything, which is what `Streams` says.
`AllReceived` is about each of the messages: a session comes back to recv for all
of them.  The client's sleep is part of `CliTop`, its way out is `CliEnds`.

**SockServer** (ipc/sock_server.c, ipc/sock_client.c).  Any number of servers on
one `name`: `Unlink` takes it from whoever has it, `UnlinkFails` leaves it in place
and the code goes on; `BindFails` finds it taken, because another server was faster or
unlink has failed, `NoSocket` is every other failure of bind, that of a socket which
was not made included: the server has given up ("failed") and there may be no name.  `at` is the server a client reached, `ses` what became of the server's end
of that connection: `Forget` is malloc or pthread_create failing, after which the
descriptor is lost ("lost") while the client's sends fill the socket's `Room`.
`Limit` are the descriptors of a server; accept fails for as long as they are used up
and the code tries again at once.

**TlsServer** (net/tls_server.c, net/tls_client.c).  The server of TcpServer with
restarts and signals.  A start finds `limit` descriptors for connections, one of
`Limits`; accept fails with `NoDescriptor` for as long as they are taken, and the
client at the head of the queue waits in SSL_connect.  `refs` is OpenSSL's reference count of the SSL_CTX, `hs` the
messages of the handshake so far.  A handshake that fails lets both sides go on to
what the code does next: the client to SSL_write, the session, which only looks
for a negative result, into its loop.  `gave` marks a session that ends of its own
accord, so that `Streams` holds the others to reading everything.  "ghost" is a
session that calls SSL_new on a context that was freed.

**Uv** (libuv/tcp_server.c, libuv/tcp_client.c).  One action per callback.  The
handle of a connection is on the stack of on_connection, which has returned when
the loop uses it: `Overwrite` lets every later callback write over any such handle.
The loop does nothing defined with one that was overwritten, and the fairness of
the server ends there.  When uv_accept fails on_connection goes on to uv_read_start
("gone", with a handle that has no connection; an abort there is `ServerEnds`); an
error passed to on_connection is `OnError`.  Out of descriptors, `TurnAway`, libuv
closes the connection without a callback.

**DBus** (dbus/receiver.c, dbus/sender.c).  The bus orders signals in `log`; a
receiver's messages go from `net` (not read) to `queue` (read) to `shown` (printed).
The calls to the bus wait for a reply and queue what comes before it;
`First` is the one dispatch before the loop; `Pop` takes one message per round.  The
second filter handles every message, but the code adds the filter that it wrote
second first, so that dbus_message_handle1 never runs; `by` remembers who printed.
To dispatch removes the message: `FiltersSeeOwnName` looks for it in all of `shown`,
`queue` and `net`, so that neither the loop nor a later round can have it again.
The sender's method call goes to a name nobody owns.

**Camera** (uvc/main.c).  The program and the driver with its queues of buffers to
fill and of filled buffers.  Frames carry numbers, `Partial` stands for a buffer
that is being written, `Nothing` for memory that was never written.  `Return` is
the loop of camera_frame calls, whose results main ignores.  `Quit` and the error
paths leave the buffers as the code does.

**Yuyv** (uvc/main.c).  yuyv2rgb and the copy of jpeg into rows, one action per
iteration, on a frame (`yuyv`) that may be shorter or longer than the picture.  `Junk` is what
lies behind it.  The reference that `Picture` compares with (`Pixel`) is written per
pixel and without arrays; it takes the code's coefficients as they are (the green
channel's two are exchanged in comparison with the usual conversion).

`*Proofs` modules hold the theorems, `MC*` modules what only TLC needs.  CameraProofs
is about Camera and Yuyv, LoopProofs about DBus and Uv, the two programs built on an
event loop; therefore the names of Yuyv and Uv say whose they are (`YuyvInit`,
`UvNext`, ...).

## Runs

| run | instance | shows |
|---|---|---|
| file_lock | 2 runs = 4 processes | lock discipline per object (refinement of ReadersWriter), exclusion across runs until the first shm_unlink, no name left behind; a process told to quit ends unless the signal hits the window before fcntl |
| file_lock_single | 1 run, strong fairness of Lock | reader and writer serve each other for ever; a signal at any point ends its process |
| message_queue | 1 producer, 1 consumer (two receivers), room for 2, 4 messages | only the last message is lost, refinement of Stream (order, no hole, nothing sent after mq_close), with threads that could not be created; the stop works outside its window; what is queued is received |
| semaphore | 3 producers, 4 consumers, maximum 3 | the semaphore is destroyed unused, except when start_producer failed; all joins end after q (or the join of a missing thread crashes); a full semaphore is emptied again |
| tcp_server | 2 clients, 1 descriptor, backlog 1, 2 messages | own connection, no descriptor lost, refinement of Stream; stop outside its window, every message received, clients learn of the end |
| sock_server | 2 servers, 2 clients, backlog, descriptors and buffer of 1, 2 messages | refinement of Stream; the name comes back unless a server was killed or gave up, clients asleep in send are released, descriptors of ended clients are freed or were forgotten |
| tls_server | 2 clients, backlog 1, 1 or 2 descriptors, 1 message | the context outlives every SSL, refinement of Stream, stop outside its window, SSL_connect returns unless descriptors are gone again and again |
| uv | 3 clients, backlog 2, 2 descriptors | a client whose connection is gone ends; the server notices ends while no handle is overwritten |
| dbus | 1 receiver, 2 senders | the filters see one message only, which nobody sees again; signals due are printed once and in order, and in the end |
| camera_frames | 3 buffers, 8 frames | one owner, whole and later frames, sixth frame unless missed, termination |
| yuyv_convert | 4 sizes, 5 lengths of frame, 3 patterns | indices in their arrays, every pixel by the formula, clamped and rounded down |
| camera_skip | 4 buffers, 8 frames | *violation*: "skip 5 frames for booting a cam" (main.c:253) |

One more disagreement with a comment needs no run: "father process"
(file_lock.c:141) stands at the branch of the child, which writes, and "child
process" (144) at that of the parent, which reads.

**The bounds, and why they are enough.**  Two runs of file_lock are enough for a
conflict between two parents, two children, and across objects after an unlink: a
rule about records is about two processes.  In MessageQueue `MaxMsg` and `MaxCount`
replace the kernel's 10 messages and the 20 that fit in 20 s; with room for 2 and 4
messages the queue is full and empty, a sender is interrupted in and outside
mq_send with a number to follow, and two receivers of two processes race for each
message, of whatever run is dead or alive.  Semaphore has the program's own 3
producers and one consumer less than its 5; `SemValueMax` is reached.  In TcpServer
and SockServer two connections need one descriptor: it runs out and is used
again, after each other by connections of the same and of another server;
restarts are unbounded.  Two servers of SockServer interleave every unlink and
bind.  `MaxSent` limits what a client gets across; a client at that limit only
waits, as one that sleeps.  It is 2 where a run asks for more than the first message
(TcpServer, SockServer).  In TlsServer a start with one descriptor lets one client
wait for the other's, a start with two has sessions side by side.  In Uv two clients
are held and one waits or is turned away, or two wait and one cannot connect.  DBus has two senders whose signals come before, while and after the rule is
added; a second receiver that competes for the name changes what the bus sends,
and is beyond a run of this size: the theorems have it.  Camera has more frames than calls, and fewer buffers than calls, so that
frames are dropped and buffers come round.  Yuyv has frames that end inside a
picture, inside a pair of pixels, with it and behind it.

What the runs leave to larger instances - two producers on one queue, several
descriptors, a third server - the theorems below cover for all values of the
constants, for the safety properties.  Type invariants are
proved, and in no run.  Liveness about one of several
interchangeable processes is stated for an arbitrary one (`SomeRun`,
`SomeClient`) in the MC module; no run uses symmetry.

The runs of SockServer, Uv, DBus and Yuyv do not check for deadlock: servers
whose clients have all ended wait for more, and programs end.

## Fairness

Weak fairness of every process's or thread's own steps: a thread that can run
does run, and sleep, msleep and select with a timeout end.  Nothing is assumed
about the environment: nobody has to start a program, type q, send a signal,
kill or crash; no call has to fail, and neither clients of the local socket, which
may sleep in send for ever, nor the program's start are fair.  Steps that are failures stand
beside a success that is possible at the same time, or are left out of the fairness
(Camera's `Quit`, SockServer's `UnlinkFails`, `NoSocket` and `ListenFails`).  The
exceptions are consequences of a state, as `NoDescriptor` is of `Full`, and fair.

One run assumes more: `ServedSpec` has strong fairness of `Lock`, because a process stays away for 30 ms (msleep) after each unlock, in which the waiter the
kernel has woken gets the lock.  It is used for a single run only: readers of several
runs can overlap for ever and keep a writer waiting, and no property denies that.

Uv's server loop is fair only while no handle is overwritten: after that its
behaviour is undefined.  DBus assumes that the bus reads what it is sent.

The windows are part of the statements: `QuitOutsideWindow`, `StopOutsideWindow`,
`StopsOutsideWindow` say when a stop works and thereby when it need not.

## Proofs

The `*Proofs` modules prove, for all values of the constants, that

* FileLock is type correct, excludes until the first unlink (`MutualExclusion`)
  and on one object for ever (`ObjectExclusion`), leaves no name behind
  (`NoNameLeftBehind`) and implements ReadersWriter (`Refinement`);
* MessageQueue is type correct, loses only the last message (`NoHole`), delivers
  in order (`ReceivedInOrder`), closes last (`CloseIsLast`), and each run
  implements Stream (`RunsAreStreams`);
* Semaphore is type correct and destroys an unused semaphore (`DestroyedUnused`);
* TcpServer is type correct, keeps connections apart (`OwnConnection`) and forgets no
  descriptor (`DescriptorsKept`);
* TcpServer, SockServer and TlsServer implement Stream on each connection
  (`ConnectionsAreStreams`); the latter two are type correct, and TlsServer's
  context outlives every SSL (`ContextOutlives`);
* Camera is type correct, a buffer has one owner (`BuffersHaveOneOwner`), the driver
  has none when they are unmapped (`UnmappedIdle`), the picture is the sixth frame
  or later unless a call missed (`PictureIsSixth`) and head advances
  (`HeadAdvances`);
* Yuyv is type correct (`YuyvTypeCorrect`), stays in its arrays (`StaysInArrays`), and
  every pixel that has its bytes in the frame is right (`PictureIsFrame`);
* DBus is type correct (`DBusTypeCorrect`), shows the filters one message only
  (`OwnNameFiltered`), and prints signals once and in order (`SignalsInOrder`);
* Uv is type correct (`UvTypeCorrect`).

Assumptions: `InstAssumption` (None is no run), `MQAssumption` (producers and
consumers are different runs; the queue has room for a message),
`SizesAssumption` (there are threads, and values to post), `TcpAssumption`
(descriptors are numbers, None is neither a descriptor nor a client, the queue has
room), `SockAssumption` (likewise, and the buffer has room), `TlsAssumption`
(finitely many clients), `UvAssumption` (likewise, and the queue has room),
`YuyvAssumption` (frames are bytes from 0 on, pictures are not empty, and rows are of
even width).  The last is an assumption about callers: main
asks for 352 x 288; with an odd width the last pair of the last row would run
past the arrays.  `CameraAssumption` asks for buffers (REQBUFS grants at least one) and a number
of frames.

The inductive invariants, none of which is the property alone:

* FileLock: `HeldInside` (a lock is held exactly inside the section) turns
  the kernel's rule into exclusion on an object; `Birth`, `Fresh` and `OneObject` say
  that before the first unlink all runs have opened the object the name is bound
  to, which carries `Exclusion` across runs.
* MessageQueue: the numbers of a run are laid out in one line - received, queued
  in order (`Sorted`, `Ahead`), in the sender's hand - and `NothingGivenUp` says that
  a sender which has given a number up has been told to quit, so that it takes no
  other.  `Stages` and `Joined` follow main's order of flag, signals and joins.
  The refinement counts: mq_send adds one to what waits, mq_receive moves one from
  what waits to what was received.
* Semaphore: `Creating`, `Joining` and `Leaving` say for each place of main
  what has been created and joined; index and array bounds come from `LoopStart`.
* TcpServer: a connection is in one place - `Waiting` in the accept queue,
  `InHand`, or with a live session - and has at most one descriptor (`OneNumber`).
  For the refinement, `Drained` says that a session that was not told to stop has
  nothing left to receive, and `Closed` that nothing is sent to it any more.
* SockServer: `Waiting` and `InHand` likewise, per server; `Drained` says that a
  session gives up when its client has ended and nothing is left.
* TlsServer: `Counted` - the references are main's one, until it has dropped it,
  and one for each session between SSL_new and SSL_free; `MainEnds` and `Drained`.
* Camera: the frames in the driver's queues ascend above what is in head
  (`Ascending`, `InHand`), so that each call that copies one advances head;
  `Counted` sets the calls against frames and misses.
* Yuyv: in the loops i and j are below their limits and j is even (`InLoops`).
  `Converted` says of the bytes of rgb before the two pixels in work, and `Copied` of
  the rows before the one in work, that they are right (`Right`), if the
  four bytes were in the frame; what is Junk touches no other pixel because the
  two pixels of a step, and those of different steps, lie apart in rgb.
* DBus: `Early` says what a receiver can have in `net` and `queue` before its loop,
  which is why the one dispatch finds the notice of its own name; `Printed`
  that the filters were given the first message and the loop prints those after it;
  and `Has` lays out the messages of a receiver in one line - printed, queued, not
  read - in which the signals are `Due`: none before its rule, then the log since, or
  a beginning of that once the receiver has ended.  `OnlyFirst` says of the same line
  that the notice of the own name stands nowhere but in front.

Proved and not repeated by a run: type correctness, `ReceivedInOrder` (Streams
implies it), `CloseIsLast`, `UnmappedIdle` and `ObjectExclusion` (LocksObjects implies
it).  Every safety property of a passing run
is proved: the invariants, `LaterFrames`, `LocksObjects` and the four `Streams`.  Only
model-checked: everything about liveness (TLAPS does not do fairness and ENABLED
here), and the violation.

## Limits

* A handle that pthread_create has not written is undefined.  In MessageQueue and
  Semaphore pthread_kill and pthread_join on it return at once or crash the
  process; that it might by chance name another thread is left out.
* Message texts, log output and picture data are abstracted.  In particular
  receive buffers are printed without a terminating NUL; texts may show older
  bytes.
* A failing malloc is a crash (TcpServer), as is a failing fopen (Camera).
* getchar at the end of input makes semaphore.c spin; typing q is left to the
  environment, so nothing is claimed about a program that is never given one.
* `SafeDestroy` exempts the failure of start_producer, after which the code does
  destroy a semaphore in use.  `FullIsTransient` says that posts succeed again, not
  that no token is lost: a post at SEM_VALUE_MAX gives one up.
* The network is the loopback: it neither loses nor delays.
* FileLock's exclusion across runs ends with the first shm_unlink, by what the code
  does: whoever leaves unlinks the name, and the next run creates another object.
* A size that VIDIOC_S_FMT changes appears as a frame of another length (Yuyv);
  a format it changes would only change what the bytes mean.
* libjpeg's compression is not modelled: it is a call of the library on rows that
  Yuyv has made.  Neither are the fields of the ioctls of camera_init beyond
  success or failure: nothing the program does later depends on them.
* pthread_create writes session->tid, in TcpServer and TlsServer, when the session
  may already have freed it: the write is not modelled, it may hit any memory.
* Messages that D-Bus pops are never unreferenced: a leak.  libdbus stops to read
  a connection whose live messages have reached its limit, which is far outside the
  bounds of the run; what is said of the receiver holds below that limit.
  Messages read together with the disconnect are not printed.
* A SIGUSR1 from outside that reaches the producer before g_quit is set
  (mq_producer.c:85-88) would make mq_send fail and leave a hole; only the signals of
  main are modelled.
* A frame is whole when DQBUF returns it: V4L2_BUF_FLAG_ERROR, by which a driver marks
  one that is not, is not looked at in main.c:166-168, and not modelled.
* Certificates are taken to load; a server that cannot load them does not start.

**Not modelled.**  Nothing is left out that has a state: include/log.h formats
and prints, the build files have no behaviour, and all the other headers under
include/ are vendored declarations of OpenSSL, D-Bus, libuv and libjpeg, whose
libraries are archives without sources here.  They are almost all of the
lines of the repository; the C programs themselves have fewer than 1,800, and the
parts of these that have state are what the modules translate.  A library is
modelled only as the programs use it.

## Plan

Done, in this order: FileLock with ReadersWriter; MessageQueue; Semaphore;
TcpServer; Camera; the proofs of these; Stream with SockServer and TlsServer and
their proofs; Uv; DBus; Yuyv and its proofs; MessageQueue as a Stream; the values of
the conversion; the proofs of DBus and Uv; TcpServer as a Stream.

Left:

1. The texts of messages, with the lengths that make old bytes visible.
2. session->tid, as memory that may have been freed.
