# ryulib-cpp, in TLA+

TLA+ modules, TLC configurations and TLAPS proofs for ryulib-cpp, a C++ library of threads, queues,
sockets and audio/video streaming (`include/ryulib`, `include/ffmpeg`, `include/WASAPI`, and the DLLs
in `dll/` that wrap its classes). Paths below are relative to the root of the repository; a `.hpp`
without a directory is in `include/ryulib`.

* `<Component>.tla` is the specification of one class, or of a few that are of no use without each other;
  `MC<Component>.tla` and the `.cfg` files beside it are the instances TLC checks, 
  `<Component>Proofs.tla` its theorems (those of a class are in the module of the class built on it: `PipeSenderProofs` begins with `Worker`, `SchedulerProofs` ends with `TcpClient`).
* `tlc -config MCTcpClient.cfg MCTcpClient` runs a check, `tlapm SchedulerProofs.tla` checks proofs.
* `PROJECT.json` lists the components, the runs, which lines of the source each definition stands for,
  a mutant of the code for each property (the property fails for it), the findings and the hazards.

## 1. The system

The library is built in layers. Everything that runs concurrently stands on `SimpleThread`; work is handed
from thread to thread through `SuspensionQueue` (blocking) or `ThreadQueue` (not blocking); `Worker` and
`Scheduler` put a thread and a queue together; the sockets, the pipe, the voice and the video classes are
users of these.

```
 TcpClient   DesktopCapture   FFPlayer  ── FFStream, FFVideo ── ThreadQueue, SimpleThread, WindowSDL
     │             │           │   │
     └──────── Scheduler ──────┘   └────── FFAudio ── AudioSDL ── ThreadQueue, SDL's callback
                │     │                       │
       ThreadQueue  SimpleThread ────────── Worker ── PipeSender
                          │                   │
 AudioUnZip ── AudioDecoder ──────── SuspensionQueue ── SystemAudioCapture ── AudioCapture ── AudioInput
     └──── AudioOutput ── ThreadQueue                        │        └── SystemAudio, AudioResampling
                                                         MemoryBuffer ── VideoCreater (two of that name)
 SocketServer, SocketClient ── boost::asio      SocketClient, SocketServer ── create_packet, PacketReader
```

### Components, their state and what makes them correct

| component | state | operations | interaction | what should hold |
|---|---|---|---|---|
| `SuspensionQueue` | `queue_`, `is_terminated_`, a mutex, a condition variable | `push`, `pop` (two), `terminate` | any threads; notification after the unlock | no wake-up is missed; FIFO, nothing lost or doubled; a sleeper gets out on `terminate()` |
| `ThreadQueue` | `queue_`, a mutex | `push`, `pop` (two), `front` | each call one critical section, so a test and a pop are two | a single consumer may test first; FIFO |
| `SimpleThread` | `is_terminated_`, `thread_`, a condition variable, `on_terminated_` | constructor, destructor, `sleep`, `sleepTight`, `wakeUp`, `terminate`, `terminateAndWait`, `terminateNow` | the owner and the thread; guard and wait not under one lock | a sleeper is woken and joined; `on_terminated_` once for the end of the thread and for each `terminateNow()`, not before the thread is over |
| `Worker` | a `SimpleThread`, a `SuspensionQueue` of tasks | `add` (five), the terminate calls, `setOnTask` | clients push, the thread runs `on_task_` | tasks in order, each once, all of them |
| `Scheduler` | a `SimpleThread`, a `ThreadQueue`, `started_` | `add` (five), `start`, `stop`, terminate calls | the thread drains the tasks, then `on_repeat_` or `sleep(1)` | tasks in order and all of them; `stop()` is obeyed; ending it returns |
| `PipeSender` | the pipe, `is_connected_`, a `Worker` | `open`, `close`, `send` | the pipe is created in the caller's thread, used in the worker's; `send` tests in the caller | no handle is closed twice, and none is lost but to an `open()` of another name; data goes to the connection it was meant for |
| `DesktopCapture` | `option_`, `bitmap_`, a `Scheduler` | `start`, `stop`, `terminateAndWait`, `on_repeat_` | `start()` replaces in the caller's thread what `do_capture` uses | a capture uses a live bitmap of its size; `stop()` and the end are obeyed |
| `TcpClient` | `socket_`, a `Scheduler` | `connect`, `disconnect`, `sendData`, `sendText`, `terminate` | calls become tasks; `recv` is polled in `on_repeat_` | data goes to the connection it was meant for; a loss is reported once; calls are carried out |
| `SocketServer` | `connection_list_`, per connection `packet_`, `is_connected_`, pending operations | accept and read/write handlers, `sendToAll/Other/UserID` | `io_context` runs the handlers one at a time, in any order | the list holds live connections only and agrees with the events |
| `SocketClient` | `io_`, `socket_`, the io thread, a `PacketReader` | `connect`, `send` (two), `disconnect`, handlers | caller's thread beside the io thread, which `disconnect` cancels | the peer reads what was sent; no event after `on_disconnected_`; a loss is told |
| `PacketReader`, `create_packet` (`SocketUtils.hpp`) | a byte buffer, lengths of 16 bits | `write`, `read`, `canRead`, `clear` | single-threaded, fed what the socket delivers | packets come out as they went in |
| `AudioDecoder` | a `SuspensionQueue`, a thread, the opus decoder | `add` (trims), the decoder loop | `add` is a second consumer of the queue it fills | packets in order, delay bounded, `add` returns |
| `AudioUnZip`, `AudioOutput` (`AudioIO.hpp`) | an `AudioDecoder`, a `ThreadQueue`, a PortAudio stream | `play`, `skip`, the callback, the destructor | four threads: callers, decoder, sound card, whoever skips | heard in order, once, all of it; nothing skipped or trimmed is heard |
| `AudioCapture`, `AudioInput`, `SystemAudioCapture`, `SystemAudio`, `AudioResampling` | streams, `pwfx`, `swr_ctx`, two `MemoryBuffer`s, two queues | `start`, `stop`, the worker, the resampling thread, the microphone's callback | four threads share buffers and pointers without a lock | nothing freed is used, nothing calls back after `stop()`, nothing old is heard after a restart, nothing but the excess of long packets piles up |
| `MemoryBuffer` | a queue of `Buffer`s, `size_` | `write`, `read`, `clear` | single-threaded; callers lock, or do not | a read returns the next bytes exactly |
| `VideoCreater` (`include/ryulib`, `include/ffmpeg`) | contexts of libav*, time stamps, `audio_buffer` | `open`, `writeBitmap`, `writeAudioPacket`, `isVideoTurn`, `close` | single-threaded; any step of `open` may fail | audio in whole frames and in order, tracks together, nothing leaks, a trailer for each header |
| `FFPlayer` (`FFStream`, `FFAudio`, `FFVideo`, `AudioSDL`, `WindowSDL`) | contexts, queues of packets and of buffers, time stamps, the device and the window | open, close, play, pause, move, `terminateNow` | five threads share contexts without a lock | no packet is freed twice, one picture of a closed file at most gets to the next, a file is read to its end, `on_EOF_` once per `play()` |
| `AudioZip`, `VideoZip`, `VideoUnZip`, `FFmpegController`, `Timer`, `HttpDownloader`, UDP, strings, images, compression | little or none | | | see "Not modelled" |

### Where it is hard

* Notifications are sent after the unlock, flags are read without the lock, guards and waits are apart:
  interleavings decide whether a thread sleeps for ever (`SuspensionQueue`, `SimpleThread`).
* Two critical sections where the code needs one (`size()` then `pop()` in `AudioDecoder::add`).
* Threads that are killed or cancelled (`terminateNow`) hold locks (`SuspensionQueue`, `AudioSDL`), or are still on their way (`SocketClient`).
* Calls that become tasks act on a state that has changed since (`TcpClient`, `PipeSender`, `FFPlayer`).
* Pointers that one thread frees or nulls and another follows (`FFVideo`, `FFAudio`, `AudioResampling`, `DesktopCapture`).
* Completion handlers in any order, with failures between them (`SocketServer`, `SocketClient`).
* Failures half way through an `open` that may be called again (`VideoCreater`, `SystemAudio`, `AudioOutput`, `FFPlayer`).
* Constructors start threads that use members which are not there yet (`Scheduler`, `SystemAudioCapture`).
* Lengths of 16 bits, boundaries between packets and frames (`create_packet`, `PacketReader`, `MemoryBuffer`, `VideoCreater`).

## 2. The modules

| module | stands for | composes |
|---|---|---|
| `FifoQueue` | what a blocking queue promises its callers (abstract) | |
| `Mailbox` | what a worker or a scheduler promises whoever gives it tasks (abstract) | |
| `SuspensionQueue` | `SuspensionQueue.hpp` | refines `FifoQueue` |
| `SimpleThread` | `SimpleThread.hpp` with the loop its users write | |
| `Worker` | `Worker.hpp` | `SimpleThread`, `SuspensionQueue`; refines `Mailbox` |
| `PipeSender` | `PipeSender.hpp` and its DLL | extends `Worker` |
| `ThreadQueue` | `ThreadQueue.hpp` | |
| `Scheduler` | `Scheduler.hpp` | `SimpleThread`, `ThreadQueue`; refines `Mailbox` |
| `DesktopCapture` | `DesktopCapture.hpp` | extends `Scheduler` |
| `TcpClient` | `TcpClient.hpp` | extends `Scheduler` |
| `AudioDecoder` | `AudioDecoder.hpp`, `AudioZipUtils.hpp` | `SuspensionQueue` |
| `AudioPlayback` | `AudioUnZip.hpp`, `AudioOutput` of `AudioIO.hpp` | extends `AudioDecoder`; `ThreadQueue` |
| `MemoryBuffer` | `MemoryBuffer.hpp` | |
| `VideoCreater` | both `VideoCreater.hpp` | extends `MemoryBuffer` |
| `AudioCapture` | `AudioCapture.hpp`, `SystemAudio.hpp`, `SystemAudioCapture.hpp` of `include/ryulib` and `include/WASAPI`, both `AudioResampling.hpp`, `AudioInput` of `AudioIO.hpp`, the DLL | |
| `PacketReader` | `create_packet` and `PacketReader` of `SocketUtils.hpp` | |
| `SocketClient` | `SocketClient.hpp` | extends `PacketReader`, twice: its own, and the peer's |
| `SocketServer` | `SocketServer.hpp` | |
| `FFPlayer` | `include/ffmpeg/FF*.hpp`, `sdl_audio.hpp`, `sdl_window.hpp` | `ThreadQueue` (tasks, pictures) |

Components are composed with `INSTANCE`, or with `EXTENDS` where a class is what another one adds to it. The thread's variables and actions in `Worker`, `Scheduler`
and everything above them are those of `SimpleThread`, the queue's those of `SuspensionQueue` or `ThreadQueue`, so what is
checked of the whole is checked of the same definitions as of the parts. `Worker`, `Scheduler`, `AudioDecoder` and `MemoryBuffer` therefore have no run of their own:
they are checked with their callers around them (a mutant in `SuspensionQueue.Push` breaks a property of `pipe_sender`).

How state and actions correspond to the code:

* **SuspensionQueue.** `queue`, `isTerminated` are the members; `pc[t]` says where a thread is in its call. A critical
  section is one action (`Push`, `PopBegin`, `PopResume`), except that a consumer which found the queue empty
  holds the mutex in `"mustWait"` until `wait` releases it, because `terminate()` sets its flag and notifies without
  the mutex. `PushNotify` and `TerminateNotify` are steps of their own, as in lines 31 and 65. Wake-ups may be spurious.
* **SimpleThread.** `tpc` is the thread, `cpc` the owner. Guards of `sleep` and `sleepTight` (41, 49) and the waits (43-52)
  are two steps; `wakeUp` holds the mutex and is one. The loop body is any of `BodyCalls`. `terminateNow` is both of its builds:
  the cancelled thread stops at once (`TerminateThread`) or at a cancellation point (`pthread_cancel`). Other work of the body may end with a `sleep`, as the callbacks of `Scheduler` do; `nows` counts the calls of `terminateNow()`. Detaching or
  joining a thread that is gone throws out of the call and ends the model in `"aborted"`.
* **Worker.** The body is one blocking `pop`, the call of `on_task_`, the release of the task.
* **PipeSender.** What `open` and `send` do before `worker_.add` is a step of the caller (`Open`, `Send`), the `add` another (`AddTask`). A pipe is the number of the `open()` that
  created it, and has a name: Windows refuses a second instance of a name (`nMaxInstances` is 1), while another name is opened at once, so that `do_open` may overwrite a `pipe_` that is in use. `ConnectNamedPipe` and `FlushFileBuffers` block (`waiting`) until the reader of the other end comes, reads or goes; a reader that comes before `ConnectNamedPipe` makes it fail.
* **Scheduler.** `stage` says where the loop of lines 109-127 is: draining tasks, running one, between the test of `started_` and `on_repeat_`,
  in `on_repeat_`. Calls are possible before the constructor has stored `thread_`; the thread using it before then sets `crashed`.
* **DesktopCapture.** Each statement of `start()` and each use of `option_` and `bitmap_` in `do_capture` is a step; `torn` remembers that a capture used a freed bitmap or one of another size,
  `undisturbed` that neither a `start()` nor the destructor overlapped it. The bounds of the window decide the bitmap's size, an iconic window is skipped. A capture ends with `scheduler_.sleep`, which sleeps once the thread is terminated.
* **TcpClient.** A socket is the number of the connect task that made it, so that two connections are told apart. Every system call may fail:
  `Connect` covers the failing `socket()`, `connect()` and success; `SendFails`, `BrokenPipe` (SIGPIPE), `Receive`/`EndReceive` are the sending and polling side;
  `PeerGone` is the other end.
* **AudioDecoder, AudioPlayback.** An adder is a producer (`PushSide`) and, while it trims, a consumer (`PopSide`) of the same queue. `output` is the `ThreadQueue` that the decoder's thread fills,
  the callback and `skip()` empty: `skip()`'s test and pop are two steps. `stream` tells the ways apart in which opening the device may fail.
* **MemoryBuffer.** A byte is its position in the stream of all bytes written, a `Buffer` is a position and a size; one action per iteration of `read`'s loop.
* **VideoCreater.** `state` is the function of `open` (or of the constructor) that runs next, each of which may fail after any of its allocations (`Stage`); `held` is what the object's pointers refer to, `leaked` what
  no pointer does any more. `writeAudioPacket` writes to `MemoryBuffer` and loops over its reads; `Frame` counts as the code counts before it fails. Both classes are in one module, `lib` tells them apart.
* **AudioCapture.** `call` is where the owner is in `start()` or `stop()`, `doing` the resampling thread; the worker and the microphone's callback are one action each. A byte of the buffers is the number of the `start()`
  in which it was captured. `OpenResampling` and `OpenConverter` are the two halves of `AudioResampling::open`, before and after `swr_alloc`: between them, and after a failure to get `dst_data`, there is a context without a buffer (`"bare"`), which `execute()` follows. `overIn` and `overOut` count what single packets and conversions bring beyond a read. What would be undefined behaviour (a double free, a freed resampler, a buffer two threads change, members not yet set, a destroyed object) is named in `broken` and ends the behaviour.
* **PacketReader, SocketClient.** A byte is its packet, its place and the `packet_size` its header carries, so that cutting a stream at the wrong place shows. The io thread is `thread`; an operation of asio is pending, then
  its handler is in `ready`; handlers run one by one. `Close`/`Renew` are the two halves of a repeated `connect()`. An `async_write` writes what the socket takes and leaves the rest, which is read from where the packet was; while the socket connects it takes nothing, and the write waits for the connect.
* **SocketServer.** One action per completion handler; `outgoing[c]` are the pending writes, each with the place its bytes are in (the receive buffer of some connection, or memory of the sender);
  a `Connection` lives while an operation is pending on it.
* **FFPlayer.** `spc` is the scheduler's thread in a task, in `on_repeat_` or in `do_close`; `apc` the worker's; `vpc` the video thread's; `Callback` SDL's; `ending` the client's in
  `terminateNow()`. A context is the number of the `open()` that made it, 0 for `nullptr`. `OpenAudio`, `OpenVideo` have each way to fail, with what each leaves behind. Killing a thread may leave the mutex it was using locked.
  `is_empty()` and `pop()` of the loop that empties the queue of pictures (`FFVideo.hpp:82-85`) are two steps, in `do_close` (`IsEmpty`, `DropPicture`) as in `terminateNow()` (`EndIsEmpty`, `EndDropPicture`). `Pts` gives each packet the time stamp it has
  in its own stream; the code compares those of the two streams as they are, and so does the model (`Sync`, `TestPts`), which claims nothing of the order that gives. `NoPts` is what a decoder starts with.

## 3. Runs

All runs explore their instance completely, except that a `violation` run ends with its counterexample. `CHECK_DEADLOCK FALSE` is set where
the system really stops (all calls made, thread ended, object destroyed).

| run | states | what it asks |
|---|---|---|
| `suspension_queue` | 33,000 | two producers, two consumers, three pushes, `terminate()` at any time: `NoMissedWakeup`, `TerminateReleasesSleepers`, and that every step is one of a `FifoQueue` (`FifoSafe`) |
| `simple_thread` | 1,266 | three terminate calls of any kind, `wakeUp`, the destructor: `TerminatedEventOnce`, `SleeperIsJoined` |
| `pipe_sender` | 1,088,000 | two callers, two names, four calls, readers that come early, late, never, or leave: `TasksHandledInOrder`, `PipeIsAccountedFor`, `SentToItsConnection`, `EveryTaskHandled`, and that every step is one of a `Mailbox` (`MailboxSafe`) |
| `desktop_capture` | 1,000 | a screen and a window of two sizes, started, restarted, stopped, ended, destroyed: `StopAllowsOneMore`, `TornOnlyByRestart`, `TerminateAndWaitReturns` |
| `tcp_client` | 44,000 | owner and another thread, three calls, every failure: `WrittenWhereMeant`, `LossIsFinal`, `EveryTaskHandled`, and `MailboxSafe` again |
| `audio_playback` | 102,000 | two adders, four packets, `skip`, the callback, every failure of the device, the destructor: `PlayedInOrder`, `DelayBounded`, `EveryPacketIsHeard`, `StuckOnlyTrimming` |
| `audio_capture` | 2,657,000 | three starts, four packets, both libraries, every failure of the devices and of the resampler, the destructor: `SafeUntilStopped`, `QuietAfterStop`, `FreshUnlessUnderway`, `KeepsUp` |
| `video_creater` | 2,042,000 | both classes, two opens that fail anywhere, three bitmaps, seven bytes of sound, failures of each write: `BuffersContiguous`, `AudioInFrames`, `TracksStayTogether`, `NothingLeaksUnlessOpenFails` |
| `socket_server` | 12,000 | two connections, two packets each, failure at any time: `ListedIsAlive`, `ListedIffConnected`, `BrokenIsFreed` |
| `socket_server_echo` | violation | one connection, two pending writes: `EchoIsIntact` |
| `socket_client` | 1,372,000 | two connects, two sends of a size that fits and has a body or of one that wraps, while connecting too, a packet from the peer, loss, disconnect and destructor at any time: `PeerReadsWhatWasSent`, `DisconnectIsFinal`, `LossIsTold` |
| `ff_player` | 1,105,000 | a file of sound, two pictures and sound, three calls of any kind, `terminateNow()` at any time: `HeldOnce`, `EofOncePerPlay`, `OneStrayPicture`, `FirstFileIsRead`, `TerminateNowReturns` |

Types are proved, by the `TypeCorrect` theorems, and not checked again by the runs. Nor are `TasksInOrder` of `Scheduler` and `EmptyHandedOnlyIfTerminated` of `SuspensionQueue`, which are proved too:
a run checks them as parts of `MailboxSafe` and of `FifoSafe`, since an abstract step takes the oldest task, and leaves a queue empty-handed only once that is closed.

### Bounds, and why they are enough

* `MaxPushes`, `MaxAdds`, `MaxCalls`: calls in one history. Order and loss need two items, a wrong wake-up two consumers and a
  third item; a task between a connect and a send needs three calls; a pipe that is closed and opened again under a queued send needs four; two opens of different names need two.
* `MaxEnds`: terminate calls. `simple_thread` has three, so that a second and a third call meet whatever the first left; the compositions have one.
* `DelayLimit = 1, Keep = 0` instead of 4 (`AudioZipUtils.hpp:13`) and 2 (`AudioDecoder.hpp:32`) in `audio_playback`: the same boundaries with fewer packets; `MaxSkip = 1`, as each packet skipped is a test and a pop of its own.
* `MaxBuffers = 3`: the first, a middle and the last `Buffer` of a read. Packets of 0, 1 and 5 bytes and frames of 2 in `video_creater`: a packet that completes no frame, one, or more than one; write size 0 occurs
  (`AudioResampling.hpp:143`), read size 0 does not and is excluded by `BufferAssumption`: `read(0)` would delete every `Buffer` while `size_` still counts them.
* `Garbage = {0, 1}`: what members that nobody initialises may hold, the value that happens to be right and one that is not.
* `SrcSize = DstSize = 2`, `PacketSizes = Conversions = {1, 3}`: less than a frame or a result, and more. The theorem `OneReadKeepsUp` has no such bounds.
* `MaxStarts = 3`: a restart of a restarted capture; `MaxDelay = 1` is the limit at which packets are dropped.
* `Modulus = 3, HeaderSize = 1, Sizes = {1, 2}`: a packet that fits into `packet_size` and has a body, so that the stream is also cut between header and body, and one whose size wraps to less than a header,
  which stands for data of 65533 bytes and more. A cut within a header is left to the theorem `ReadAsSent`, which is about any header, `Modulus` and sizes.
* `MaxHeaders = 2`, `MaxWrites = 1` or `2` (`SocketServer`): a packet that overtakes the one before it; a write behind another. Connections act on each other through the list and the broadcasts only, so two suffice.
* `File` of four packets: two of each kind, with time stamps that make the second picture wait for a sound; two buffers in `AudioSDL` is the code's limit.
* Nothing in the modules but these bounds stops a call from being made.

### Fairness

* Weak fairness of a thread's steps: threads that can run do. In `SuspensionQueue` strong fairness where a thread asks for the mutex, which other
  threads take and release again and again; `AudioDecoder` and `AudioPlayback` need the same, as adders and decoder compete for it.
* Nobody is obliged to call anything: no fairness for `push`, `add`, `terminate`, `open`, ... A call that has begun goes on.
* Callbacks of the user return. A `wait_for` ends after its time. Spurious wake-ups are possible and never promised.
* `PipeSender`: no reader is obliged to come (`EveryTaskHandled` says so); one that is there reads or goes.
* `AudioPlayback`: the sound card calls back as long as the stream plays.
* `SocketServer`, `SocketClient`: the operating system completes the operations of a broken connection, `io_context` runs the handlers.
* `TcpClient`: `WF(EndReceive)` says that a peer does not send for ever without a pause; the code reads until `recv` has nothing, so tasks wait for that.
* `FFPlayer`: SDL calls back as long as the device is running. There is no fairness for the video thread, which no liveness property needs.
* `AudioCapture` and `VideoCreater` have no liveness property and no fairness: the one is driven by devices, the other by its caller.

## 4. What is proved

TLAPS proves the following for every value of the constants (any number of threads, tasks, connections, sizes), from the named
assumptions on the constants, each of which TLC evaluates on the instances too.

| module | theorems | argument |
|---|---|---|
| `SuspensionQueueProofs` | `TypeCorrect`, `NoWakeupIsMissed`, `SleepersSawEmpty`, `NothingLostOrReordered`, `OnlyTerminateGivesUp`, `ImplementsFifo` | `NoMissedWakeup` is not inductive: a consumer about to wait might have been overtaken by a push. `WaitsOnlyOnEmpty` (it holds the mutex, is alone, and the queue is still empty) closes it. For `ImplementsFifo` each step is a step of `FifoQueue` or leaves its variables alone. |
| `SimpleThreadProofs` | `TypeCorrect`, `OnlyTerminatedThreadsBlock`, `TerminatedOnce` | strengthened by `CancelledIsAsked` (a cancelled thread was asked to be) and `FiringsCounted` (each call of `on_terminated_` is paid for by a `terminateNow()` that has come to it, or by the end of the thread) |
| `PipeSenderProofs`: `Worker` | `OrderIsKept`, `TypeCorrect`, `WorkerIsMailbox` | strengthened by `HandInv`: a task that was popped and is not handled is in the hand of the thread, between its `pop` and the end of `on_task_`; and by `ExecutedInv`: since `setOnTask` nothing handled was left out. The queue's invariants are taken over from `SuspensionQueueProofs` by `INSTANCE`: every step of a worker is a step of its queue, or leaves it alone, or cancels the thread inside `pop` (`QueueMoves`); its thread's from `SimpleThreadProofs` in the same way (`ThreadMoves`). `WorkerIsMailbox` needs both: `HandInv` says what a mailbox has in hand, and a thread that pops or runs a task was not joined; one that came to its end has nothing in hand. |
| `PipeSenderProofs`: `PipeSender` | `SenderUsesWorker`, `SenderOrderIsKept`, `SenderIsMailbox`, `InstanceIsAccountedFor`, `SentWhereMeant` | Every step of a sender is a step of its worker or leaves it alone (`SenderUsesWorker`, a refinement), so that the worker's invariant holds inside. `UniqueInv`: no two tasks on their way open the same instance, and none that was begun comes again. `ComingInv` and `PlacesInv`: an instance whose `do_open` is still to come exists and is in one caller's hand, the queue or the worker's hand, and one whose `do_open` has begun is `pipe_`, closed, or overwritten. `PipeInv`: `pipe_` is what the last `open` begun has made it, with nothing but sends since. `WaitingInv` keeps the two together while `ConnectNamedPipe` blocks; `WrittenInv` is then the second theorem. |
| `SchedulerProofs`: `Scheduler` | `OrderIsKept`, `StopIsSoonObeyed`, `TypeCorrect`, `SchedulerIsMailbox` | strengthened by `TaskOnlyInBody` and `RepeatWasAllowed` (while `started_`, none was late). The thread's own invariant is taken over from `SimpleThreadProofs` by `INSTANCE`: every step of the scheduler is a step of the thread, or leaves it alone, or is a `wakeUp` from a client, which the lemma `WakeKeepsThread` adds. `SchedulerIsMailbox` goes as `WorkerIsMailbox` does, with `TaskOnlyInBody` for `HandInv`. |
| `SchedulerProofs`: `DesktopCapture` | `CaptureUsesScheduler`, `CaptureStopsSoon`, `TornByRestartOnly` | the capture refines its scheduler as the sender its worker. `CaptureInv`: outside a `start()` the bitmap is live and of the size `option_` asks for, and what a capture has taken from both is still what they are, unless it was disturbed. |
| `SchedulerProofs`: `TcpClient` | `ClientOrderIsKept`, `ClientIsMailbox`, `ClientWritesWhereMeant`, `ClientLossIsFinal` | `SocketInv`: `socket_`, when it is not 0, is the connection that the last connect or disconnect among the tasks handled so far asks for, and it is the only one open, up or down; all reports of a loss are of earlier ones. `TasksInOrder` makes "handled so far" a prefix of the calls, which is what `WrittenWhereMeant` speaks of. |
| `AudioProofs`: `AudioDecoder`, `AudioPlayback` | `DelayIsBounded`, `HeardInOrder` | The invariants of `SuspensionQueueProofs` hold of the decoder's queue with each adder as a producer and a consumer. `HeldApart`: what was popped is in one hand, an adder's or the decoder's, or was trimmed or decoded. `DelayInv` counts the adders between their test and their push (a finite set, by `DecoderAssumption`), `OutputInv` does for the `ThreadQueue`, the callback and `skip()` what `HeldApart` does for the other queue. |
| `AudioProofs`: `AudioCapture` | `QuietIsInductive`, `StoppedIsQuiet`, `RoomIsInductive`, `OneReadKeepsUp`, `SafeWhileStarted`, `RestartIsFresh` | `Quiet`: what runs (the stream, the worker) belongs to an object that `stop()` would find, in every step of `start()` and `stop()`. `RoomLeft`: what the thread holds and what is in the buffers, at each step of its loop, is bounded by one frame more than between two packets, and the excess of long packets and conversions, which no read ever takes back. `FormatInv`: a worker that runs has a live format, so `close()` frees none twice. `FirstStart`: as long as nothing has stopped or failed, the owner is in its first `start()` or has come through it; the resampler has its buffer, or none, or is being opened. `FreshInv`: `OnTheWay` says where something captured before the last `do_clear` may still be, at each step of the owner. |
| `VideoCreaterProofs` | `TypeCorrect`, `Contiguous`, `SizeIsRight`, `ReadsAreExact` of `MemoryBuffer`; `CreaterContiguous`, `AudioIsFramed`, `TracksKeptTogether`, `NothingLeaks` of `VideoCreater` | strengthened by `CopiedSoFar`: inside a read the bytes copied so far are the ones after the last read; with `SizeMatches` the loop cannot run out of `Buffer`s. `FramesInv` counts frames encoded, failed and in progress against bytes read; `TurnsInv` bounds both tracks at each step of the encoding of a packet, with the largest packet as the measure; `HeldInv` says what an object holds after each stage of `open`. |
| `FFPlayerProofs` | `PacketsHeldOnce`, `EofIsPlayedOut`, `OneStrayEscapes` | `PacketInv`: along the way of each kind of packet (the worker's queue and its hand; the queue of pictures and the video thread's hand) packets differ from each other, and none is one the reader has yet to read. `EofInv` pays for each `on_EOF_` with a `play()`, also for the one that is about to be called. `ContextInv`: a context is that of an `open()` or none. `StrayInv`: pictures of a closed file are queued only while `close()` is emptying the queue, and as long as the video thread has one of them in its hand no other has reached a decoder. |
| `SocketProofs`: `SocketClient` | `ToldOnce`, `ReadAsSent` | `TurnInv`: until a write fails a connection has one turn, its pending read or connect or the handler that waits, and `on_disconnected_` takes it; an `io_context` that was cancelled has none. `StreamInv`: what the reader holds, what is on the wire and what the socket has not taken of a pending write is one sequence of bytes, `Orderly`: whole packets, end to end, from the one after the last heard to the last one sent. |
| `SocketProofs`: `SocketServer` | `TypeCorrect`, `ListIsSafeToFollow`, `ListTellsConnected` | strengthened by `FreshIsUntouched`: a connection that nobody has connected to has no reads, writes or events |

So every invariant, and every property of steps, that a passing run checks is also a theorem.

Assumptions that the theorems need, beyond types and that the "nothing" values (`NULL` in the code: `NoTask`, `NoPacket`, `NoItem`, `NoConn`) are not among the real ones:
`Keep <= DelayLimit` (`AudioDecoder`; the code has 2 and 4), no empty packet (`AudioCapture`; packets and conversions are of any length else), a header of at least a byte and a `packet_size` that can hold
one more (`SocketClient`), reads of exactly a frame and a largest packet (`VideoCreater`: what a call gives is an `int`), no read of 0 bytes (`MemoryBuffer`), one terminate call (`PipeSender`: its destructor's).

Only model-checked: the liveness properties `TerminateReleasesSleepers`, `SleeperIsJoined`, `EveryTaskHandled`, `TerminateAndWaitReturns`, `EveryPacketIsHeard`, `StuckOnlyTrimming`, `BrokenIsFreed`, `FirstFileIsRead`, `TerminateNowReturns` and `LossIsTold`, since
the provers cannot reason about fairness with `ENABLED`; and `EchoIsIntact`, which is false. Induction over data is out of the provers' reach too. No theorem needed it:
a stream of packets is described by what holds between neighbouring bytes (`InStep`) and not by a recursive concatenation.

## 5. Findings

With a run that shows it:

* **A forwarded packet is overwritten** (`socket_server_echo`). `handle_read_body` passes `packet_` to `on_received_` and then reads the next header into it,
  while the `async_write` that `sendToAll` started still reads from it. The echo server of `examples/test_SocketServer` does this.

Seen while modelling. These are in the models as behaviour, with the property that says exactly what is left, but have no run of their own:

* The guards of `sleep` and `sleepTight` (`SimpleThread.hpp:41,49`) let only a *terminated* thread sleep: `OnlyTerminatedThreadsBlock` proves that a thread that was not told to stop never does.
  Loops built on them spin, and `terminateAndWait()` may join a thread that went to sleep just after the only `wakeUp()`. `SleeperIsJoined` says what is left. `Scheduler` is not affected: it uses the timed `sleep`.
* After `terminate()` or `terminateAndWait()` the destructor of `SimpleThread` (36) detaches a thread that is not joinable, which aborts the program, as would the end of `examples/test_SimpleThread_03`.
* `Worker::terminateAndWait()` wakes the thread's condition variable, not the queue's, so that an idle worker, and with it the destructor of an idle `PipeSender`, never returns.
* `PipeSender`: an `open()` of a second name without a `close()` before it overwrites `pipe_`, and the first pipe stays open for good; `PipeIsAccountedFor` says that nothing else loses one. `send` tests `is_connected_` in the caller's thread, so that data meant for one pipe goes to the next if an `open()` is queued in between
  (`SentToItsConnection`: to the last open queued before it). A reader that opens the pipe before `ConnectNamedPipe` makes it return FALSE (`ERROR_PIPE_CONNECTED`), and the pipe is closed under it (76-80). `ConnectNamedPipe` holds up every later task until somebody reads (`EveryTaskHandled`).
* `AudioDecoder::add` may not return: `size() > 2` and the blocking `pop()` (32-33) are two critical sections. If the decoder empties the queue in between, `add` waits for a packet only its own caller would add.
  `StuckOnlyTrimming` shows that this is the only place it is held up in, `EveryPacketIsHeard` that the sound goes on all the same. It compares with `>` before it pushes, so that up to one packet more per adder than
  `MAX_DELAY_LIMIT_COUNT` waits; `DelayBounded` is stated with that.
* `TcpClient`: `close()` is commented out, so descriptors are never given back; `recv` returning 0 is taken for no data, so that a peer that closes is only noticed by sending; a send to it may raise SIGPIPE;
  a disconnect that `terminate()` queues may never run.
* `SocketClient`: a second `connect()` or the destructor while the cancelled io thread is not over destroys `io_` under it, and `connect()` destroys `io_` before the `socket_` that uses it (35-36); `disconnect()` from a handler cancels its own thread;
  `send()` before the first `connect()` follows `nullptr`; a send while connecting waits for the connect, and its packet was freed meanwhile if it was of `send(type, data, size)`; after a failed write `on_disconnected_` may run more than once, and after other events (`DisconnectIsFinal` excludes that);
  a packet that the socket does not take at once is freed while the rest is still to be written, and a second one gets between (`PeerReadsWhatWasSent` names both); memory from `malloc` is given to `delete`.
* `create_packet` takes the size of the packet modulo 65536: data of 65533 bytes and more make a header that lies, and a `packet_size` less than a header gives the reader a negative length. `PacketReader.read` moves what is left with an overlapping `memcpy`.
* `DesktopCapture`: `start()` frees `bitmap_` while a capture may be using it, and replaces `option_` first; `TornOnlyByRestart` says that nothing else tears a picture.
* `FFPlayer`: the second file never comes to its end, because `WindowSDL::open` closes the window that is still open from the first, and `SDL_Quit()` there takes the audio device along that was opened just before (`sdl_window.hpp:20,50`, `FFPlayer.hpp:29,35`);
  `FirstFileIsRead` is stated for the first, and of its reading only: when that ends, `do_close()` (74) throws away the sounds and pictures that are still queued, and `on_EOF_` is called after it, though the comment at line 131 (in Korean) says that the event is for when the video was played completely. Closing a file while the worker or the video thread is between its test of the context and its use follows a null pointer (`crashed`, which TLC reaches); `TASK_MOVE` with no file does so at once.
  A packet of one file that the worker or the video thread still holds may be decoded with the context of the next (`OneStrayPicture`: one picture at most; the worker's queue is not emptied at all).
  Pictures wait for sound by comparing time stamps of two streams as they are (`FFVideo.hpp:22,97`, `FFAudio.hpp:104`), which is right only where both have one time base.
  `target_pts_` is not reset by `open()`, and the video's time stamp stays ahead after a seek backwards, until the sound has passed it.
* `AudioCapture`: `fin_values` frees `pwfx` and keeps the pointer, so that a device that fails to open after an earlier `close()` has it freed twice (`SafeUntilStopped` says: only then); WASAPI's `SystemAudioCapture` does not look at `open()`'s result
  and follows that pointer; a resampler that gets no `dst_data` stays open and is used all the same (`ffmpeg/AudioResampling.hpp:101-104,111-113`); nothing limits what a packet or a conversion may bring beyond the one read that follows it, and that stays in the buffers (`KeepsUp`: nothing else does); `stop()` and a restart free `swr_ctx` and `dst_data` under a conversion, and clear a buffer the thread writes; the first packets may find `getSrcBufferSize()` made of members that nothing has set; the destructor without a `stop()` leaves two threads that call
  back (`QuietAfterStop`); a frame under way during a restart is heard after it (`FreshUnlessUnderway`).
* `VideoCreater` (ffmpeg): `next_pts` and `samples_count` are never initialised nor reset, so that the tracks of a file begin anywhere; what is left in `audio_buffer` goes into the next file; the encoders are never flushed; an `open()` that fails between `open_video` and `add_video_stream`
  leaks `codec_ctx_video`, and one on an open object leaks the context and leaves the first file without its trailer. `VideoCreater` (ryulib): the destructor writes a trailer for a file without a header if the constructor failed half way, which nobody is told.

Outside the models: the release functions of `dll/AudioCapture` (123-129) and `dll/AudioZip` (151-157, 189-194) delete the object of a handle and then the handle, whose destructor deletes it again.

## 6. Abstractions

* A task, a packet, an item, a byte is a value or a number; the text of messages, sizes of payloads and coding are left out, except where a length decides something (`PacketReader`, `MemoryBuffer`, `VideoCreater`, `AudioCapture`).
* `is_terminated_`, `started_` and the like are plain `bool`s shared without a lock, formally a data race. A read returns the last value written: the loops contain calls the compiler
  cannot see into, so that the reads happen.
* `AudioDecoder`: the opus calls do not change the state. `execute()` is one of them.
* `AudioCapture`: an undefined behaviour ends the behaviour, as nothing can be said after it. The COM interfaces are acquired and released in one step; silent packets, which are not delivered, are no steps; the conversion yields any number of bytes, or fails. Of `AudioResampling::open` two steps are told apart, before and after there is a context: what the thread meets in it is the same at every point between.
* `VideoCreater`: the encoder's own delay, the bitmap's padding and the options that only reach a codec are left out. A call is a step, as one thread uses an object.
* `SocketClient`: boost::asio is modelled by how it completes operations; two calls at once on one socket are taken one after the other, although asio promises nothing for that; a handler is one step. The build is the one where `terminateNow()` is `pthread_cancel`.
* `PipeSender`: the system's limits on instances are left out but for the one per name that the code asks for; `WriteFile` takes what it is given while the reader is there.
* `SocketServer`: a `packet_size` smaller than a header, which makes the length of the body negative, is left out, as is the memory of `packet_` (malloc'ed at `SocketServer.hpp:84`), which nothing frees: "freed" is said of the `Connection`.
* `FFPlayer`: a packet decodes to one buffer or one picture; decoding errors are left out; `FFAudio`'s and `FFVideo`'s loss (a leak) of a packet written to a closed context is not told from freeing it; a use of a context is one step, so that of
  the uses in one `decode_and_play` only the first can meet `nullptr`. The end of the thread of `Scheduler` is that of `Scheduler.tla`, its tasks are taken in one step each. `avformat_open_input` on a stream that is open
  is taken to replace it or to fail.

### Hazards without a property of their own

The list in `PROJECT.json` holds the 40 that matter most. Also real, and left to reading the code: `Worker.hpp:47` (an idle worker is never joined) and `:42` (a killed worker leaves the queue's mutex locked on Windows), `PipeSender.hpp:76` (a reader that is early or never comes),
`Scheduler.hpp:124` (the thread may use `thread_` before the constructor has stored it) and `:112` (tasks added after the end are never run), `AudioDecoder.hpp:34,57` and `AudioUnZip.hpp:26,42` (the blocking trim; a destructor that leaves the decoder's thread),
`ffmpeg/VideoCreater.hpp:247` and `VideoCreater.hpp:111` (partial failures of opening), `SocketServer.hpp:56` (a packet freed under its pending write), `FFVideo.hpp:22` (a null context behind a test) and `:97` (time stamps of two streams, compared as they are), `SystemAudioCapture.hpp:73` (a conversion under `stop()`; the pair at line 58 is listed).
All of them but `SocketServer.hpp:56` are behaviour of the modules; the properties are stated so as to name them as their exceptions.

### Not modelled

* `AudioZip`, `AudioEncoder`: an `AudioCapture` whose callback adds to an encoder. The encoder is `AudioDecoder` without the trim: a `SuspensionQueue` and a `SimpleThread` that nobody ends. Both parts are modelled; what the composition
  would add is the destructor (`AudioZip.hpp:36-40`), which deletes the capture without stopping it and then the encoder, whose thread is still in `pop()`.
* `VideoZip`, `VideoUnZip`: libvpx does the work; a call encodes or decodes one picture and returns.
* `FFmpegController`: two `PipeSender`s, a `DesktopCapture` and an `AudioCapture` around one `video_buffer`, which one callback copies into, another sends, and `open()` frees and replaces beside them; when the capture does not start, `open()` frees it and
  keeps the pointer, which the next `open()` or the destructor frees again (`FFmpegController.hpp:17,42,51`). The parts are modelled; the product of the four state spaces is out of TLC's reach in a few minutes.
* `Timer`: `count_ms_` adds microseconds (`Timer.hpp:20`) and is compared with an interval of milliseconds; `start()` resets it from another thread. On a `Scheduler`, which is modelled.
* `PacketReader.hpp` (the buffer between `FFAudio` and SDL): in `FFPlayer` a number of buffers.
* `epoll/SocketServer` does not compile at this commit (`SimpleThread` has no `Sleep`, nothing defines `HanldeDataEvent`); `WaitFreeList` is unsynchronised and unused;
  strings, files, images, compression and UDP have no state between calls; `HttpDownloader` is libcurl with a flag.

## 7. Plan

1. Done: the modules of section 2 with their runs, and the proofs of section 4, which leave only liveness to TLC.
2. Abstract specifications worth stating, and proofs that the classes implement them, as `FifoQueue` and `Mailbox` are: a byte stream
   (`MemoryBuffer`; `PacketReader` and the wire of `SocketClient`), a connection with its events (`TcpClient`, `SocketClient`, `SocketServer`).
3. `AudioZip` and `FFmpegController` as compositions of abstractions of their parts, once those are shown to implement them; `SocketServer.send(type, data, size)`.

The state spaces stay within three minutes each; where a larger composition replaces a smaller one its run takes the place of the old.
