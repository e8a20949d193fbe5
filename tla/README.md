# OwlAccessTerminal: TLA+ models, model checking and proofs

OwlAccessTerminal runs on a small computer aboard an airplane (a drone). It takes commands
over UDP and HTTP, turns them into frames for the flight controller on a serial
port, serves camera images over TCP and HTTP, takes AprilTag positions from a
client, and lets clients find it by multicast. This directory holds TLA+ modules
that model its core, configurations that check them with TLC, and proofs that
TLAPS checks.

Paths below are relative to the repository's own `src/`.

## 1. The system

### Threads

`main.cpp:392-406` gives every `io_context` one thread, except the camera reader's,
which has two. So each part below is sequential, and what interleaves is the order
in which handlers are posted to a context, the completions of asynchronous
operations, timers, and the threads among each other.

| io_context | what runs on it |
|---|---|
| `ioc_cmd` | UDP command service, HTTP command service, serial controller, state reader |
| `ioc_imageWeb` | TCP and HTTP image services |
| `ioc_cameraReader` (two threads) | camera reader |
| `ioc_map_calc` | map calculation |
| `ioc_time` | time service |
| `ioc_multicast` | multicast discovery |
| `ioc_web_static` | web control service (optional) |
| `ioc_keyboard` | signals and keyboard |

An exception that escapes a handler ends its thread and no other (`ThreadCallee`,
`main.cpp:42-81`). A failed `BOOST_ASSERT` ends the program in every build
(`OwlLog/BoostAssertionFailed.cpp`), and so does `->` on a null
`boost::shared_ptr`.

### Components

**Mailboxes** (`AsyncCallbackMailbox`). `sendA2B` and `sendB2A` never call the other
side; they post a handler to its `io_context`. A mail carries a runner, which its
sender calls when the answer comes back. *Correct when* every mail is answered, once.

**Serial controller** (`CommandService/SerialController.*`). *State*: the port
(`initOk`, open or closed), the record of the latest repeatable command and the
package id, the newest tag data, a repeat timer. *Operations*: `receiveMail`
(commands, tags, the state), `sendData2Serial`, the completion of a write,
`package_repeater`. *Hard*: it posts mails to itself while those of the services
arrive; many early returns, each of which owes an answer; several writes in
progress at once; a 16-bit id that wraps. *Correct when* every mail is answered once
and never lost, one run of the repeater is under way at a time, the newest
accepted command is repeated under its own id and nothing else is.

**Command parsing** (`CommandService/ProcessJsonMessage.h`). No state but a
parser storage that is never released. *Correct when* the bytes in a frame
say what the client asked for, or the command is refused.

**UDP command service** (`CommandService/CommandService.*`). *State*: one receive
buffer, one `remote_endpoint_`, the package filter. *Hard*: answers come back while
other datagrams arrive; datagrams repeat. *Correct when* it never stops receiving,
never mixes two datagrams, and answers whoever asked.

**HTTP command service** (`CommandService/CmdServiceHttp.*`). *State*: connections,
each with a request, a response, a socket and a deadline; the filter. *Operations*:
`/cmd`, `/AirplaneState`, `/tagInfo` (a coroutine that asks the serial controller,
then the map calculation, then the serial controller). *Hard*: answers that come
after the deadline, requests whose handlers throw or say nothing. *Correct when*
every connection ends, has one response at most, and tags keep their order.

**Map calculation** (`MapCalc`). A script that computes a position from tags.
Here: it answers with or without a position, or throws and its thread ends.

**Camera reader** (`ImageService/CameraReader.*`). *State*: the configured cameras, the
camera objects (each with a strand), a mutex. *Operations*: an image, a reset.
*Hard*: two threads; a reset replaces a camera under readers. *Correct when* a camera
is read by one thread at a time and an image is no older than an answered reset.

**HTTP image service** (`ImageServiceHttp.*`) and **TCP image service**
(`ImageService.*`). *Hard*: a chain of three answers (camera, time, response); two
writes per response with nothing that serialises those of different responses.
*Correct when* everything asked for is answered once, and the TCP stream can be read back.

**Time service** (`TimeService`). Answers each mail in order.

**Multicast discovery** (`MultiCast`). Two chains of handlers, a listening and a
sending one. *Correct when* both go on, and queries are answered to their sender.

**State reader** (`CommandService/StateReader`). *State*: one read buffer for the life of the
port object, the loops that read into it. Two implementations, chosen at build time: handlers
(`StateReaderImplNormal`) and a coroutine (`StateReaderImplCo`). *Operations*: opening the port starts a
loop; a loop drains the buffer, looks for the delimiter, and reads; an error ends it. *Hard*: `initPort` may run
again while the old loop's read or start is under way; bytes stay in the buffer between loops.
*Correct when* nothing the flight controller sends ends the program, and one loop reads at a time.

**Web control service** (`WebControlService`, built with `EnableWebStaticModule`). *State*: keep-alive sessions,
`CmdExecute`'s items (a child process each, with its two outputs) and the pool that knows of them. *Operations*: a
file or a setting at once; a path under `/cmd/`, whose mail starts a program; the ends of the outputs. *Hard*: an item
lives through the handlers and callbacks that hold it; several ways to return without a response. *Correct when* a session
waits for one answer at a time, gets it, and the pool does not grow.

**Configuration, script engine, logging, generated protobuf code, `main`**: see section 7.

### Interactions

    UDP clients --> CommandService --\                       /--> serial port
                                      >-- mail --> SerialController
    HTTP clients -> CmdServiceHttp --/                       \--> timer (200 ms)
                       \-- mail --> MapCalc
    HTTP clients -> ImageServiceHttp -- mail --> CameraReader --> cameras
                       \-- mail --> TimeService
    TCP client ---> ImageService ------ mail --> CameraReader
    browsers -----> EmbedWebServer ---- mail --> CmdExecute --> programs
    all hosts <---> MultiCast

    serial port --> StateReader        (started by SerialController's initPort)

## 2. The modules

| module | models | composed with |
|---|---|---|
| `SerialLink` | abstract: what the flight controller may rely on | |
| `SerialController` | the serial controller, the mailboxes to it, the port and the timer | implements `SerialLink` |
| `RequestResponse` | abstract: what a connection to one of the web servers promises its client | |
| `CommandEncoding` | request to mail to bytes: checks, limits, pointers, widths, byte order, checksum | |
| `PackageFilter` | the duplicate filter both command services use | used by the next two |
| `CommandService` | the UDP service | serial controller as an environment that answers |
| `HttpConnection` | a connection of an HTTP service, with its deadline | extended by both HTTP services; implements `RequestResponse` |
| `CmdServiceHttp` | the HTTP command service, with serial controller, state reader and map calculation as seen from outside | `HttpConnection`, `PackageFilter` |
| `CameraReader` | cameras, strands, two threads, resets | |
| `ImageServiceHttp` | the HTTP image service and the time service | `HttpConnection`, `CameraReader` |
| `ImageService` | the TCP image service | camera reader as an environment |
| `MultiCast` | discovery | |
| `StateReader` | the loops on the serial port, in both implementations, and `initPort` as far as it concerns them | serial port as an environment |
| `WebControl` | the web server's sessions and `CmdExecute` | programs as an environment; implements `RequestResponse` |
| `SerialControllerProofs`, `CommandServiceProofs`, `CmdServiceHttpProofs`, `CameraReaderProofs`, `ImageServiceProofs`, `SerialBytesProofs`, `AccessProofs` | theorems, see section 5 | each extends the module it is about; `CameraReaderProofs` extends `ImageServiceHttp`, `SerialBytesProofs` extends `StateReader` and `CommandEncoding` (the bytes on the serial port, in both directions), `AccessProofs` extends `MultiCast` and `WebControl` (finding the airplane and administering it) |
| `QueueLemmas` | lemmas: what `Tail` and `Append` do to the entries of a queue that are of a kind | used by four of the proof modules |

`MC*` modules only define constant values. An operator whose comment begins with
"Mutant" is a plausible mistake in the code, kept next to the definition it would
replace; no specification uses it. It is there so that each property can be shown to
fail when the code is wrong.

How state and actions correspond to the code is in `PROJECT.json` under `map`, line by
line. In outline:

* **`SerialController`**. `queue` is the FIFO of `ioc_cmd`, as far as it holds this
  component's mails and answers; `writing` the `async_write`s in progress; `record` and
  `packageId` are `SerialControllerCmdPackageRecord`; `initOk`, `portOpen` the port;
  `timerArmed` the wait of `package_repeater_timer_`. A handler runs whole: `ReceiveMail` is
  `receiveMail` with everything `sendData2Serial` does, one disjunct per way
  out (`OpenFails`, `Refuse`, `SendFrame`). `WriteDone` is the completion handler,
  with success or error chosen freely. `PackageRepeater` is the timer's handler. `reader` is what the mails can notice of the state
  reader: `InitPort` starts a loop of it when `open` succeeds, a second one when an earlier call opened the port but could not set the baud rate. From then on
  `ReaderStops`, the failed assertion that ends the program, may happen at any time; `StateReader` says exactly when it does.
* **`CommandService`**. `Arrive` is the reactor (it fills the buffer and the endpoint),
  `ProcessThrows`, `ProcessAtOnce`, `ProcessCommand` are the ways through
  `process_message`, each ending in `next_receive`; `ReceiveMail` is the runner, which reads
  `remote_endpoint_` when it runs. `storage` counts messages the parser still has room for.
* **`CmdServiceHttp`**. `queue` and `mapQueue` are the FIFOs of two threads; the `step` of a
  mail says how far the coroutine of its connection is. `aborted` is the program's end:
  by tags that fail an assertion (`ReadIllTypedTag` when the request is read, `AssertFails` after two answers), or by the state reader (`ReaderStops`).
* **`CameraReader`**. A look-up and a whole reset hold the mutex and are one step each; a read
  begins and ends in different steps and holds the camera's strand in between.
* **`ImageService`**. `writing` are the writes on the socket, which take turns piece by
  piece; `stream` is what the client has received. `read` is "failed" after an error in the middle of a request: nothing more is read, but the socket
  stays open for the responses that are under way.
* **`MultiCast`**. `listening` and `noticing` are the program counters of the two chains.
* **`StateReader`**. `loop[k]` is the loop that the k-th opening of the port started: posted (the coroutine), reading, with
  bytes or an error that its handler has not seen, or ended. `buffer` is `readBuffer_`. `FindStart` is the beginning of
  `read_start` and of the coroutine's `for`; `TakeBytes` is the handler inside `async_read`, which reads on until there is an
  error, because neither caller passes a completion condition. What the code does after the check of the delimiter is never reached.
* **`WebControl`**. `queue` is the mailbox in both directions (both ends are on one thread); `items` are all the
  `CmdExecuteItem`s that were ever made and `ceiPool_` the ids in the pool. An item is "leaked" when its callback, which
  holds it, will never be called.
* **`CommandEncoding`**. One request goes through `ProcessJsonMessage`, which refuses it or makes a mail, and `SendData2Serial`, which refuses that or makes a
  frame; a `ping` takes the way out of `PingPong` instead and never becomes a mail.

### Abstractions

* Mails, requests and responses are numbers or small records; texts of answers, logging and
  formatting are left out. `CommandEncoding` is where the data is modelled.
* A write to the serial port takes the whole frame or fails. What the driver does
  with two writes at once is not in the code.
* The airplane's state (`newestAirplaneState`) is only ever set by the state reader, and never by it either
  (see `StateReader`): in `SerialController` it does not change.
* `StateReader`: bytes are those of the delimiter or others; two reads into one buffer are given the same memory, so what they
  add is any bytes, or they end the program. The `strange` counter is left out: a read that ends without an error has bytes.
* `WebControl`: a program's output ends by itself, with the error "end of file". Whether the program is found is left open: the
  default is `/bin/bash`, and what `search_path` does with a name that holds a slash depends on the version of Boost.
* In `CommandService` every message takes the same amount of parser storage; the code's amount depends
  on the message, but is positive for each, and never given back.
* `CameraReader`: reading at once and grabbing before a read are one step; a strand's
  waiting reads begin in order, on either thread; the cameras' `start()` has run before the
  first mail (in the code a mail may come earlier and find no camera, which then ends the program like any other image of a camera without an object). A read from a capture that another thread has released is undefined
  behaviour: it ends normally or ends the program.
* `ImageService`: a failed write stands for a broken connection, whose later reads fail
  too. Encoding an image is not modelled, nor exceptions from it.
* `CommandEncoding`: AprilTag frames are left out (their bytes are rounded doubles). Rockers
  are compared with the request only where they fit into a byte; the code wraps others, and
  the comment in the code gives the range -127~+127.
* Time is not modelled: an armed timer may fire at any time, and fires in the end.

## 3. What the runs check

`TypeOK` is each module's type invariant. It is the first conjunct of the first safety property of each run
(`NoDoubleHolder`, `OneReply`, `OneMailWhileWaiting`, `ReadsTakeTurns` and so on), so that it is checked and proved with it. Deadlock is checked where the system must always have
something to do (`CommandService`); elsewhere behaviours really end
(all connections closed, program ended), and the configuration says so.

### `SerialController_mail`
Three mails out of one command per class that the code treats differently (repeatable
with a pointer, repeatable without a pointer and so refused, plain, joystick
without the pointer it needs, tag, state); `MaxId = 2`, so that ids are reused
within three commands; ports that fail to open or to be set, and with them second loops of the state reader that end the program. Three mails are enough for
a command, a later one that replaces it and one between or after them, with the repeater's mail as
the fourth.

* `NoDoubleHolder`, `NoLostMail`: each mail is in one place, at any time.
* `WriteNeedsPort`: `initPort` never closes the port under a write.
* `RecordIsNewest`: the record is the newest command that was accepted.
* `IdMarksRecorded`, `IdReuse`: what ids mean, and when two in flight may be equal.
* `GetSeesNewestTag`: `/AirplaneState` sees the newest tag accepted before it.
* `LinkSpec`: the controller implements `SerialLink`.
* `EveryMailAnswered`, `LatestIsRepeated`: liveness, as long as the program runs.

### `CommandService_udp`
Three datagrams from two hosts, commands whose numbers mirror each other (which the filter
confuses, and two of one client so that one may be dropped), storage for two messages so that it runs out. `BufferIsStable` (a receive is pending exactly
when no completion waits to be read), `OneReply` (the types, the parser's storage never overdrawn, and a datagram received is in exactly one of four places: with a handler, answered, with the
serial controller, dropped), `DropsFollowPasses` (whatever the filter drops, an earlier package of the same client went through), `EveryDatagramSettled`, `KeepsReceiving`. Three is the least number for which a
datagram, its predecessor and one that overwrites the endpoint all differ.

### `CmdServiceHttp_conn`
Two connections, every kind of request. `OneMailWhileWaiting`, `TagsStayInOrder`, `ExchangeSpec` (each connection implements `RequestResponse`),
`EveryConnectionEnds`, `PassedCommandIsAnswered`. Two connections already
show every overtaking of one by another on the three queues; each connection carries one request.
The liveness properties name what ends the program: tags with only a list or only a centre, which pass
the handler's check (`CmdServiceHttp.cpp:373`) and fail its assertions (`:495`); a tag with a number of another kind, which `get_int64` and
`get_double` assert to be there (`:243-255`, `:302-314`; the `catch` around them never sees it); and the state reader. A command that the serial
controller already has loses its answer to any of these, whoever sent the tags.

### `ImageServiceHttp_camera`
Three connections, one configured camera and one that is not, both threads.
`ReadsTakeTurns`, `OneObjectPerCamera`, `ImagesAreOfNewest`, `OneMailWhileWaiting`,
`ExchangeSpec`, `ImageIsAnswered`. Three: an image that was asked for before a reset, the reset, and one asked for after it.
`ImageIsAnswered` names what ends the program or the threads: an image of a camera without an object (never configured, or taken
away by a reset with a text for an address) uses a null pointer's strand before the code tests for "cannot find camera"
(`CameraReader.cpp:144`, `:152`); a reset may release a camera while it is read; a reset with a text ends a thread.

### `ImageService_tcp`
Three requests with or without overlap, data in up to two turns. `OneResponseEach`,
`FramedUnlessOverlapped`, `ImageIsSent`. A read that fails in the middle of a request must not take the responses under way
with it: `Intact`, in the two properties that give up on a closed connection, does not count a session that ended so as closed. Two turns are enough for another write to come
between; a client that waits for each response gets a well-framed stream, and one that does not may
not (an assumption the property states, not one the code checks).

### `CommandEncoding_frames`
Every command with numbers at and next to each limit and each width. `FrameSaysRequest`: the bytes, read
as the flight controller reads them, give back the request. `FrameIsWhole`: length, checksum and id.

### `MultiCast_discovery`
Three datagrams of two hosts, of every kind. `QueriesAreAnswered`: every query is responded to once, in order, where it came from, with the text of a
response, and a notice never is. What becomes of other flags is left open (see the disagreements). `BothChainsGoOn`.

### `StateReader_loop`
Both implementations, a delimiter of two bytes, three openings of the port, four bytes: enough for a loop to leave a delimiter
behind, in one read or across two, for the next to find it, and for a third to overtake one. `FirstLoopIsSafe`: with one opening, nothing the
flight controller sends ends the program. `OldLoopsEnd`: an old loop reads from a newly opened port only if `initPort` overtook its handler.
`EndedForGood`: once the port is initialised a loop that ended is never started again (the state is lost until the program restarts).

### `WebControl_sessions`
Two sessions with two requests each, one command of each kind (no parameters, a parameter that is checked, a parameter that
is checked but never there). `OneAnswerUnderWay`, `PoolIsBounded`, `ExchangeSpec`, `EveryCommandAnswered`. Two requests let one session make its second while the
other waits for a program, so that pool entries of different ages coexist.

### Runs that find a disagreement
Each checks one statement that the code or a comment of it makes, and TLC finds a behaviour that refutes it.

| run | property | what the run shows |
|---|---|---|
| `CommandService_sender` | `ReplyGoesToSender` | a datagram that arrives before the answer overwrites `remote_endpoint_`; the answer goes to its sender |
| `CommandService_repeated` | `OldPackageIsIgnored` | "a old package, ignore it" (`CommandService.h:146`): a package that its client sends twice in a row goes to the serial controller twice, because the filter's entry has command and package id swapped and is updated in a copy only |
| `StateReader_never` | `NeverGoThere` | the check that may "never" fail fails whenever the delimiter was found, because finding it drains the buffer; a second opening of the port reaches it |

More disagreements were met that have no run of their own:

* `receiveMail` marks `stop` and `keep` "need repeat" (`SerialController.cpp:242`), but they are built without the `moveCmdPtr` that
  `sendData2Serial` demands (`:330`): they are refused, and the older move goes on being repeated. `Pointers` and `Needed` of `SerialController` say so, and
  `RecordIsNewest` that a refused command is never what is repeated.
* A multicast datagram with another flag is to be ignored by a comment and a log line (`MultiCast.cpp:70-71`), and is responded to in the next line, with
  an empty text before the first query. `DoResponse` does what the code does; no property asks for it.
* The `catch` around the tags' parsing (`CmdServiceHttp.cpp:394`) does not catch a number of another kind: see `CmdServiceHttp_conn`.
* The test for "cannot find camera" (`CameraReader.cpp:152`) comes after the null camera's strand was used (`:144`).

## 4. Fairness

Safety is checked without any. Liveness assumes weak fairness of what the platform does by itself, and nothing of what
clients do:

* a thread runs the handlers posted to it (`io_context::run` returns only when the thread ends);
* an asynchronous write, send or read of a camera ends, with success or an error;
* an armed timer or deadline expires;
* a component used as an environment answers its mails: the serial controller in
  `CommandService` (which is `EveryMailAnswered`), the camera reader in `ImageService`
  (`ImageIsAnswered`, under its conditions).

Nothing is fair about arriving datagrams, connections or requests, or about an error: no property is true only because
an error happens in the end. Fairness is per mail where mails may overtake each other (`WriteDone`, `SerialAnswers`) and
per thread or handler elsewhere. Weak fairness suffices: none of these steps is disabled before it is taken, except by the end
of the program or by what makes it unnecessary (a response cancels the deadline).

`WebControl` assumes that programs end by themselves: the code has no time limit for them, so a program that hangs leaves its session waiting.

Properties that need it say what they give up on:

* `EveryMailAnswered` and `LatestIsRepeated`: the state reader ended the program, for which the port must have been opened a second time (`ReaderStops`).
* `EveryConnectionEnds` and `PassedCommandIsAnswered`: a failed assertion, and then there was a request whose tags fail it, or the state reader
  (`EndsEarly`). What the serial controller did before is not in this module, so there the state reader may stop the program at any time.
* `ImageIsAnswered`: the requests that end the program or the threads. `OneResponseEach`, `ImageIsSent`: a connection that broke.
* `BothChainsGoOn`: a chain that failed, or a thread that ended by JSON that is not an object.
* `EveryCommandAnswered`: a program that is not found, and a thread that ended.

Apart from these, the liveness of each module is that of a program that no *other* component ends: the parts share one process, and an assertion that fails in one of them
stops all. `EveryDatagramSettled`, for one, rests on a serial controller that answers, which it does as long as the program runs.

## 5. What is proved

Every theorem below is `Spec => []property` (or `Spec => property` for the temporal ones, `LinkSpec`, `ExchangeSpec` and `EndedForGood`), for every value of the constants
that satisfies the assumptions. (`Spec` is called `EncodingSpec` in `CommandEncoding` and `MulticastSpec` in `MultiCast`.) TLC checked every invariant first on the instances of section 3.

| theorem | property | assumptions |
|---|---|---|
| `SerialControllerProofs!OneHolder` | `NoDoubleHolder` | `MaxMails \in Nat`, `MaxId \in Nat \ {0}`, `Cmds \subseteq AdditionCmd` |
| `SerialControllerProofs!NothingLost` | `NoLostMail` | |
| `SerialControllerProofs!PortStaysOpen` | `WriteNeedsPort` | |
| `SerialControllerProofs!IdsMarkRecorded` | `IdMarksRecorded` | |
| `SerialControllerProofs!RecordedIsNewest` | `RecordIsNewest` | |
| `SerialControllerProofs!IdsAreApart` | `IdReuse` | |
| `SerialControllerProofs!TagIsNewest` | `GetSeesNewestTag` | |
| `SerialControllerProofs!ImplementsLink` | `LinkSpec`, the refinement of `SerialLink` | |
| `CommandServiceProofs!BufferSafety` | `BufferIsStable` | `MaxDatagrams, StorageSize \in Nat`; `Commands` are records of integers |
| `CommandServiceProofs!RepliesOnce` | `OneReply` | |
| `CommandServiceProofs!NoClientIsSilenced` | `DropsFollowPasses` | |
| `CmdServiceHttpProofs!OneMailEach` | `OneMailWhileWaiting` | `OtherKinds \subseteq Kinds` |
| `CmdServiceHttpProofs!TagsInOrder` | `TagsStayInOrder` | |
| `CameraReaderProofs!TurnsTaken` | `ReadsTakeTurns` | finite sets; `Configured \subseteq Cameras`; `Clients = Conns` |
| `CameraReaderProofs!OneObject` | `OneObjectPerCamera` | |
| `CameraReaderProofs!ImagesOfNewest` | `ImagesAreOfNewest` | |
| `CameraReaderProofs!OneMailEach` | `OneMailWhileWaiting` of `ImageServiceHttp` | |
| `ImageServiceProofs!OneResponse` | `OneResponseEach` | `MaxRequests \in Nat`, `PiecesPerData \in Nat \ {0}` |
| `ImageServiceProofs!WellFramed` | `FramedUnlessOverlapped` | |
| `SerialBytesProofs!OneLoopIsSafe` | `FirstLoopIsSafe` | `DelimLength \in Nat \ {0}`, `MaxOpenings, MaxBytes \in Nat` |
| `SerialBytesProofs!EarlierLoopsEnd` | `OldLoopsEnd` | |
| `SerialBytesProofs!EndIsFinal` | `EndedForGood` | |
| `SerialBytesProofs!FramesAreWhole` | `FrameIsWhole` | `Ids \subseteq 1..LastId`; requests have any integers as numbers, as many as their command takes |
| `SerialBytesProofs!FramesSayRequests` | `FrameSaysRequest` | |
| `AccessProofs!QueriesAnswered` | `QueriesAreAnswered` | `MaxDatagrams \in Nat` |
| `AccessProofs!OneAnswerEach` | `OneAnswerUnderWay` | `Sessions` finite, `Cmds \subseteq WifiCmd`, `MaxRequests \in Nat` |
| `AccessProofs!PoolBounded` | `PoolIsBounded` | |
| `AccessProofs!SessionsExchange` | `ExchangeSpec` of `WebControl`, the refinement of `RequestResponse` | |
| `CmdServiceHttpProofs!ConnectionsExchange` | `ExchangeSpec` of `CmdServiceHttp` | |
| `CameraReaderProofs!ConnectionsExchange` | `ExchangeSpec` of `ImageServiceHttp` | |

### The arguments

**`SerialController`**. `TypeOK` is inductive. None of the others is:

* `NoDoubleHolder` says a mail is not in two places, and a handler that is lost would keep that true; so it is proved together
  with `NoLostMail` as `HolderInv`: every posted token is in *exactly* one of queue, writes and rest, a token not posted yet in none.
  Two lemmas say what `Tail` and `Append` do to one token and to all others
  (`TailTokens`, `AppendTokens`); each action then moves one token by one of four lemmas (`AnswerHolds`, `WriteHolds`, `RunnerHolds`, `PostHolds`).
* `WriteNeedsPort` needs that an initialised port is open (`PortInv`): only a handler that finds
  `initOk` false calls `initPort`, and there are no writes then.
* `IdMarksRecorded` needs that the record, if any, is a repeatable command, and that a mail's command does not change while it is in flight (`IdInv`).
* The refinement needs that originals leave in the order in which they were posted (`OrderInv`): requests in the queue are in increasing
  order and newer than the newest original frame. `NextLink` then maps `SendFrame` to `Command`, `Unrecorded` or `Repeat` of `SerialLink`, and all other
  steps to stuttering.
* `RecordIsNewest` and `GetSeesNewestTag` are both about a variable that is the newest of the mails that were accepted: `NewestOf` says so, once for the
  record (`RecInv`) and once for the tag data. A mail is past its handler when it was posted and is no longer a request in the queue (`Past`), and only its own handler takes it there
  (`NextPast`); that handler sets the variable to it, and it is newer than all mails past theirs because requests are in order (`OrderInv`).
  An answer still holds what its handler saw, so `TagInv` adds that mails older than a handled one are handled, that no write belongs to a state request, and that no queued answer was made blind.
* `IdReuse` needs what it says of *all* recorded frames, the record included: as many commands were recorded after a frame's as its id is counter steps
  behind the newest one, or a whole round (`Gap`, `GapInv`).

**`CommandService`**. `IInv` says that there is one receive or one completion (`OneReceive`), and that a datagram
is in one place exactly when it was received (`Places`), which is more than `OneReply`: it also says that what was not received is nowhere, without
which an `Arrive` could bring a datagram that is already there. That a drop follows a package that went through needs to know where the filter's entries come from. `FInv` says that only the
latest datagram waits for `process_message`, so that datagrams are filtered in the order they came in; that every entry is made of the first processed datagram of
its client, never of a later one; and that every client has an entry as long as the storage lasts (a message without storage is refused before the
filter, and after it there is no storage for another).

**`CmdServiceHttp`**. `OneMailWhileWaiting` counts the mails of a connection in three places. The invariant says instead that a
connection has mail in one place only and once there, only while it waits, and that it was not responded to as long as it waits. One lemma for each way a mail
moves (requeued, written, asked of the map calculation, back, lost in it, responded to) serves all actions; the count follows at the end from
cardinalities. The order of tags needs, besides, the order of all their places (`Tags`): a tag's mail goes from `ioc_cmd` to `ioc_map_calc`, back,
and to the serial controller's turn on `ioc_cmd`, and whoever is further came in earlier.

**`CameraReader`**, behind the HTTP image service. A thread that reads holds its object's strand, which is `ReadsTakeTurns` itself; it needs that every object read from
is one that was made (the type). That a camera has one item makes the two look-ups (the first item, the newest object) agree, and with it an image's
object is at least as new as what was there when the mail was posted: in the queue by `QueueIsNewer`, on a strand by `StrandIsNewer`.
`OneObjectPerCamera` starts from as many different items as configured cameras, which a count shows to be all of them.

`OneMailWhileWaiting` of `ImageServiceHttp` is about the mails in all queues and on all strands. `MInv` says that a connection has mail in one of these places
only (`OneMail`), once there (`Singles`), and only while it waits without a response (`Unanswered`); and that a reset in the queue or on a strand is one
that was requested (`ResetsAreRequested`), without which a thread could forget a reset that would have been carried out. One lemma for each
way a mail moves (from the queue to a strand, to an answer, to nowhere; from a strand to an answer; to the time service and back; to the response) serves
the camera's threads and the connections' handlers alike, and the bound on the number of places follows at the end (`PlacesAre`).

**`ImageService`**. `IInv` gives each request one place (asked, answered, sending, size sent, finished, or nowhere) and says what that place implies of the stream.
For the framing, `FInv` adds that without an overlap one request is under way at most, and that its place says how the stream ends: before its size
is written with a whole response, while its data is written with its own size or a piece of its data. A session ends after a failed read only when nothing is under way
(`Drained`), so an intact one still owes or has sent every response.

**`MultiCast`**. A response is to a datagram that was handled and is no notice, the endpoint is that of the datagram being handled, and the response to a query
takes its text after the text was set; while it is being sent no other datagram is handled, so neither the text nor the endpoint changes.

**`StateReader`**. Bytes can only be in the buffer, and a read can only be mixed, when a loop has begun besides the one concerned (`BufferIsOfLoop`, `MixedIsTwo`);
so the program's end takes two loops (`StoppedIsTwo`), and cardinality gives `FirstLoopIsSafe`. `OldLoops` says of every loop but the newest that it waits for nothing
but its end, unless `initPort` overtook it. `EndedForGood` is a property of all suffixes: that the port is initialised and no loop is alive is kept by every step.

**`CommandEncoding`**. The invariant (`EncodingInv`) only says where the mail and the frame come from: the mail is what the parser
makes of the request, the frame what the controller makes of that mail under one of the ids. The work is in the bytes, for any integers a
client sends. `Int16` of a number in range is the number, and its two bytes, low one first, read back to it (`Int16Is`, `TwoBytes`, `ReadsBack`).
A request that is accepted has numbers within its command's limits, and those fit 16 bits (`Fits`), the sign a direction gives them included (`DirectedIs`).
The frame is laid out by place (`PartsOf`, `SealIs`, `MoveBytesAre`, `JoyBytesAre`), so that what is read at a place is what was written
there. The checksum is an exclusive or, defined bit by bit from the number of bytes with that bit set: adding the checksum makes each of these
numbers even (`OddOfMore`, `BitsOfSum`), so the whole cancels (`ChecksumCancels`).

**`WebControl`**. What a session waits for is in two sequences, the mailbox and the items, of which other sessions' entries come and go. `WaitsForOne` of `WebInv` says
that a session has one entry in one of the two if it waits, and otherwise none in either; the lemmas of `QueueLemmas` say what a handler that takes a mail, posts an answer or makes
an item does to the entries of its own session and of all others. `Counted` adds that a session that waits has taken one request more than it answered, and one that writes or goes on reading, as
many (as long as the thread lives: an exception while a request is read leaves it without a response). `PoolIsLive` says that the pool never holds an item that is gone; with `WaitsForOne` no two items in it are of one session, so that there are at most as many as sessions.

**`RequestResponse`**. A step of the web control service is a step of the abstract module, or a stutter, by `Counted`: `OnRead` takes (and answers, if there is a response at once, or ends the
connection), `Respond` answers, and everything `CmdExecute` does in between is not seen. For the two HTTP services `XInv` says that a connection that was not read yet has no
request, that one that waits has a request and no response, and that one that replies has both. A step of either service moves one
connection by `Accept`, a failed read, a read, a response, its end or its deadline, or moves none (`ConnectionsMove`); that a response only goes to a
connection that waits is what the invariants behind `OneMailWhileWaiting` know, and it is why a late answer is not a second response.

### Only model-checked

All liveness, which depends on fairness and `ENABLED`. Every safety property that a passing run checks is proved.
What the proofs do not say of the data: rockers beyond a byte, which wrap (section 2), and `AprilTag` frames, which are not modelled.

## 6. Hazards

`PROJECT.json` lists, under `hazards`, the places where the code is hard to test, with the properties that would catch a mistake
there. Those without a property have a note. Facts met on the way that are no hazard of a model: the TCP service accepts once and never
again (`ImageService.cpp:397`); the TCP response's size is in host byte order, the request's in network order (`:312`); `dont_retry` has no initial value
(`ImageServiceMail.h:25`); two `async_write`s may be in progress on the serial port, and whether their bytes mix is up to the driver; every
program run by `CmdExecute` is reported as failed, because a pipe's end is an error (`CmdExecute.cpp:36`); when binding its port failed, the web
server's accept fails and is repeated at once, for ever (`EmbedWebServer.cpp:83-97`).

## 7. Not modelled

* **What follows the delimiter in the state reader**: unreachable in both implementations, and so `loadData`, the lengths and `sendAirplaneState`.
* **Time service**: its clock difference is one number that nothing else depends on.
* **Map calculation, script engine**: floating point and an embedded interpreter. Their ways to end are in `CmdServiceHttp`.
* **Configuration, logging, `main`**: read once, output only, wiring. What they imply for the rest (threads, exceptions, assertions) is in section 1.
* **Protobuf code**: generated.

## 8. Plan

Modelled first was what decides about the airplane: the serial controller. Then the services that feed it, then images, encoding and discovery,
then the state reader and the web control service, then the proofs, component by component.
What remains: lemmas the proofs of two HTTP services share in the same words (`XInv` and the steps of a connection), each about its own
requests; and refinements of what one component assumes of another, where only the safety half can be proved (a mail is answered once:
`OneHolder`, `NothingLost`, `OneMailEach`), the other half being liveness.

## 9. Running

    tlc -workers 2 -config SerialController_mail.cfg SerialController
    tlc -workers 2 -config CommandService_udp.cfg MCCommandService
    tlapm SerialControllerProofs.tla
    for m in *Proofs.tla; do tlapm $m; done

`PROJECT.json` names the module of each configuration. The largest run is
`ImageServiceHttp_camera` (598 360 states, about two minutes); the others take
less than one. `SerialBytesProofs` takes two to three minutes to prove,
the other proof modules about one or less.
