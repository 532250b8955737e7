# Geo-Location-Service: verification project

This directory holds TLA+ modules that model the service in this repository, TLC
configurations that check them on small instances, and proofs, checked by TLAPS, of all their
safety properties and refinement steps for every instance. The service accepts TCP connections from
GPS trackers, reassembles the frames of the TK103 protocol, answers logins and handshakes
after asking a document database, and forwards position fixes to that database.

    cd tla
    tlc -workers 2 -config MCSession_split.cfg MCSession     # a run
    tlapm SessionProofs.tla                                  # proofs; so for each *Proofs module

## 1. The system

| part | code | state | operations |
|---|---|---|---|
| server, session | `geo_location/server.h`, `geo_location/session.h` | per connection: socket, `buff` (1024 bytes, a C string) and, while its read handler runs, `new_bytes`; writes in flight | accept, read handler, write handler |
| TK103 plugin | `tk103/tk103.cpp`, `tk103/gps_service.cpp`, `sdk/data_payload_from_device.h`, `sdk/utils.h` | `deviceId` (one for all connections), the command table | `process` with `deviceLogin`, `deviceHandshake`, `deviceFeedback`, `deviceFeedbackEnding` |
| registration lookup | `is_device_registered` in `geo_location_svc_lib/sdk.cpp` | none | one blocking HTTP GET |
| feedback log | `log_feedback`, `start_device_feedbacks_logs_job` in `sdk.cpp` | PUB and SUB sockets with their queues, requests in flight | publish, receive, POST, the continuation that publishes again |
| guaranteed logger | `QueueBuffer`, `NanoLogger` in `geo_location_svc_lib/NanoLog.cpp` | list of buffers, write index, per slot state, read position | `push` by any thread, `try_pop` by the writer thread, shutdown |
| a line of the log | `NanoLogLine` in `NanoLog.cpp` | bytes used, buffer in the object or on the heap | `operator<<`, resize, `stringify` |
| log files | `FileWriter` in `NanoLog.cpp` | file number, bytes written, stream state, the files | write, roll |
| non-guaranteed logger | `RingBuffer`, `NanoLogger`, the level filter | ring of locked slots, two wrapping indices | push, `try_pop`, shutdown, `set_log_level` |
| start-up | `main.cpp`, the constructor and `search_gps_device_drivers` in `sdk.cpp` | publisher's port, list of plugins, job thread, servers | bind, load each `services\*.gps` until one fails, make a server for each |

How they interact. All handlers of all connections run on the one thread inside
`io_service.run()`; `session` calls `gps->process`, which calls `is_device_registered` (the
thread waits for the database) and `log_feedback`. A feedback goes through the PUB socket to
the job thread, which posts it; the continuation of the post runs on a thread of the pplx
pool and publishes a refused feedback on the same PUB socket. Every thread writes to the
logger. No exception from `process` is caught: it leaves `io_service.run()` and `main`.

What is hard here: streams cut into reads anywhere; state shared by connections; a buffer
whose owner is gone when the kernel takes it; messages dropped before a subscription or at a
full queue; refusals, failing requests and retries; lock-free hand-over of buffers between
threads. The properties of each part are those named in section 4; `PROJECT.json` lists the
hazards, each at its line.

## 2. The modules

| module | models |
|---|---|
| `Framing` | abstract: what reassembly should achieve - each device's frames, whole, once, in order |
| `Session` | `server` and `session`: accept, read, the loop over `new_bytes`, write, hang-up |
| `Tk103` | the plugin: `process`, its handlers, the shared `deviceId`, the database's answers, the exceptions |
| `GeoService` | `Session` and `Tk103` together on one thread; defines `Whole`, the instance of `Framing` |
| `FeedbackDelivery` | abstract: a feedback is pending until it is stored once, or lost; the process may end |
| `FeedbackLog` | `log_feedback`, the sockets, the job thread, the request and its continuation |
| `Pipeline` | `GeoService` and `FeedbackLog` together: the way of a fix from the stream to the database |
| `Startup` | `main` and what it calls before `io_service.run()`, by several processes on one machine |
| `NanoLogQueue` | `QueueBuffer`, the loop of `NanoLogger::pop`, `~NanoLogger` |
| `LogLine` | `NanoLogLine`, as operators on a record: encoding, growth, what is printed |
| `LogFile` | `FileWriter`: appending, rolling, a stream that fails |
| `NanoLogRing` | `RingBuffer`, the level filter and `NanoLogger` with `LogLine` and `LogFile`; kill and restart |
| `SequenceFolds` | sums, filters and concatenations along a sequence, which the modules above use |
| `MC*` | instances: streams, devices, feedbacks, threads |
| `SessionProofs` | the theorems about `Session` |
| `GeoServiceProofs` | that `GeoService` implements `Session` (the instance `Sessions`) and `Framing`, and what the plugin adds |
| `FeedbackLogProofs` | those about `FeedbackLog`, and that its steps are steps of `FeedbackDelivery` (the instance `Delivers`) |
| `PipelineProofs` | that `Pipeline` implements `GeoService`, `FeedbackLog` and `FeedbackDelivery` |
| `StartupProofs`, `NanoLogQueueProofs`, `NanoLogRingProofs` | those about the module each is named for |
| `SequenceFoldsProofs` | the lemmas about `SequenceFolds`, and two kinds of induction |

**Session.** A device's byte stream is the constant `Script[s]`, a sequence of cells, one per
protocol field, and the state refers to cells by position. `ReadSome` is the start of the read
handler up to the loop (`rest` is `new_bytes`, the old content of `buff` included), `TakeFrame`
an iteration of the loop that ends at a `)` - copy, trim, `process`, `async_write`, clear -
and `FinishRead` the rest of the loop and the next `async_read_some`. `buff` already holds its
old content when the loop appends `new_bytes`, which begins with the same content: the
doubling is in the model (`Filled`). `Overrun` is the write of a byte beyond `buff`; nothing is
said about what follows. `growth` is a history variable: how often the cells of the frame in hand may have
been doubled. `AsyncWrite` lets the kernel take the bytes at once, or later
(`WriteDone`), when the string they are read from is gone: `Stale` or, by luck, the old bytes.

**Tk103.** Fields are found by place only, as the casts of `parseDeviceRequest` find them, so a
frame with text before it is read shifted. The numbers of a fix are one cell that names the frame they were
sent in, and `published` keeps the cell that stood in their place when the fix was converted: `atof` takes any
text and `stod` any that begins like a number, so a shifted fix may be published with other numbers than its own,
or end the service. Only whether the text there begins like a number is left open (`DeviceFeedback` and
`FaultsOf` overlap). A fix cut after its "A", for instance, has 24 bytes in front of it, and its
speed reads "25A29", its orientation "3N1062": both convert. `LookupResults` is what
`is_device_registered` may return; `FaultsOf` the exceptions: of the request, of `std::stod`, and of
`strcpy_s` in the Windows build (`Msvc`).

**GeoService.** `HandleFrame` is `Process` and `TakeFrame` in one step, as the handler runs them. A
login or a handshake takes two: `Ask` sends the request of `is_device_registered`, and `HandleFrame` or
`Terminate` comes with its answer. In between the thread waits in `response.get()` (`asking`, and
`running` is still the session's), so no handler of any connection takes a step, while devices may hang
up. `Terminate` is the exception that ends the service, after which no step is taken.

**FeedbackLog.** `SendFirst` and `SendAgain` end a `send`, which other threads may overlap
(`SendersCollide`); `Publish` is what a PUB socket does; `Refused` is the continuation;
`RequestFails` a request without an answer, whose exception ends the process.

**Pipeline.** A read handler that logs a feedback is inside `send` from `HandleFrame` (which is also
`StartSend`) to `SendFirst`; in between the io thread takes no other step (`IoStep`), but devices,
the job thread and the pool do. `Alive` joins the two ways the process ends: an exception out of
`io_service.run()`, and an unobserved one of a request.

**Startup.** `BindPublisher` is the constructor of `__gps__`; `LoadPlugin` and `EndSearch` the loop over
the directory, whose early returns hide the files after the first bad one; `Listen` and `CannotListen`
the two ends of `new server` in `main`'s loop; `Run` is `io_service.run()`, which returns at once if there is
nothing to do. With `ReusePort` an acceptor may or may not succeed on a port that is taken, as with the
`SO_REUSEADDR` that Asio sets. The publisher's port is exclusive.

**NanoLogQueue.** Each access to a shared atomic is a step: `Claim`, `Spin`, `Load`, `Write`, `Flag`,
`Count`, `Setup`, `Enqueue` of a push; `NextReadBuffer`, `Pop`, `Retire`, `SeeShutdown`, `EndDrain` of
the reader. `Retire` frees the buffer; an access afterwards sets the history variable `uaf`,
and unless `FreedIsKept` what is read from it can be anything.

**NanoLogRing, LogLine, LogFile.** `Begin` is the level test and the constructor of a line, `Put` one
`operator<<`, `Claim` the `fetch_add` of `push`, `Store` the rest of it under the slot's lock; `Take` is
`try_pop` with the `write` that follows. The buffer of a line is a set of pieces - a type id, a value, a NUL,
each at its offset - which `Encode` adds to, `Resize` copies, and `Stringify` decodes as the code does: from
the end of the header, by the type id it finds, to the end of a value of that size or to the first NUL.
What was encoded is known to nobody but the property that compares (`TextIntact`). The ring may have any size, and
its indices wrap at any `Modulus`.
`WriteFails` is a stream that fails, after which `tellp` is -1 and `WriteIgnored` is all that happens.
`Restart` is a kill, or an end, at any moment, and the next run of the program: it finds the files,
and begins with file 1.

Abstractions common to all: no NUL bytes in streams; a frame is cut only between fields, and
offsets are counted in fields, not bytes, so a shifted frame is recognised as a command only where a
command field stands; the order of memory accesses is that of x86; a section under a
spin lock is one step; time is left out: the lookup's time-out (that of `http_client`, 30 seconds by
default) is one of the answers it may get, at any moment.

Operators called a mutant in their comment are wrong versions of the definition below them, as a
plausible bug would make it. Nothing uses them. `PROJECT.json` pairs each with the property
that it breaks when it takes that definition's place.

## 3. The fairness assumed

`GeoService` and `Pipeline` state their steps (`Spec`, `PipelineSpec`) apart from the fairness that the runs
add (`FairSpec`, `FairPipelineSpec`), so that safety is proved of the former.

`io_service.run()` runs every handler that is ready, and a handler runs to its end: weak
fairness of accept, read handler and, in `GeoService`, of completions. The answer of a lookup, or its
time-out, is part of the handler's step, so it comes. That a connected device
goes on to send its stream is part of the weak fairness of `Read`; nothing obliges a device to
hang up. `Pipeline` adds that the log's threads run, that the subscription arrives, that each
request is answered or fails, and, by strong fairness of `Created`, that a document the database can
store is not refused for ever. `Startup` assumes only that a process that was started goes on, with
its main thread and its job thread; nobody need start or stop one. `NanoLogQueue` assumes that the
operating system runs every thread; no fairness is assumed among the steps of one thread, which has
only one at a time. `NanoLogRing` states safety only.

## 4. The runs

| run | instance | shows |
|---|---|---|
| `session_split` | 1 connection, 7 cells in 2 frames, any cut | `FramesHandledOnce`, `NothingLost`, `FrameEndsIntact`, `OverrunExplained`, `FramesAnswered` |
| `service_whole` | 2 connections, 7 frames of all kinds, reads of up to 14 cells (one frame or two) | `WholeFrames` (refinement of `Framing`), `AnswersComplete`, `FixesPublished`, `LoginsAnswered` |
| `service_split` | 1 connection, 3 frames, any cut, failing database, full socket | `AcceptanceEarned`, `PublishedIdVerified`, `NoFixInvented`, `FaultsExplained` |
| `pipeline` | 2 connections, a login and a fix of each, one never stored, queue of 1, all faults of lookup, requests and senders | `OnePlaceEach`, `FixesAccounted`, `NoLateLoss`, `CallsOnce` (refinement of `LogSpec`), `Delivered` (refinement of `FeedbackDelivery`), `FixesStored` |
| `queue_lines` | 2 threads, 2 lines each, buffers of 2 slots, shutdown at any time | `WrittenInClaimOrder`, `SlotsExclusive`, `OneSetup`, `QuietShutdownLosesNothing`, `LinesWritten` |
| `startup` | 2 processes, 3 plugin files in any order and number, any of them bad, 2 ports, shared ports | `OneServes`, `PluginsServed`, `StartUpEnds` |
| `ring_file` | 2 threads, 5 lines, ring of 2 slots with indices modulo 4, files of about two short lines, failing disk, 1 restart | `LinesFit`, `TextIntact`, `TakenOnceInOrder`, `DroppedOnlyWhenFull`, `NothingLeftWaiting`, `FilesFollowReader`, `RollsInTime`, `RunsNotMixed` |

The type invariants `SessionTypeOK`, `GeoTypeOK`, `LogTypeOK` and `QueueTypeOK` are checked in the same runs.

Why the bounds are enough to be of use. A second frame is what the leftover of a first one could
damage, and a frame of three cells can be cut into one, two or three reads, or share a read with
its neighbours. The proofs of section 5 remove the bounds for every safety property below. Two connections
are enough for one to disturb the other through `deviceId`, or to have to wait for the other's lookup or
`send`. Two feedbacks exceed a queue of one, also when one of them is published again for ever.
Four lines in buffers of two slots go through two changes of buffer, with both threads in each.
Two processes are enough for a second start during or after a first, and three files for a bad one
between two good ones, and for two with one port. In the ring, five lines
(or four, if the level is set before the one below `WARN`) lap two slots and wrap indices that are
counted modulo 4; one line grows twice, first for want of a single byte, and goes over the roll limit
alone, the others stay in the object and need a second one to get there.
Reads are bounded by `MaxLength` as `async_read_some` is. `session_split` has a `buff` of 12 cells: a frame of three
or four fits it even when one read cuts it, overruns it when several do, and a frame too many in it would
show.

`CHECK_DEADLOCK FALSE` everywhere: streams, feedbacks and lines are finite, and then the instance
may rest; a fault ends it.

### What the code does and the repository says otherwise

| run | what happens |
|---|---|
| `service_sender` | Device 1 logs in, device 2 logs in, device 1 sends a fix: it is published with the id of device 2 (`gps_service.cpp:34`), where `session.h:75` takes `deviceId()` for the device the data came from. |
| `service_msvc` | After the first login the id has 15 characters and `strcpy_s` into `char[15]` ends the service at the next fix (`gps_service.cpp:99`, against `functional_tests.cpp:97`). |
| `session_overrun` | Every read that ends inside a frame doubles what `buff` has of it, and no index is compared with `max_length`: a frame that fits `buff` is written beyond it (`session.h:63`), where `tk103.h:42` makes 1024 bytes the length of a message. |
| `service_position` | A fix that a read has cut is read shifted, and `stod` and `atof` accept what stands in the places of its numbers (`gps_service.cpp:74`, `session.h:57`): it is published with a position that was not sent, against the reading that `tk103.h:158-161` gives of an example. |
| `queue_dropped` | The reader frees a buffer between a producer's flag and its count (`NanoLog.cpp:526` and `455`); the sum may not be seen, no next buffer is set up, and later lines are never written, against `NanoLog.hpp:163`. |

Also seen, without a run of its own:

- A login cut into two reads is processed as its first part, that part again, and the rest (`session.h:57`), and
  not answered with AP05 (`tk103.h:135`): `LoginsAnswered` holds with whole reads only.
- An alarm (BO01) gets no answer (`tk103.cpp:169`), where `tk103.h:148` says "Centre response: AS01". `Promised` says
  so too, and `AnswersComplete` excepts just these answers (`AlarmAnswers`).
- A write that has to wait sends memory of a string that is gone (`session.h:82`, against the comment at
  `session.h:80`): `StaleBytes`. `AnswersComplete` supposes that none has to wait.
- In a ring whose size does not divide 2^32, as with 3 or 10 MB (`NanoLog.cpp:612`), the wrap of the write index
  puts a line over another that waits, although the ring has room (`NanoLog.cpp:386`, against `NanoLog.hpp:150`).
  What is promised of the ring holds up to there (`InStep`).
- The drain after `SHUTDOWN` stops at a slot of the queue that is claimed but not yet written, and
  drops lines behind it whose pushes had returned (`NanoLog.cpp:656`, against `NanoLog.hpp:163`);
  `QuietShutdownLosesNothing` is what remains. As a Windows DLL the threads are gone by then.
- Once producers have lapped the ring, reader and writers are out of step: lines wait in one slot
  while the reader looks at another, and are then taken in another order than they were logged.
  `TakenOnceInOrder` and `NothingLeftWaiting` hold up to there, and `NanoLog.hpp:150` promises no more.
- A stream that has failed loses all later lines without a message; a new run overwrites the logs
  of the last one from file 1 on, and a second process truncates the first's file before its `bind`
  fails (`sdk.cpp:30` comes before `sdk.cpp:44`).
- One plugin file that cannot be loaded hides those after it (`sdk.cpp:137`).
- The comment at `sdk.cpp:29` says the log rolls at 1 MB, the argument is 10.

The violation runs check reachability of a wrong outcome in the model; each is an instance of the same
modules as the passing runs. Where the condition that leads there is on in a passing run too, a weaker
property holds in that run: `OverrunExplained`, `FaultsExplained` and `NoFixInvented` say what is left of `NoOverrun`,
`NoFault` and `PositionsAsSent`. `service_sender` needs no condition; `service_msvc` and `queue_dropped` switch
one on that the passing run leaves out: the checked copy, and freed memory that changes.

## 5. What is proved

Every safety invariant and every action property that a passing run checks, the inductive invariants behind
them, and each refinement up to its fairness. The theorems hold for any number of connections,
threads, processes, files and lines, any streams, any buffer and queue sizes; they assume the
named `ASSUME`s of the modules, which say what the constants are, and where a theorem needs more, it is
a hypothesis in its statement. There are two kinds of these.

- *Streams*: `FramesWellFormed` (a frame begins with "(" and an id, nothing but blanks lies between frames,
  the numbers of a fix follow their mark) and `UniqueFixIds`. TLC evaluates both for every instance
  (`StreamsAsSupposed`).
- *Circumstances*: `SplitReads = FALSE` for `NextFrameInTurn`, `FixesPublished`, `FixesAccounted` and `WholeFrames`, and with it
  `SocketMayFill = FALSE` and `DatabaseMayFail = FALSE` for `AnswersComplete`. The passing runs of these set the same,
  and section 4 says what happens with split reads, a failing lookup and a full socket. Everything else is proved without.

**`SessionProofs`.** `FramesHandledOnce` is not inductive: that a `)` met by the loop has not been met
before depends on what `buff` held when the read started. `SessionInv` therefore adds that `buff`
never keeps a `)` between handlers (`BuffHasNoClose`), that each `)` ahead of the loop is later in the
stream than the last one processed, and in order (`ClosesAhead`), that every earlier one has been
processed (`ClosesBehind`), and that the cells since the last processed `)`, in order, end what is in
hand (`NothingLost`). With these, a read adds new cells only at the end (`ReadKeepsStream`), so the
next `)` of `rest` is the next one of the stream (`FirstCloseIsNext`), and taking a frame removes
just what precedes it (`TakeKeepsStream`): the doubled leftover can never hide or repeat a `)`. One
lemma per action (`ReadSomeInv`, `TakeFrameInv`, `FinishReadInv`, `OtherStepsInv`) puts this together.
All this is for reads cut anywhere. From it follow, in order:

- `FrameEndsIntactCorrect`: the frame that was sent ends the string that is processed, as the cells since the
  last `)` do (`FrameEndsWithSent`), and trimming takes the same blanks from both.
- `FramesBeginLikeSentCorrect`: what is in hand are runs of consecutive cells, each from the last `)` on
  (`RunsInHand`), so a processed string begins as the sent frame does, even where cells are repeated.
- With `SplitReads = FALSE`: `buff` is empty between handlers and `rest` is just the new cells (`WholeReads`), so
  frames are whole (`FramesWhole`), and the frame
  handled next is the next that was sent (`NextFrameInTurnCorrect`; `CountTellsApart` and `ClosesCounted`
  count the `)` before a position).
- `OverrunExplainedCorrect`, for any cuts: `GrowthInv` bounds what `buff` has of the frame in hand by `growth`
  times the cells that were sent of it (`GrowthArithmetic` is the step: what was there is doubled, what is new
  comes once), and after an overrun nothing of that handler changes (`StaysOverrun`).

**`GeoServiceProofs`.** `ServiceImplementsSessions` maps each step of the service to a step of `SessionProofs`'
`Session` with any answers, `Ask` and `Terminate` to stutters, so those theorems hold here by instance
(`SessionFacts`). On top of them:

- `GeoTypeCorrect`, `PublishedIdVerifiedCorrect`, `AcceptanceEarnedCorrect` and `NoFixInventedCorrect` hold for reads
  cut anywhere: however a frame is doubled, it begins like the sent one and ends with it, so the id,
  the command and the device that the plugin finds by place are those of a frame that was sent. The numbers
  further on need not be, hence the condition `HandledAsSent` in `NoFixInvented`, and `service_position`.
  Strengthenings are `PluginTypeOK`, `IdVerified` (the shared `deviceId` is the default or was logged in
  with), `RepliesEarned` (writes still waiting included) and `FixesKnown`.
- `FaultsExplainedCorrect` holds for reads cut anywhere, a failing database and both builds: each exception is traced
  to the frame in hand (`TerminateExplained`), and after it nothing changes (`StaysExplained`).
- `ServiceOverrunExplained` is carried over from `Session`.
- `FixesPublishedCorrect` and `AnswersCompleteCorrect` need whole frames (`NextIsSent`). The latter compares with what
  the protocol promises for the frames *sent* (`Promised`), alarms apart, and also needs a database that answers and
  a socket that takes each write at once (`AnswersInv`).
- `WholeFramesStepwise`: `GeoService` implements `Framing` without its fairness.

**`FeedbackLogProofs`.** `OnePlaceEach` has to be strengthened little: `LogInv` says of each pair of places that
they exclude each other (`Exclusive`), that the queue holds nothing twice (`Distinct`), and that every feedback
is somewhere as long as no request has ended without an answer, which may or may not have stored it.
`PublishInv` is what both sends have in common; `QueueGrows` and `QueueShrinks` are what a PUB socket and
a receive do to the set of queued feedbacks. `NoLateLossCorrect` counts: a full queue of distinct feedbacks
and the one being sent are all under way (`FullQueueUnderWay`). For `LogDelivers`, exclusive places make the
cases of `Status` exclusive (`StatusCases`), and a step that touches the places of one feedback changes
the status of no other (`StatusMoves`).

**`PipelineProofs`.** `PipelineImplementsService`: waiting inside `send` only delays the service. `CallsOnceCorrect`
(`FramesWellFormed`, `UniqueFixIds`, any cuts): every step is one of `LogSpec`, as a fix is handed over when its
frame is handled and each `)` is handled once (`FixesHanded` in `Grounds`). So the theorems
about `FeedbackLog` hold of the composed system (`PipelineKeepsFeedbacks`), and its steps implement
`FeedbackDelivery` (`PipelineDelivers`). With whole frames nothing handled is left behind
(`FixesAccountedCorrect`). `PipelineAssumption` says that `Feedback` has the ids of all fixes in the streams.

**`StartupProofs`.** `OneServes` speaks of servers, and the exclusive port is bound long before; `PublisherInv` joins
them: one process at most is past its constructor, and who has a server is. `PluginsServedCorrect` follows
from `ServedInv`: what the search has found are the files before the first bad one (`FoundOK`), the loop in
`main` tries them in order (`NextOK`), and each that was tried has a server or a clash (`TriedOK`).

**`NanoLogQueueProofs`.** Slots are numbered through the buffers (`Base`). `QueueInv` says that each line past its claim
has one (`LinesClaimed`), and, until a freed buffer is accessed (`uaf`), that claims fill the open buffer slot by slot,
the count is the number of slots nobody still holds, and only who counts the last one opens the next
buffer (`ClaimInv`); that a slot is ready just when it is claimed and flagged, with the line of the claim
(`ReadyInv`); that the reader has written the first lines that were claimed, all of them ready, and freed
the buffers before its own (`ReaderInv`); and that the lines due at a quiet shutdown are ready up to a place
before which it does not stop (`QuietInv`). The hard step is `Retire`: all slots taken means that all
were flagged, not that all were counted, and so the invariant must end with `uaf`. `queue_dropped` shows
that it does.

**`NanoLogRingProofs`.** Four invariants, for a ring of any size and indices of any range:

- `LinesInv`: a slot holds whatever line was moved into it, so lines being made and those in the ring
  fit. `ResizeMakesRoom` is the lemma about `resize_buffer_if_needed`, `EncodeSound` that about `operator<<`.
- `TextInv`: the pieces in the buffer of a line can be walked from the header to `used`, one argument after
  the other (`Encodes`). `EncodesMore` shows that `operator<<`, growth included, makes the walk one longer and
  leaves what was there (`StillHeld`, `NewlyHeld`), `Decodes` that `Stringify` finds just this walk (`WalkExists`:
  its recursive function is defined, since a walk never goes beyond `used`). `TextIntactCorrect` follows.
- `ClaimsInv`: each id is in one place (`OnceInv`), and until the reader has been lapped, the waiting claims are
  those between `Len(out)` and `Len(claimed)`, each in the slot of its number modulo `Size` or about to be stored
  there (`FollowInv`). At most `Size` consecutive numbers are waiting, so their slots are apart. All this as long as
  reader and writers are in step (`InStep`): the reader has not been lapped, and either `Size` divides `Modulus`,
  so that a slot is the same before and after a wrap (`SlotOfIndex`, `SlotOfClaim`), or no index has wrapped yet.
  That no line is taken twice needs neither.
- `FilesInv`: while the stream is good, the counted bytes are those of the current file, each file before it is
  full by its last line (`Full`), and the ids in the files of the run, one after the other, are those the
  reader took (`Follows`). `NewWriter` is what a restart makes true of files found on the disk.

**`SequenceFoldsProofs`.** `Total`, `Without` and `Concatenated` are recursive functions, and what they do to a sequence that
grows is proved from the existence of such functions (`Recursion`). Two kinds of induction are stated for
sets of numbers (`SetInduction`, `LeastNumber`), from the well-foundedness of `<`. The folds of the community
modules take operators as arguments, which the provers cannot instantiate; hence these in their place.

**Only model-checked.** Liveness: `FramesAnswered`, `LoginsAnswered`, `FixesStored`, `LinesWritten`, `StartUpEnds`, and what
`WholeFrames` and `Delivered` say of fairness, as `ENABLED` and weak fairness are beyond the provers. The five
violation runs are counterexamples, which need no proof.

## 6. What is not modelled, and why

- The arithmetic that makes degrees of the numbers of a fix, and the JSON: formatting that no property is about.
- Another program that holds port 5555, which ends the constructor as a second process of the service does.
- Two processes that run at the same time and write log file 1: a second start that is to fail at its `bind`
  has truncated the first one's file by then (`sdk.cpp:30` before `:44`). `RunsNotMixed` is about runs that follow
  each other.
- The order in which documents are stored: requests overlap and the code promises none.
- Memory that is never freed (`output` of login and handshake), memory exhaustion, and time: out of TLC's reach.
- The logger before it is `READY`, when `initialize` has not returned and nothing can be logged.
- Text with NUL bytes inside a logged `std::string`, which `decode` would cut.
- `Ctk103::start` and `stop`, which nothing calls; the MongoDB and Redis branches, and the other stubs.
- `sdk_linux.h`, `dms.h`, `otlv4.h`, the headers under `include/` and `packages/`: an earlier variant,
  unused or third party. What the service relies on in ZeroMQ, Boost.Asio and cpprestsdk is
  in the external definitions of the modules.

## 7. Plan

Done: all modules of section 2; the runs of section 4; a theorem for every safety invariant and action
property of the passing runs, and for the steps of the three refinements. Next:

1. Weaker hypotheses where the code would keep a property without them: `FixesPublished` and `FixesAccounted` for
   streams of which only some reads split a frame.
2. Of `NanoLogQueue`, what survives an access to a freed buffer when its memory is kept (`FreedIsKept`).
3. Lemmas that `SessionProofs` and `GeoServiceProofs` both need in one place, and shorter proofs.
