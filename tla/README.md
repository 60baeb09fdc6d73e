# TestApp and TestAppBootUp in TLA+

TestApp is the production-line test program of a family of boards. It runs on
the board under test: a host sends commands over a UART, TestApp tests the
named part of the board and sends the verdict back. TestAppBootUp is the small
program started at boot that finds TestApp on a USB stick, copies it to `/tmp`,
runs it and ends it when the stick is pulled (`src/README.MD`). This directory
models both, checks the models with TLC and proves the main results with TLAPS.

## 1. Inventory

```
 host --UART--> receive loop --TaskQueue--> command thread --work queue--> 8 workers
  ^            (main thread)              (processTask)   \--> detached threads
  |                  ^ SIGINT handler            |                |
  +------------------+---- sendResponse <--------+----------------+
```

| component | source (under `src/`) | state it keeps | operations |
|---|---|---|---|
| receive path | `TestApp/src/protocol/BufferManager.cpp`, `ProtocolParser.cpp`, loop in `main.cpp:104-115` | 4096-byte ring buffer; state of the parser, header fields of the current frame | `writeBuffer`, `parseFrame` (a state machine resumed on every call), `getTask` |
| send path | `ProtocolParser::packData`, `sendResponse`, `Uart.cpp` | index of the answer, the port | pack, write |
| work queue | `TestApp/include/util/theradpoolv1/thread_safe_queue.h` | linked list with a dummy, two mutexes, a condition | `push`, `try_pop`, `wait_and_pop` |
| threads | `main.cpp`, `thread_pool.h`, `join_thread.h`, `TaskQueue.cpp` | two pools, two queues of interrupt flags, the queue of commands | start, receive, SIGINT, shutdown |
| command dispatch | `TaskHandler::processTask`, `executeTestAndRespond`, `stop_all_tasks` | flags of the running tests | stop, acknowledge, execute |
| tests | the `*_test` functions of `TaskHandler.cpp` | a verdict each | one per kind of test |
| hardware | `TestApp/src/hardware/*.cpp` | the table of descriptors; members shared by tests: `Serial::fd`, `Rtc::rtcFd_`, `Key::keyEventNamesToPath`, `Wifi::scanCount`, `bluetoothScanResult` | open, ask and close a device; scans |
| boards | `TestApp/src/project/*` | which interfaces a board has, the UART, lamp and headset tasks | construction, destruction |
| USB devices | `TestApp/src/hardware/Storage.cpp`, `TypeC.cpp` | lists of devices and disks, the type-C port | scan, refresh |
| dialog | `TestApp/src/util/ZenityDialog.cpp` | the process that shows a message | show, update, close |
| utilities | `TestApp/src/util/*` | logger, timer, vendored jsoncpp | |
| CRC-16 | `TestApp/src/util/Crc16.cpp` | two tables | `calculate` |
| start program | `TestAppBootUp/test_app_start_v2.c` | child, target device, mount, copy | scan, mount, copy, launch, event loop, clean-up |
| earlier start programs | `TestAppBootUp/test_app_start_v0.c`, `_v1.c` | the same | the same, in other orders |

How they interact. The main thread polls the UART, feeds the parser and pushes
each task to `taskQueue`. One thread of a one-thread pool pops it, acknowledges
the command and either runs the test itself, detaches a thread for it, or
pushes it to the eight workers of `work_thread_task` and then its interrupt flag
to `interrupt_flags_queue_task`. `CMD_BEGIN_TEST` and `CMD_OVER_TEST` stop all
flags in that queue first. Command thread, workers and detached threads all
answer on the one UART. SIGINT runs its handler on the main thread: it stops all
flags in both queues, after which `main` returns and the destructors join the
threads. The start program shares nothing with TestApp but the process table
and the file system.

What is hard, and what makes each part correct:

- *Receive path*: the stream is cut into reads anywhere and may hold noise; the
  header fields survive between calls; indices and lengths are 16 bits. Correct:
  every task is one well-formed frame, no frame is used twice or put together
  from two, nothing that is complete is lost, the ring buffer is a FIFO.
- *Work queue*: a push and a pop hold different mutexes and work on the same
  node when the list is short; a popped node owns its successor. Correct: the
  list is linearizable, no freed node is touched, what is pushed is popped.
- *Threads and dispatch*: a stop races tests that are being submitted, are
  queued or run; SIGINT races everything; the queue of flags has no lock; `main`
  destroys objects that other threads still use. Correct: answers in order, a
  stop reaches all tests before it, tests are answered, the program ends.
- *USB tests*: type-C tests on workers and storage tests on the command thread
  share lists and a dialog without a lock, while the operator moves plugs and a stop or the
  time-out ends a test. Correct: every test answers, a verdict OK means that
  every item has been found, and no test judges by what another one left behind.
- *Tests of the board*: tests on the command thread, on workers and on detached
  threads share members of the board and the table of descriptors, in which the
  number that one test closes is the number the next one gets; every access can
  fail, the table can fill up, the port may take half of an answer. Correct: OK
  means that the device was seen to work, NG has a cause, a test uses and closes
  what it opened, it ends, and what the host reads is what the test found.
- *Life of the process*: three tasks run on the first pool for good, a start can
  fail half way, `exit()` runs destructors that join the threads using what they
  destroy. Correct: SIGINT ends the process, in order, whatever runs.
- *Start program*: sticks come and go between any two system calls, any call
  may fail, the child ends by itself, pids are reused. Correct: the globals
  account for everything made, removal ends the program, insertion starts one.

`PROJECT.json` lists every component with its status and, under `hazards`, each
of these at its line.

## 2. The modules

| module | models | extends / instances |
|---|---|---|
| `ByteFifo` | abstract: a FIFO of bytes of bounded length | |
| `BufferManager` | the ring buffer | refines `ByteFifo` |
| `ProtocolParser` | `parseFrame`, one action per state | `BufferManager` |
| `FrameReceiver` | the receive loop over the parser | `ProtocolParser` |
| `LinearQueue` | abstract: a linearizable queue with calls and returns | |
| `ThreadSafeQueue` | the two-lock list, one action per shared access | refines `LinearQueue` |
| `TestRuntime` | main, SIGINT, command thread, workers, detached threads | |
| `UsbDevices` | the lists of `Storage.cpp`, one access at a time | |
| `ZenityDialog` | the dialog, one access at a time | |
| `UsbTests` | `storage_test`, `typec_test`, the stop between them | `UsbDevices`, `ZenityDialog` |
| `Descriptors` | the table of descriptors, threads that run tests | |
| `SerialTests` | `serial_test`: loop-back, partners, RS485 and CAN lines | `Descriptors` |
| `KeyTests` | `switchs_test` and `waitForKeyPress` | `Descriptors` |
| `DeviceTests` | LN, MAC, GPIO, network, ADC, camera, lamps, fan, RTC | `Descriptors` |
| `RadioTests` | `wifi_test`, `bluetooth_test` and their scans | `Descriptors` |
| `Responder` | `sendResponse`, `packData` and the write to the port | `Descriptors` |
| `BoardTests` | commands of a plan that run these tests side by side | the five above |
| `BoardSteps` | for the proofs: the ways of each action and the parts of the inductive invariant | `BoardTests` |
| `AudioSync` | one microphone test with its player and recorder | |
| `Lifecycle` | start, the tasks of the board, SIGINT, `exit()` | |
| `Crc16` | `Calculator::calculate`, its tables, two reference definitions | |
| `JsonReader` | `Json::Reader` on lexemes, `operator[]` and `asInt()`, a reference grammar | |
| `ToneAnalysis` | what the microphone test computes: tones, gain, WAV file, peaks, bands | |
| `BootUp` | the deployed start program (`README.MD:13`) and its machine | |
| `BootUpEarlier` | the two start programs before it | |
| `*Proofs` | the theorems, see section 5 | the module they are about |
| `MC*` | small instances | |

They compose by interface: `TestRuntime` receives one command per turn of the
loop, which is what `FrameReceiver` delivers, and its work queue is the FIFO that
`ThreadSafeQueue` is shown to implement. What a test is to `TestRuntime`, a step
with a result, is taken apart in `UsbTests` and `BoardTests`; what happens
before and after its `serve` is in `Lifecycle`.

**Receive path.** `Receive(n)` is one `receiveData` and `writeBuffer` (a block
that does not fit is dropped whole, as `ProtocolParser.cpp:10-15` does, with a
log line only); one `ParseStep` is one turn of the `while` of `parseFrame`, so a
call is several steps and ends with `ret`; `Push` is `getTask` and the push. The
state names are those of the code. `Crc` and `JsonKind` are constants: the CRC is
any function, and a JSON text makes a task, is bad, or is one on which jsoncpp
throws (which leaves `main` and ends the process). 16-bit members wrap. The run gives `Crc` the definition of
`Crc16` and `JsonKind` that of `JsonReader`, for the documents that one byte of a frame stands for.
`JsonReader` works on lexemes, each of which stands for all spellings that the reader treats alike.
`accepted`, `consumed` and `refused` are history: they number the bytes that
entered the buffer so that a task can be traced to its frame. `reset()` and the
state `STATE_ERROR` are never reached.

**Work queue.** Every read or write of `head`, `tail`, a node's `data` or `next`
and every lock and unlock is a step, except that a read of `tail` under its
mutex (`get_tail`) is one. Nodes are addresses that are freed and reused;
`Owned(n)` is what the destructor of a `unique_ptr` takes with it. `chain` is
history: the nodes between the two ends.

**Threads.** A command is its place in a script and has a kind, by what
`processTask` and the test do with it (the list is at the head of the module).
`handler` runs through stop, acknowledgement and execution in the order of the
code; `Drain` is the loop over the queue of flags one access at a time, because
the signal handler and the command thread may be in it at once. A test is
modelled by how it ends: when its flag is stopped, by itself with an answer, by
itself without one, or never (`microphone`). A command whose number no `case` of `processTask` knows (kind
`unknown`) is taken and only logged (`TaskHandler.cpp:67`): the parser lets any number through, and
`test_app.log:3514` shows one of the 7s with which the host acknowledges results. `log` of `main`
is the call of the logger after a frame, in which a signal finds its mutex taken: the
handler then waits for ever. Undefined behaviour (an object that
`main` has destroyed, `front()` of an empty queue) either goes on or ends the
process, `Crash`.

**USB tests.** Thread 0 is the command thread, thread k the worker that runs the
type-C test which is command k. A refresh of the list is six steps, since two threads may be
in it: clear the count, clear the entries, read `lsusb`, and per line load the count,
store it, write the entry at the count read again (`-O0` code of `list[++count] = info`).
A loop over the list that runs while another thread refreshes it may find or miss
anything (`Meets`). The dialog is a list of steps per call. A turn of the type-C loop is `Turn`,
for a newly inserted side a refresh, `JudgeItem` per item and `SideTested`, then
`CountDown` or `GiveUp`. `Response` is what lines 1588-1604 make of the test case. Items
are records; a vendor and product number is one id; the size a disk shows is that of any
size file below it, because the search takes the first in directory order. The name of a storage item is the set of the known words it contains, and `TestItem` tries
them in the order of `stringToTestItem()`, whose comment warns of it ("usb" is part of other
names). The sizes of DDR, eMMC, TF and PCIe are read with any outcome, failure included.
`printed`, `disturbed`, `attached`, `most` and `clash` are history. Assumed of the sizes: the lists of the
code have room for all devices and disks there can be, since the code does not look and what a write behind
them does is undefined. `HonestVerdicts` leaves out an item that asks for id 0000:0000, which is what an empty
entry holds, and a storage item that asks for no disk.

**Tests of the board.** `th[k]` is the thread, or the stretch of the command thread, that
runs command `k` of the plan: its place `at`, its locals and what it answers. `fds` is the
table of descriptors: `open()` takes the lowest free number or fails, and read, write and
close take whatever number they are given. `met` (what went wrong in the last attempt), `shown`
(which items were seen to work) and the sets of tests that overlapped (`raced`, `clockRaced`,
`btRaced`, `crossed`) are history. Items are their kinds, listed at the head of each module; a
value read is an outcome: right, wrong or, where the code does not notice, misleading
(`lookalike`: an address that contains the prefix further on, a network whose name contains
the one looked for, a camera frame without bytes). `popen` streams are not in the table. `SerialTests`
keeps `openSerial()`'s member and the order of attempts, rounds and pairs; the frames on a line
reach all its ports. A port on a line was seen to work if every frame sent to it in the last attempt
came (`lost` is empty of it) and there was one (`reached`); a port that nothing could be sent to is in neither, and
the code, which starts from results that are true, calls it OK. `openSerial` may fail at every step; where the attributes cannot
be set it logs the baud rate with `%s` (`Serial.cpp:56`), which ends the process (`SerialConfigDies`). The 16-bit members of `packData` are `% Width`; the write takes all or a
part, since the port does not block. A process that is ended by a test (`alive`) stops everything.
All threads are records of one shape, `Fresh`, with the locals of all tests.

**Audio.** `AudioSync` has a step per lock, wait, wake-up and join. What lies behind the start of
the sound is modelled too, although the code never gets there. `ToneAnalysis` has what the test would
compute then, as functions of what was played, recorded and saved: the window, the transform and the
sines are left out, a spectrum is any function from bins to magnitudes, and `std::sort` leaves the order of
equal peaks open. A file that cannot be written leaves an earlier one, which is then analysed.

**Life of the process.** `Lifecycle` starts in `main()` before the UART is opened. A command is one
step of the command thread and SIGINT stops all flags in one step: `TestRuntime` has the finer
ones. Three things may never end: a tone, since `play_audio` writes again what cannot be written
(`PlayForever`), a Wi-Fi scan (`ScanForever`) and a microphone test (`test`). The thread of an RTC or Bluetooth test (`detached`) is
joined by nobody: it may answer when `main` has returned and UART and protocol are gone, which either goes well or ends the process. `exit()` destroys the task pool, the main pool and the factory in the order opposite to
their construction; it can run on the main thread and, called by `check_error()`, on the worker
of the headset, on both at once as in a C library that does not serialise it.

**Start programs.** One action per system call whose outcome or timing matters.
The environment plugs and pulls sticks, udevd queues events once the monitor is
enabled, the child execs, fails to exec, runs its `atexit` handlers or exits, other
processes take free pids, and SIGINT comes. Assumed: `umount` succeeds, and the
clean-up a child does after a failed `execl` is one step. `get_mount_point` returns
NULL for every line the kernel writes, since its `sscanf` format does not match
them; the branch that uses an existing mount (lines 183-185) is therefore dead
and left out. `BootUpEarlier` has both earlier versions in one module, since they share the shape;
`version` says which is installed. Version 1 runs what the desktop has mounted, and version 0
leaves its mount until the stick is removed, as its comment at line 212 says.

## 3. What TLC checks

| run | instance | shows |
|---|---|---|
| `receiver` | seven streams (clean, nested look-alike header, wrong CRC, bad JSON, no content, throwing JSON, wrapping and too long lengths), buffer of 23 bytes, reads of up to 12 in every cut | `FramesAsReceived`, `NoCompleteFrameSkipped`, `CleanStreamDelivered`, `ImplementsFifo` |
| `work_queue` | two producers, a polling and a waiting consumer, three nodes, two values | `ListSound`, `ImplementsQueue`, `EveryPushPopped` |
| `runtime` | two workers, eight scripts of up to four commands, four with SIGINT at any step | `AnswersInOrder`, `StopReachesAll`, `StopFreesPool`, `TestsAnswered`, `CalmShutdownEnds` |
| `ctrl_c` | one key test, SIGINT at any step | **violated**: `CtrlCEnds` |
| `lifecycle` | three workers, every start that fails, SIGINT and an error of the sound card at any step, one pool test and one detached test at a time | `ExitIsClean`, `StopEnds`, `RedLampBlinks` |
| `usb_tests` | four scenarios: a type-C test and three moves of its plug; two storage tests with disks pulled between; a type-C test, a stop and a re-test; a type-C and a storage test at once | `TrueMeansJudged`, `HonestVerdicts`, `OneDialog`, `TestAnswered` |
| `type_c_timeout`, `absent_disk` | the first scenario, the second | **violated**: `OKMeansTested`, `NoAbsentDiskOK` |
| `board_tests` | twenty plans of one to three commands, every access failing or not, six descriptors | `OKMeansWorks`, `NGHasCause`, `DescriptorsKept`, `EndsExplained`, `AnswersTrue`, `EveryTestEnds` |
| `mic_starts` | one microphone test | **violated**: `BothStart` |
| `bootup` | two device names, one program, one pid, three changes | `ProgramAccounted`, `IdleIsClean`, `RemovalEndsProgram`, `InsertionStartsProgram` |
| `bootup_earlier` | both versions, two device names, two programs, one pid, two changes | `RunsOwnStick`, `LeftoversKnown`, `RemovalEndsOne` |

The pure algorithms have no run of their own; TLC evaluates what is said of them when it starts. In `receiver`:
the tables of `Crc16` are those of the polynomial (`CrcIsModbus`); the reader accepts exactly the documents of
the grammar, all of up to four lexemes out of eleven and of up to six out of seven (`ReaderAcceptsGrammar`: comments may
stand before a value, a name, a comma or the end, and an object may end in a comma behind an empty name);
it throws only where text is nested deeper than the limit (`ReaderThrowsInDepth`). In `board_tests`: what is read from a WAV file
are the frames that were saved (`WavKeepsFrames`); the gain keeps the order of the samples and makes none
smaller (`GainKeepsShape`); which tones are found for which peaks (`LoudestPeaksDecide`: two peaks in one band can
hide the other tone); the length of the transform (`TransformFits`).

Every passing run also checks the `TypeOK` of its module. Some properties join several that
belong together: `FramesAsReceived` is `HeaderFieldsCurrent` and `TasksAreFrames`,
`ListSound` is `ListIntact` and `NoDangling`, `ProgramAccounted` is `NothingForgotten` and
`RunsFromTarget`, `HonestVerdicts` is `HonestItems` and `DiskVerdicts`; `DescriptorsKept`,
`EndsExplained` and `AnswersTrue` name their parts in `BoardTests`.

The properties of `board_tests` have exceptions, each a behaviour of the code that the
property names. They are the known ways in
which the tests go wrong, and the property says that there is no other. An RS485 partner that
never answers may be OK (`serial_485_test` returns nothing, `Serial.cpp:1014`); a port on a line whose
other ports are all NG may be OK without a frame (`Alone`; `Serial.cpp:241`, `TaskHandler.cpp:793`); three ports
on a line take frames of each other; two tests on one member mix their descriptors; an RTC
test that fails closes its number twice; key and GPIO tests leave descriptors open; a
single port on a line reads an element of an empty vector (`TaskHandler.cpp:755`; the delivered
`testConfig_AIOT3588.xml` has two ports on a line, so disabling one is enough); a serial port whose attributes cannot be
set, a broken pipe, a voltage that is no number, two Bluetooth tests at once and an answer whose length wraps to
zero end the process;
`ln_test` answers with its last verdict. Of two answers with one index only one need have been sent while
another test was sending: a third sender can write back a count that was read before both (`NumbersFresh`).

Why the bounds are enough. A frame of the instance has 8 to 10 bytes, so a
buffer of 23 holds two frames and part of a third and its indices wrap at every
offset; the reads cut header, content and CRC everywhere, and a full buffer
refuses blocks. Three nodes are a dummy, a value and a node in the hands of a
push or a pop, the case in which both locks meet on one node; addresses are
reused. (Four nodes with one value were checked as well.) Two workers are fewer
than the endless tests of one script and more than those of the others, which
is what matters of the number eight. One of the scripts with SIGINT has a key test and no stop, so only the
handler can end it; one has a command nobody knows between a detached and an inline test. One detached thread of `Lifecycle` is enough to
be late, one test of the pool to keep its destructor waiting. Three turns before the time-out let a
type-C test be complete in time, be complete in the very last turn, and be late; one
device on either side of the plug and one disk are enough to be present, missing or left
over; a list of four entries is what two refreshes at once can fill. Two device names let an event of one stick
meet the program of another; one pid is enough to be reused; three changes pull a
stick, plug it or another, and pull that. The plans of `board_tests` bring together
the tests that share something: two serial, two RTC, two Bluetooth tests, a serial test with an RTC
test (a number closed by one and given to the other), two Wi-Fi tests in a row, a key test, a
stop and a test behind it; the remaining kinds run by themselves. `Retries = 1`, `Rounds = 1`, `Probes = 2`
and `Scans = 2` stand for 3, 10, 20 and 5: one attempt that fails and one that is the last, a
partner that answers the second time, scans that are used up by the second test. With
`MaxFd = 6` a key test that leaves two devices open per wait fills the table. `Width = 16` is 2^16, and the two
`Lengths` are one that fits and the one that wraps to zero. `EventNodes` has two devices of the
board and a foreign one; no name occurs twice. Three workers hold the three tasks of `Lifecycle`.
`MaxChanges` and the `moves` of a scenario are
the bounds on the environment, `CtrlC` names the scripts in which SIGINT may come, and `Node` bounds
the memory; `MaxPlan` only names the threads in the fairness; no other variable is capped.

### Disagreements between code and documentation

Each violated run checks one sentence of the repository; the sentence and the
line of the code are in `findings`.

- *Ctrl+C.* A flag pushed after the handler has run is never stopped: the main
  thread sleeps, or a destructor joins, for ever. A SIGINT with nothing on its way
  ends the program (`CalmShutdownEnds`), and so does any while it serves if nothing goes on for ever (`StopEnds`).
- *Type-C test.* `allTestValue` starts as true and only a judged item makes it false;
  the lines behind the loop set the result from it after the time-out has set NG. With no
  plug inserted the response says `"false"`, `testResult` NG and, in an empty test case,
  `testResult` OK. A response `"true"` is sound (`TrueMeansJudged`).
- *Absent disk.* `storage_test` reads one entry behind `usbDiskCount`; the scan clears the
  count only. As long as the number of disks does not fall this entry is zero and no harm is
  done (`DiskVerdicts`).
- *Microphone.* The comment wants playback and recording to start at the same time; the test joins
  both threads under the mutex they need to leave their wait, and neither starts.

Met as well, without a run of their own:

- Looking for a header needs eight bytes behind it and otherwise discards everything in the buffer
  (`ProtocolParser.cpp:45-54`). Behind a byte of noise, the start of a good frame goes with it. Without
  noise no frame is lost (`CleanStreamDelivered`), and none that is complete (`NoCompleteFrameSkipped`).
- `Crc16.h:10-13` and `Crc16.cpp:6-8` name CRC-16/CCITT-FALSE with polynomial 0x1021; the tables are
  those of CRC-16/MODBUS and the bytes of the result are swapped (`CrcIsModbus`). Both ends of the
  line use the same code, so nothing fails.
- A stick pulled between the scan at start and the start of the monitor goes unnoticed
  (`test_app_start_v2.c:371`, `:390`), whereas `README.MD:16` says that pulling it ends the
  program; `RemovalEndsProgram` speaks of events that are received.
- `push` notifies without the mutex of the waiter, so a `wait_and_pop` may sleep on; it has no
  caller, the pools use `try_pop`.
- `project/ZY3588/ZY3588.cpp:28` declares a local `board_name` that hides the member.
- `play_audio` checks for errors but never gives up (`Audio.cpp:84-94`), and nobody waits for the threads of `rtc_test` and
  `bluetooth_test`: `StopEnds` and `ExitIsClean` say what this does to the end of the process.
- The red lamp is blinked by a task of the board: what `manual_test` sets it to lasts until the next turn.

## 4. Fairness

- `FrameReceiver`: the loop never blocks, so `Parse`, `Push` and reading are weakly
  fair. `SF` on a read that finds bytes: what was sent arrives, but the action is
  enabled only once per turn of the loop.
- `ThreadSafeQueue`: threads run (`WF` of their own steps). `SF` on taking a
  mutex: a thread that asks for a mutex that is free again and again gets it at
  some time. Nobody has to push and no spurious wake-up is promised.
- `TestRuntime`: `WF` for each thread. `waitForKeyPress` has a time-out of 120 s and a
  timed test its own, so their steps happen; the test that hangs is a step never enabled.
- `UsbTests`: `WF` for the command thread and for each worker: a turn of the type-C loop
  sleeps one second and ends. The operator promises nothing, neither to move a plug nor to
  close a dialog.
- `BoardTests`: `WF` for each thread: it goes on where it can, and a wait for the hardware
  (a `select`, a `read` with a time-out, a command run by `popen`) ends. A wait for a key that
  no stop has reached may go on and on with time-outs; `EveryTestEnds` leaves it out.
- `AudioSync`: `SF` for the test and both threads, the strongest promise a scheduler could
  make; that nothing starts is not for want of it.
- `Lifecycle`: `WF` for the main thread, each worker, each caller of `exit()`, a detached test (RTC and
  Bluetooth tests end by themselves) and a test whose flag has
  been stopped: sleeps and the `select` of the headset are bounded. No signal and no error has to come.
  What never ends is a place without a step, and `StopEnds` names it (`Endless`).
- `BootUp`, `BootUpEarlier`: `WF` for the process. `SF` on receiving an event: udevd delivers what
  it has and `select` then reports the socket readable. Sticks and children
  promise nothing.

## 5. What is proved

TLAPS proves these for every value of the constants. `BoardTestsProofs` takes it 25 minutes, the others up to four.

- `FrameReceiverProofs`: first what write, consume and clear of the ring buffer do to the bytes that
  `operator[]` shows, for any buffer size up to 65535; the arithmetic of wrapping lives there. Then `TypeOK`, `HeaderFieldsCurrent` and `TasksAreFrames` (together
  `FramesAsReceived`), and `ImplementsFifo`, for any streams, CRC, JSON grammar and read size, and the action property
  `NoCompleteFrameSkipped`: a frame in the buffer begins at a header the scan cannot have passed, and not
  within the two bytes of a header whose CRC is wrong. `TasksAreFrames`
  is not inductive. `IInv` adds `Window` (the buffer is the part of the stream that
  starts at `consumed`), `Control` (in which states a call can end and what the
  current one knows of the buffer), `Checked` (what CRC and JSON have established
  of the frame at the head) and `Delivered` (the frame just consumed lies behind all
  tasks): a task is a frame because each state of one call passed its finding on.
- `ThreadSafeQueueProofs`: `TypeOK`, `ListIntact` and `NoDangling` (together `ListSound`) and `ImplementsQueue`,
  for any threads, values and nodes. `IInv` adds `PlacesOK` (who is between a
  lock and its release holds it), `OwnOK` (which places own a node, and that a
  popped node has lost its successor), `Distinct` (no node twice in the list) and
  `StepsOK` (what a push or pop has read or written under its lock is still
  so, which is where the two locks could interfere: a pop between its test and its
  last step keeps at least two nodes in the list, since pushes only append). One
  lemma per action preserves `IInv`; a second one maps the action to a step of
  `LinearQueue` or to a stutter. `SetTail` is the moment of a push, `PopHead` of a pop,
  `CompareEmpty` of a failed `try_pop`.
- `BootUpProofs`: `TypeOK`, `NothingForgotten` and `RunsFromTarget` (together
  `ProgramAccounted`) and `IdleIsClean`,
  for any devices, programs, pids and number of changes. `IInv` adds `Phase`: what the
  globals hold at each place of the program, in particular that a clean-up is
  never entered from the middle of a detection with a child.
- `UsbTestsProofs`: `TypeOK` and `TrueMeansJudged`, for any items, devices, commands and threads, with
  the race on the list of devices left as it is. `IInv` adds `Progress` (`Ahead` names the
  items a test has yet to judge: these have no verdict, all others that are tested have
  one, and `allTestValue` is the conjunction of them), `Ending` (a test that answered
  "true" was neither late nor stopped, hence has no side to go) and `Commands` (where the
  command thread is tells which command it carries out, so that its responses are never
  those of a type-C test, and a stop forgets none that it reached before).
  `OneDialog`: `DialogInv` says what each step of a call to the dialog finds (`Stage`) as long as
  threads do not meet in it (`clash`); that the last test which ends by itself leaves no dialog (`Gone`)
  needs `Places`, which calls a thread can be in at each place of its test.
  `HonestVerdicts`: `HInv` follows what `lsusb` printed through the list of a thread that nobody disturbs (`Lists`,
  `Refreshing`: after each step of a refresh the list holds the lines read so far and nothing behind the count) to
  the verdicts (`Fresh`: none on an item not reached), and bounds the disks that are OK by the disks taken and
  the entries behind the count by the largest scan before (`Disks`).
  `TypeOK` follows from these and `Types`. Refreshes that race on the list, which no lock protects, each add to one count,
  so for enough threads it passes the list: the type of `count` is `Nat` alone, and what `TypeOK` says of it is what the code relies on,
  that a refresh which nobody disturbs writes inside the list (`Storage.cpp:703-747`); that needs `Lists`.
- `TestRuntimeProofs`: `TypeOK`, `AnswersInOrder` and `StopReachesAll`, for any scripts, any
  number of workers and SIGINT at any step. `IInv` adds `Begin` (no command thread before it
  is submitted), `Progress` (commands are taken one after the other), `Acks` (of those the command thread has got over,
  `Past`, all that it knows have been acknowledged, in their order, and no others), `Places` (a test is submitted, queued,
  run by one worker or detached, and never in two of these places; as long as it is, it has not answered)
  and `Stops` (until SIGINT, each test of the pool is stopped, has its flag in the queue, or
  the handler is about to push it; `Undisturbed`). After SIGINT two threads drain one queue and the last
  part is given up, which is why `StopReachesAll` ends there.

- `LifecycleProofs`: `TypeOK` and `ExitIsClean`, for any number of workers, with SIGINT, failing
  starts and errors of the sound card at any step. `IInv` adds `InOrder` (the objects are destroyed in
  their order, each by one caller of `exit()`), `Joined` (the destructor of the pool goes on when all workers
  have ended), `Begun` (a start that failed has pushed no flag that SIGINT could stop), `Freed` (each
  freeing of the UART belongs to a failed start or to the factory), `Tested` (the test of the other pool ends before its destructor does), `Leaves` (until `main` returns only the
  worker of the headset can be in `exit()`, and there it waits for itself) and `Crashes`.

- `BootUpEarlierProofs`: `TypeOK`, `RunsOwnStick` and `LeftoversKnown` for both earlier versions, any devices,
  programs, pids and number of changes. `IInv` adds `Phase` (what the globals hold at each place), `Copying`
  (a copy is whole from the end of `cp` until the child has been started from it: version 0 has one name for
  the copies of all sticks) and `NoCopyYet` (version 1 begins a detection without a copy, unless one failed before).
- `BoardTestsProofs`: all five invariants of `BoardTests` and its action property `NGHasCause`, for any set of plans shorter than the counter of answers is wide,
  any table of descriptors, input devices, retries, rounds and scans, and tests interleaved in any way. `Typed` is the
  first part of the inductive invariant: `Shape` (what the variables range over) and for each thread `LocalsOf`,
  `ControlOf` and `ItemsOf` (a thread is at a point of its own test, with the attempt, line, item and verdicts that point
  can have, and has packed an answer only at the end). The second is `Sends`: the counter is at most the number of
  answers packed, so it does not wrap; a sender that met no other finds in it what it read there (`CounterOf`) and leaves
  it above every number taken that way (`NumberOf`); a frame that fits is whole (`FrameOf`). The third is `Results`: a
  result is false from the first NG on (`ResultOf`), which in the serial test needs that the verdicts of the ports on a
  line stay "none" until their line was tested (`LineOf`): judging the line would otherwise replace an NG by an OK and
  leave the result false. The fourth is
  `Ended`: a key test has counted the different names among the devices it looked at, unless it met trouble or two devices
  have one name (`Counted`), so when it ends after the last device something went wrong; a port that is missing among those it waits
  on was trouble too (`Targeted`); a key of the command is still not pressed (`Unpressed`), hence the loop ends on a stop or
  with nothing to wait for. Two Bluetooth tests that scan at a time are both known to have met (`BtRaces`), and one that met none finds
  the list that it allocated (`ListOf`): the process does not end there. The fifth is `Kindly`, behind
  `OKMeansWorks`, `DescriptorsKept` and `NGHasCause`, none of which is inductive: an OK is given steps after the device was seen
  to work, with the number of the device in a member that other tests write. `Honest` speaks of a test that met no other on such a member:
  the member holds its own number (`MembersOf`), the ports of its line hear only each other, one that has passed has lost none, and of two that were tested as a pair the
  second got a frame, missed one, or the first could not send (`PortsOf`, `Reaches`): so a port that is OK heard another, or all others are NG; and an OK or NG it is about to give has its reason already (`VerdictsOf`, with `Promised` and `Denied`).
  `Owned` holds as long as no two tests met and no RTC test closed its number twice: what a test holds (`Holds`) was
  opened by itself, hence nothing it reads is astray, and the port being opened has the number of no other on the line (`Apart`).
  `Kept`: a number open in the table is still held by the test that opened it, unless that is a key or GPIO test, which leave
  theirs. `RtcRaces` is to the clock what `BtRaces` is to Bluetooth. A step keeps all of it if it `Fares`, which is shown of
  each way of each action; that the other tests are not disturbed by it (`KindlyStep`) is then one argument for all. Each action has its ways (`...Way1`, ...), a lemma that it has no
  other (`...View`), one that it keeps the control (`...Control`), those of the serial test one on its line (`...Line`) and
  those of the key test one on how it may end (`...Silence`). `NumbersFresh` holds only for plans no longer than the counter
  is wide, hence the assumption on `MaxPlan`: 65536 commands later the index begins again.

The assumptions are the `ASSUME`s of the modules: the sentinels (`None`, `""`, `0`)
are no names, threads have one role, sizes fit their types. TLC evaluates them in
every run.

Only model-checked: every liveness property (the prover has no rule for fairness
here) and the runs that look for a violation. `Crc16`, `JsonReader` and `ToneAnalysis` compute by recursion over data,
which is out of the prover's reach, and are compared with their references by TLC.

## 6. What is not modelled, and why

- *Data*: how lexemes are spelled, how a JSON text is written, and the rest of the vendored jsoncpp
  (`JsonHelper`'s last error is a static shared by all threads); items of a command with fields of a wrong type or with numbers that are
  none, two keys with one code; the transform of a recording, pictures, voltages, addresses:
  each is an outcome. How the bytes of two writes to the port mix is the driver's.
- *Code without a caller*: `TaskQueue::submit`, `thread_pool::submit`, `waitForKeyAndIrPress` and the
  rest of `Key.cpp:162-457`, the first version of the microphone test, `serial485Test`, `serialCanTest`,
  `open_485_device` (`Serial.cpp:125-201`, `312-545`), `Camera.cpp:10-147`, most of `Storage.cpp:75-182` and
  `206-446`, `Timer` and `SingleTaskThread`. (`Timer::stop()` called by its own callback would join itself.)
- *Fields without a reader*: descriptions, mount paths and capacities of the scan of disks, the WCH lists.
- *Log* writes lines under its mutex; that a signal finds it taken is in `TestRuntime`.
- `main_test.cpp` is a scratch program with a target of its own in the Makefile.
- *Assumed of the system*: `umount` and the `fork` of the dialog succeed. The start programs handle SIGUSR1 only, which they
  send to themselves (version 0 has the handler commented out, lines 304-305); any other signal ends them as they are.

One result in a step that takes more than one access in the code: `freeScanResult()` of
Bluetooth, and the verdicts of all ports of a line, which only their own test reads.

## 7. Plan

| next | module | question |
|---|---|---|
| 1 | `HostSession` (abstract) | what the host may rely on per command; `TestRuntime` refines it |
| 2 | `FrameReceiver`, `TestRuntime` | one module that composes them, so that a lost frame meets a running test |

Larger instances worth a night: four commands per plan of `board_tests`, `Pids = {1, 2}` in
`bootup_earlier`, four nodes with two values in `work_queue`.
