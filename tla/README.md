# Verification of cusf-messaging

TLA+ modules, TLC configurations and TLAPS proofs about the messaging library
of this repository. Paths are relative to the repository (`src/` here, so
`os/chibios/messaging.c` is `src/os/chibios/messaging.c` and the library's own
`src/` directory is `src/src/`). Each definition of a module is tied to the
lines it models in `PROJECT.json` (`"map"`).

1. The system
2. The modules, and how they correspond to the code
3. The runs: what each checks, its bounds, fairness
4. What the runs found
5. The proofs
6. What is not modelled
7. The plan

## 1. The system

Sensors and drivers on an avionics board *produce* packets; telemetry outputs
(CAN, USB, SD card) and other code *consume* them. A packet is allocated from
the producer's `telemetry_allocator`, wrapped in a reference, offered to every
registered consumer whose masks match, and freed when the last holder lets go.
The library runs on ChibiOS (`os/chibios`) and on a desktop (`os/std`);
`src/src` is shared.

| Component | State it keeps | Operations | What is hard | What must hold |
|---|---|---|---|---|
| Messaging core, `os/chibios/messaging.c` | reference pool, reference counts, consumer pool, one mailbox and one `is_paused` per consumer | producer/consumer init, send, receive, pause, resume | no lock but the kernel's: every two kernel calls may be interleaved; full mailboxes, exhausted pools, failing callbacks | no packet used after it is freed, freed twice or lost; what a callback sees is what was sent, in order; a lost packet is reported |
| Messaging core, `os/std/messaging.cpp`, `os/std/impl/TQueue.h` | unbounded queue, `running` flag, shared pointers | the same, and terminate / reopen | condition variable, close against open, two receivers | after terminate the receiver drains and ends; no enqueue after close; no wakeup lost |
| Telemetry allocators, `os/*/telemetry_allocator.*` | pool of 32 allocators, one heap each | start, init, alloc, free | registration from several threads, exhausted heap | one heap per allocator, exhaustion reported |
| Component state, `src/component_state.c` | one byte per component, the update handler, `registered_with_messaging` | start, update, send_overall, overall state | re-entered through the messaging system it reports on; read and written without a lock | no error loop; an error that is reported is in the overall state, unless a report of the same component undoes it; a lost packet leaves a trace |
| CAN interface, `src/can_interface.c`, `os/chibios/can_telemetry.c` | a reassembly buffer per mapping | send (fragment), receive (reassemble) | lost frames, arbitration, frames of other nodes | what is handed on was sent, whole and in order but for packets that lost frames or waited in the controller together; a loss costs at most one more packet |
| Serial interface, `src/serial_interface.c` | the position in the byte stream | send (stuff), next_packet (unstuff, check) | truncated frames, lost bytes, no memory | only what was sent comes out; a damaged frame costs at most one more; no packet leaks |
| USB telemetry, `os/chibios/usb_telemetry.c` | connection state, paused consumer | transmit and receive loops | connection lost at any moment, back-off | a disconnected or stuck host holds no packet for ever, one that comes back is served |
| SD card output, `os/chibios/impl/m3teloutput.c`, `microsd.c` | a buffer of frames, an open file, its number | append, flush with retry | the card fails, fills up, loses power and comes back; half a buffer is in one file and all of it in the next | no frame dropped silently; what a file holds can be read back |
| Desktop drivers, `os/std/impl/*Driver.cpp`, `os/std/file_telemetry.cpp` | a port or file, its one or two threads, a consumer | constructor, destructor, thread loops | destruction while the threads use the port or sleep on the mailbox, the end of a file in the middle of a packet | the destructor returns, nothing that waited is left unwritten, no use of a closed port |
| `src/time_utils.c`, `CSVOutputFileDriver.cpp` | last timestamp and accumulated time of each sensor | clocks_between | wrap-around of 32 bits, a stamp of 0, a second file | the time in a file never runs ahead of what passed |
| `src/checksum.c` | lookup table | crc16, crc32 | - | - |
| Start-up, `messaging_all.c`, `messaging_start`, `messaging_producer_init`, `telemetry_allocator_init` | the pools of producers and allocators and their locks | start, register | threads wait for the start and register at once; pools run full; a failure is reported under a lock | one slot each, none lost; every initialisation returns |
| `extractor` | the two drivers, the word of the user | copy an input file to an output | a short input, drivers destroyed while their threads run | it ends, and the output is complete |
| Platform, configuration, `usbcfg.c` | - | counters, barriers, descriptors | - | - |

How they meet. Every component reports to the *component state*, which sends
its packets through the *messaging core*, which reports its own errors to the
component state from within the send: a cycle. *CAN*, *serial* and *USB*
telemetry are both a consumer (outgoing packets) and a producer (incoming
ones) of the core; *drivers* and *SD output* own a thread that blocks in
`messaging_consumer_receive`. Threads share memory (`is_paused`, the consumer
pool, the component states, `s_port`) without locks; on ChibiOS the kernel's
mailboxes, pools and heaps, on the desktop `TQueue` and one mutex are all the
synchronisation there is.

There are no tests in the repository: what the code is compared with are the
header comments, `README.md` and the comments in the code.
`PROJECT.json` lists the hazards, each at the line where it bites.

## 2. The modules, and how they correspond to the code

```
             MessageBus                       what messaging.h promises
             ^        ^                       (Bus == INSTANCE MessageBus WITH ...)
      Messaging      MessagingStd             the two implementations of the core
       |               |        |
  UsbTelemetry   OutputDriver  StreamDriver   EXTEND a core: its actions are conjoined
                   |      .       |           with those of a thread that uses it
               CsvOutput   . . Extractor      (Out == INSTANCE OutputDriver WITH ...)

  CanInterface   SerialInterface   ComponentState
       |                                |
     CanLog                          Startup

  MessagingProofs   MessagingStdProofs <- OutputDriverProofs   ExtractorProofs
  CanLogProofs      SerialInterfaceProofs  StartupProofs       CsvOutputProofs
```

`MCx.tla` gives the definitions a configuration of `x` needs (masks, mailbox
sizes, mappings, symmetry); `x_y.cfg` is a run.

**MessageBus** is the abstract specification. Its state is what a client can
speak of: who is registered, which consumers each send has still to visit, the
queue of messages of each consumer, the message in the hand of each callback,
who is paused, and whether an error was reported. There are no references,
counters, pools, locks or wakeups in it. Its actions say what the
implementations may do: pass a consumer over only because it is paused or does
not want the message, evict at most one older message for a new one and only
after the queue was seen full, give up on a consumer only by reporting an error, discard
a message only for a consumer that is paused.

**Messaging** is `os/chibios/messaging.c`. Each thread has a program counter
`pc`; one step is one kernel call (`chMBPost`, `chMBFetch`, `chPoolAlloc`,
`chHeapAlloc`), one LDREX/STREX loop on a counter, or one test of `is_paused`.
A `Sender` runs `messaging_producer_send` for ever (`Alloc`, `CreateRef`, the
loop over the consumers `Skip`/`Select`, and
`messaging_consumer_enqueue_packet` as `Post`, `PostFails`, `DropOldest`,
`DropNothing`, `ReleaseDropped`, `RepostFails`, `Retain`, then `EndSend`). A
`Consumer` registers, receives, pauses with or without a flush, and resumes.
`Release` is `telemetry_reference_release` up to its test; the thread that
brought the count to zero then owes a `Free`, in two steps: `FreePacket` gives
the packet back to its heap, `FreeRef` the reference to its pool, and in between
another sender may already have the packet. Every early return and error path
is an action (`AllocFails`, `CreateRefFails`, `RegisterFails`,
`ReceiveInvalid`). The constant `FetchBeforeRetain` says whether the scheduler
may run another thread between the post (line 175) and the retain (line 182) in
such a way that it fetches the reference: see section 4.

**MessagingStd** is `os/std/messaging.cpp` on `TQueue.h`. One step is one critical section of a
queue, or one access to `is_paused` or to the pool of consumers. `Wait`, `NotifyOne`,
`NotifyAll` and `SpuriousWake` are the condition variable. `Senders` send,
`Receivers` call `messaging_consumer_receive` with either value of `blocking`,
`Controllers` initialise, pause (with the flush loop, which is a receive of
their own), resume, terminate and reopen. Shared pointers free a packet when
the last of them goes, so its memory is not modelled.

**OutputDriver** extends it by a driver that writes a file
(`OutputFileDriver.cpp`, `M3OutputFileDriver.cpp`, `CSVOutputFileDriver.cpp`):
the constructor, the reader thread with its two loops, and the destructor in
its two orders (`terminate_first`, chosen in the initial state: the M3 driver
terminates its consumer before it clears `is_running`, the other two after).

**CsvOutput** extends that by what the CSV driver counts: `clocks_between`
(`src/time_utils.c`) with the width of its counter as a constant, the sums and
the last timestamps of each sensor, and their reset in the constructor. The
driver with `~terminate_first` is the CSV driver there; packets of one sensor
are stamped in the order in which they come, with any gap.

**StreamDriver** extends MessagingStd by a driver that reads a stream: a serial port
(`SerialDriver.cpp`, `CanSerialDriver.cpp`), a file of frames
(`InputFileDriver.cpp`) or of records (`M3InputFileDriver.cpp`), by `kind`. The
pointer to the stream (`s_port`, `s_stream`) is made null by the destructor
while the threads run. Where the code tests it and then uses it without
synchronisation, the build may read it once or twice: `UseStream` allows both
outcomes. The bytes are abstracted to how many `read_buffer` still has to
serve; `stream_get` is one step per access to the pointer, the index or the
stream.

**Extractor** composes StreamDriver with an instance of OutputDriver: `main` of
`extractor/extractor.cpp` from its options on, with the calls of
`os/std/file_telemetry.cpp`, the loop with `--discard` and the word of the user,
and the destruction of the two drivers, which are globals of one file and so
destroyed in the reverse order of their declarations. `program = "host"` is any
other program that opens and closes a stream driver.

**UsbTelemetry** extends Messaging: `usb_telemetry.c` with its transmit thread
(the consumer `usb`, which pauses, flushes and sleeps while there is no host
or after a packet that could not be sent, and resumes), its receive thread (the
sender `rx`), and a host that comes, goes, reads or does not at any moment.

**CanInterface** is both ends of `src/can_interface.c` with
`os/chibios/can_telemetry.c`: cutting a packet into frames, waiting for a
transmit mailbox (or losing the frame after 100 ms), the order in which the
controller sends what waits, and the reassembly. A frame's bytes are their
origin (which message, which part, how many bytes), so "whole" can be stated.
Nothing makes the sender wait for the frames of its last packet: those of two
packets of an id may be in the mailboxes together, which `overlapped` records, as
`damaged` records which packets lost a frame.

**CanLog** extends it by another medium for the same frames: the log of
`os/chibios/impl/m3teloutput.c` on the card of `impl/microsd.c`. Every call of
the file system may fail, a write may put any part of the buffer on the card
first, the card may be full, and the power may go, after which the numbers of
files start at 1 again. A file is then read back on a desktop
(`os/std/impl/M3InputFileDriver.cpp`) into `can_interface_receive`. Of a file
that is empty this hands on what the stack happens to hold: any of `Strays`, mapped or
not, of more than 11 bits, too long or empty.

**SerialInterface** is both ends of `src/serial_interface.c`, with a `link`
between them: the queue of `usb_telemetry.c`, the write buffer of
`OutputFileDriver.cpp`, or that of `SerialDriver.cpp`, which keeps what it has
flushed. It models stuffing, the reader byte by byte with its
escape state, the header, both checksums, the allocation and every `return
NULL`. A checksum is one symbol that contains what it was computed over, so it
detects every damage; the real ones detect nearly every damage. Each symbol on its way
carries the frame and the place it came from, for the properties and the proof only. The
assumption says that a packet is an identifier and a payload of bytes, and that
`None` is no payload.

**ComponentState** is `src/component_state.c`, as a stack of
`component_state_update` calls per thread: a failing send updates the state of
`messaging` (and of the allocator) from within. One step is one access to
`component_states`, one send, or one return. `Reports` says which threads report
which component, and several may report one: `can_telemetry` is reported by the
thread that starts CAN telemetry (`can_interface.c:59`, called at
`can_telemetry.c:89`), by the transmit thread (`can_interface.c:158,176,183,192`), by
the receive thread (lines 101, 137 and 142) and by the log thread, which stores
`state_ok` through `can_interface_init` (`m3teloutput.c:90`) and may report errors
(line 74). `recoveries` counts, for the properties, the stores that say of a
component that it is in no error.

**Startup** extends it by the start: `messaging_start`, the threads that wait
for `messaging_started`, and `messaging_producer_init` and
`telemetry_allocator_init` with their pools and locks, for both systems (`os`).
An initialisation that fails makes a `component_state_update` of its own before
it returns, so the two modules share one stack of calls per thread. It holds the
specification that the runs of the component state check.

## 3. The runs

`tlc -config <cfg> <module>` in this directory; the names are those of
`PROJECT.json`.

| Run | Checks | Instance | Shows |
|---|---|---|---|
| `refcount` | `NoUseAfterFree`, `NoLeak`, `NoDoubleFree`, `RefCountInv` (of which `TypeOK` is a part), `ImplementsBus` | 2 senders with a message each, 2 consumers with mailboxes of 1 and 2, 2 references, 3 packets | no reference or packet is used after it was freed, freed twice or lost; the invariant the proof uses; the code implements the bus |
| `usb_host` | `LateEnqueuesBounded`, `EveryRefReturns`, `HostServedAgain` | 2 senders, one of them the USB receive thread, 2 consumers of which the pool has room for one, USB among them or switched off, mailboxes of 3, 2 packets, an output queue of 1 | each reference taken from the pool returns; what arrives after a flush is at most one packet of each sender, which had tested `is_paused` before; a host that comes back and reads is served |
| `preempted` | `NoUseAfterFree` violated | `FetchBeforeRetain` | section 4 |
| `std_core` | `StdTypeOK`, `NoLostWakeup`, `NobodyWaitsOnClosed`, `ClosedOnlyDrains`, `ImplementsBus` | 1 sender, 2 receivers on one mailbox, 1 controller, 3 consumers for 2 places, 2 messages, queue of 2 | no sleeper is forgotten or left on a closed mailbox; a closed mailbox only drains; the same bus |
| `std_blocked` | `NonBlockingNeverWaits` violated | 1 receiver, 1 controller | section 4 |
| `files` | `NothingLost`, `NothingLeftBehind`, `TimeOfRows`, `DestructorReturns` | a file driver of either kind opened twice, 2 senders, queue of 2, a counter of 2 bits stamped up to 5 | what waited when the destructor began is written when it returns, and it returns; the time in the rows of a CSV file does not run ahead, and is exact until the counter wraps |
| `programs` | `CrashesOnlyWhileClosing`, `CrashCostsNoOutput`, `DestructorReturns`, `ThreadStopsAtEnd`, `ExtractorEnds` | a host that opens each kind of stream twice, 1 sender beside the writer thread; the extractor with either kind of input and of output, before the input or up to 1 pass after it; a read buffer of 2 | threads end, at the end of a file too; only a destructor can make one crash, and in the extractor that costs no output; the extractor ends |
| `stream_null` | `NullPortEndsTheRead` violated | the same | section 4 |
| `can_media` | `CanTypeOK`, `WholeMessages`, `BusDeliversInOrder`, `BusResyncsAfterOne`, `FramesKept`, `CutIsReported`, `ReplayFaithful`, `FlushEnds` | ids mapped to 3 frames and to 1, wrapped, colliding, too long, of a wrong length; on the bus 3 transmit mailboxes, 4 packets, 3 lost frames; in the log 3 packets, a buffer of 2 frames, 2 failing calls and one restart; 6 records that an empty file may yield | what comes out was sent, whole and in order but for packets that lost frames or waited together; a loss costs its packet and at most the next; frames survive a failing card, a full one is reported, a file that is read back gives what is whole in it, once and in order, and the log goes on |
| `serial_cut` | `SerialTypeOK`, `OnlyWhatWasSent`, `NoPacketLeaks`, `ResyncAfterOneFrame` | 3 frames of packets with stuffed bytes, plain ones and none; a queue of 3 bytes, or a write buffer of 8; memory for 1 packet, 4 lost bytes | what comes out was sent, in order (a port repeats frames), a whole frame as it was; a damaged frame costs itself and at most the next; no block is lost |
| `startup` | `ComponentTypeOK`, `NoErrorLoop`, `ErrorInOverall`, `LossIsVisible`, `SlotsExact`, `InitsReturn` | 4 components, 2 threads, which both report the last of them; 3 producers and 3 allocators for pools of 2, one producer shared by the threads; 2 updates or initialisations besides the start | an error of the system that reports errors does not feed itself; an error is in the overall state sent with it, unless a store of another thread undid it; a lost packet leaves a trace; a slot has one owner and none is lost; every initialisation returns |
| `state_sent` | `ChangesAreSent` violated | 3 components | section 4 |

**Why these bounds are enough.** The conflicts in the core are between two
threads and one reference, or two references and one mailbox. Two senders and
two consumers give every pair of operations a chance to meet (a send with a
drop by another sender, with a callback, with a flush); two references for two
senders leave none for a third packet while one is still held in a mailbox, so
`CreateRefFails` fires, and a mailbox of 1 makes every second send evict;
a mailbox of 2 lets another sender take the place that was made
(`RepostFails`). For other sizes the safety part is proved (section 5). For the
wakeups two receivers are the least number that can steal a message from each
other; again the proof covers any number. Three frames and four lost bytes allow
a loss to hit a frame, the delimiter after it, and leave a whole frame after
that, or to join the header of one to the payload of the next; a queue of 3 bytes is shorter than every frame, so frames are cut
everywhere. On the bus, three lost frames are as many as a packet has, so two
damaged packets may have frames with consecutive numbers; three mailboxes hold
frames of two packets of an id; and four packets allow a whole packet after a whole one
after a damaged one, or two in the wrong order with one to follow.
A buffer of 2 frames cuts a packet of three at both places, and 2 faults with a
restart let the retry of a write fail in its turn, a file be left and its number
be met again. A counter of 2 bits wraps within a file and between two, and is
stamped 0. Pools of 2 for three producers, one of them initialised by both
threads, are filled by one thread while the other looks at them; for any size
`SlotsExact` is proved.

**Bounds that cut something away**, all of them constants: `MaxQueue` (a send
on the desktop begins only while every queue is shorter: the queue itself is
not bounded), `MaxFiles`, `MaxOpens`, `MaxMessages`, `MaxFrames`, `MaxLost`,
`MaxUpdates` (initialisations count as updates), `MaxClock`, `MaxLogged`,
`MaxFaults`, `MaxRestarts`, `MaxDiscard`, `MaxLosses` and `Strays`; the sizes of
buffers (`BUFFER_SIZE`, `READ_BUFFER_SIZE`, `WRITE_BUFFER_SIZE`, `Capacity`,
`OutputSize`) and of pools are small. What the properties promise does not
rest on any of them, as the proofs show, which hold for every value.

**What the CAN properties excuse.** The sequence number in a CAN identifier does not
say which packet a frame belongs to. When as many frames are lost as a packet has,
the first frames of one packet and the last of the next are handed on as one: such a
torn packet consists of packets that each lost a frame. And when a packet is sent
while frames of the last one with its id wait in the controller, its first frame, which
has a lower identifier, overtakes them (the driver leaves `CAN_MCR_TXFP` clear):
the two may be torn, change places or get lost, although no frame is lost. Runs of
the code do this, nothing in it or in its documents says how often a packet may be
sent, and section 4 lists it. `WholeMessages` lets only packets of these two kinds
be torn, and requires of each part that it is in its place, complete, and of a packet that
was sent; `BusDeliversInOrder` lets only two packets that waited together with others
change places, and none come twice; `BusResyncsAfterOne` promises arrival to the packets
of several frames that did not share the controller, and to every packet of one
frame that lost none. An empty file that is read back apart, about which
`WholeMessages` says nothing, this holds of the bus and of files; and in a file,
which the log writes frame by frame, no frame is lost in the middle or overtaken.

`OnlyWhatWasSent` holds for any number of lost bytes because it does not ask for a
packet of one piece from a damaged frame: the checksum of the payload does not cover the
header (`serial_interface.c:51`), so when everything between the header of one frame and
the payload of another is lost, the two are returned as one packet, if their lengths agree.
A frame that was cut on USB and four lost symbols are enough for that, on a port it takes
six; a symbol is a byte or a checksum, and the header's two stand for all of its fields.
Nothing in the repository promises otherwise.

**One constant differs from the source.** The log's consumer is declared with
the metadata `send_over_can` and a mask of 0 (`m3teloutput.c:77`), which no
packet matches; see section 4. `CanLog_media.cfg` gives `message_metadata_mask`
the value 1: with 0 the log writes no frame, and what it does with
frames could not be examined.

**Deadlock** is checked where the system cannot stop (the cores). The other
runs say `CHECK_DEADLOCK FALSE` because their inputs are bounded: when all
frames, packets, updates or files have been used up, the model has nothing left to do.

**Fairness.** *UsbTelemetry*, and with it *Messaging*: a thread that is inside a
send or has something to serve goes on (`SF` on `FinishSend`, `Serve` and the USB
transmit thread, `WF` on `Free`). On ChibiOS all these are ready threads or
threads that the kernel wakes in the order of their waiting; strong fairness
stands for the scheduler not starving a thread whose mailbox is emptied again
and again by senders that evict. No sender is obliged to send, no consumer to
pause, and the host to nothing: `HostServedAgain` has what the host does as its
premise. *CanLog*: weak fairness of the log's thread; the card answers its calls
one way or the other, and may fail `MaxFaults` times. *Startup*: strong fairness
of each thread that is in a call, since a lock that is free again and again is
taken. *CsvOutput* and *Extractor*: weak fairness of each thread of a driver, of
`main` of the extractor but for the words it waits for, and of a constructor or
destructor once it has begun, since the host runs a thread that can go on.
Nothing obliges another program to open or to close a driver, so
`ThreadStopsAtEnd` is the thread's own doing; other senders are not fair, they
may stop, or go on for ever. The condition variable needs no assumption of its
own: that nobody sleeps for ever follows from the notifications of the code, and
a driver whose `close` forgets to notify violates `DestructorReturns`.

**Mutants.** Each property of a passing run has a mutant in the module it
speaks about (its comment begins with "Mutant:"): a change of one action of the
kind a programmer makes, such as a forgotten release or a loop that counts the
wrong way. With the mutant in place of the action the run fails on that
property.

## 4. What the runs found

Four runs are expected to fail; each is a finding of `PROJECT.json`.

* `preempted` (`os/chibios/messaging.c:175`). The reference is posted at line
  175 or 179 and retained at line 182. A receiver of higher priority that waits
  for the mailbox runs inside `chMBPost`: it calls its callback, releases the
  only count there is, and frees packet and reference. The sender then retains a
  freed reference and offers it to the next consumer. Everything else about
  this core is checked, and proved, under the assumption that the window is
  closed (`~FetchBeforeRetain`), which is what a kernel without time slices
  gives to threads of one priority. Retaining before posting would remove the assumption.
* `std_blocked` (`os/std/messaging.cpp:174`). A receive that is not to block
  tests `isEmpty` and then calls the blocking `dequeue`; between the two a
  flush, or another receiver, takes the last message, and the call waits.
* `stream_null` (`os/std/impl/SerialDriver.cpp:27`). `stream_get` tests `s_port`
  and uses it in a second step, `stream_flush` uses it without a test, and the
  destructor makes it null in between. `CrashesOnlyWhileClosing` (run `programs`)
  shows that this is the only time it can happen, and `CrashCostsNoOutput` that
  the extractor has closed its output by then.
* `state_sent` (`src/component_state.c:47`). `component_state_update` stores the
  state and then compares it with the value just stored, so an update of
  messaging or of the allocator is taken for one that changes nothing, and is never sent.

While modelling, the code was seen to differ from its headers in other places. No run
is spent on these, since reading is enough:

* `include/messaging.h:58` says that after a pause "no further packets will be
  enqueued into its buffer"; a send that had tested `is_paused` still does.
  `LateEnqueuesBounded` says how many.
* `include/messaging.h:81` says that after a terminate a blocking receive "will
  deadlock"; it returns `messaging_receive_terminate` (`TQueue.h:24`).
* `include/messaging_defs.h:28` calls `mailbox_size` the "maximum number of
  packets which can be waiting"; the desktop's queue has no bound (`TQueue.h:17`).
* `include/serial_interface.h:32` says that `serial_interface_next_packet`
  "will block until a valid packet is received"; it returns NULL for a damaged
  one (`serial_interface.c:117`).
* `component_state_send_overall` reads a state and stores it again
  (`component_state.c:113`), undoing an update that came in between;
  `LossIsVisible` is stated up to its first call.
* A packet that reports an error may say that the system as a whole is well. The
  state is stored at `component_state.c:41` and the overall state read at line 66;
  in between another thread may store that the same component is well, as the log
  thread does of `can_telemetry` when it starts (`m3teloutput.c:90`). `ErrorInOverall` excuses
  the packets that were `overtaken` like that, and no others.
* Telemetry over CAN can hand on a packet that nobody sent, and packets of one id in
  another order, when frames are lost or packets follow each other closely
  (section 3, what the CAN properties excuse; `can_telemetry.c:21,47`, `can_interface.c:128`).
* The file drivers other than M3 clear `is_running` before they terminate the
  consumer: a thread that has drained may leave while sends still enqueue, and the
  next file begins with the leftovers. `NothingLeftBehind` is stated, and
  holds, for the M3 driver.
* `README.md:107` says that the mask of a consumer "specifies the packet metadata bits to
  compare for equality". The log's consumer asks for `send_over_can` with a mask
  of 0 (`m3teloutput.c:77`): `(mask & flags) == metadata` holds of no packet, and
  the log stays empty.
* A log that has recovered from a failed write stores `state_ok` and then
  `state_error` (`m3teloutput.c:37-40`): the component stays in error for good.
* The result of `f_sync` is not looked at (`microsd.c:165`): what is not
  synchronised is lost with the power, unreported. `FramesKept` excuses it.
* The comment at `microsd.c:112` speaks of a "limit of 99999" files; the loop has
  none.
* An M3 file's last record is handed on twice, and an empty file's once although
  there is none: the record that the failed read left on the stack
  (`M3InputFileDriver.cpp:22`). `InputFileDriver` drops what is left in
  `read_buffer` when it has seen the end of the file.
* `stream_flush` of the serial driver keeps what it has written and writes it
  again with the next packet (`SerialDriver.cpp:47`): `OnlyWhatWasSent` allows
  repeats on a port. A new driver resets the index of its read buffer and not
  its limit (`SerialDriver.cpp:82`), so it begins with bytes of the last stream.
* `clocks_between` adds 2^32 - 1 for a wrap (`time_utils.c:6`): the time in a
  CSV file loses a tick at each, and the time after a packet stamped 0, which
  the driver takes for no packet (`CSVOutputFileDriver.cpp:41`). `TimeOfRows` says
  that it never gains.
* `messaging_producer_init` does not look whether its allocator got a slot, and
  `component_state_register_with_messaging` not whether its producer did; the
  sends of such a producer fail and are reported (`CanSend` in Startup).
* A consumer that is terminated and reopened before a woken receiver runs
  leaves that receiver waiting (`TQueue.h:46`): `NobodyWaitsOnClosed` speaks of
  the time the mailbox is closed. The drivers join the thread before they reopen.

## 5. The proofs

`tlapm` checks every theorem to the last leaf; each is for all values of the
constants that satisfy the named assumptions of its module, and the hypotheses
in the last column.

| Theorem | Says | Hypotheses |
|---|---|---|
| `MessagingProofs!TypeCorrect` | `Spec => []TypeOK` | - |
| `MessagingProofs!RefCounting` | `Spec => []RefCountInv` | `~FetchBeforeRetain` |
| `MessagingProofs!MemorySafety` | `Spec => []NoUseAfterFree` | the same |
| `MessagingProofs!FreedOnce` | `Spec => []NoDoubleFree` | the same |
| `MessagingProofs!LeakFreedom` | `Spec => []NoLeak` | the same |
| `MessagingProofs!BusImplemented` | `Spec => ImplementsBus` | the same |
| `MessagingProofs!LateEnqueuesAreFew` | `Spec => []LateEnqueuesBounded` | the same |
| `MessagingStdProofs!StdTypeCorrect` | `Spec => []StdTypeOK` | - |
| `MessagingStdProofs!WakeupsKept` | `Spec => []NoLostWakeup` | - |
| `MessagingStdProofs!NobodySleepsOnClosed` | `Spec => []NobodyWaitsOnClosed` | - |
| `MessagingStdProofs!ClosedMailboxesDrain` | `Spec => ClosedOnlyDrains` | - |
| `MessagingStdProofs!StdBusImplemented` | `Spec => ImplementsBus` | `SoleControl` |
| `OutputDriverProofs!DriverUsesCore` | `DriverSpec => Spec` | - |
| `OutputDriverProofs!DueIsWritten` | `DriverSpec => []NothingLost` | - |
| `OutputDriverProofs!MailboxLeftEmpty` | `DriverSpec => []NothingLeftBehind` | - |
| `CsvOutputProofs!RowsTellTime` | `FairCsvSpec => []TimeOfRows` | - |
| `ExtractorProofs!ProgramUsesCore` | `ProgramSpec => Spec` | - |
| `ExtractorProofs!ExtractorHasOutput` | `ProgramSpec /\ program = "extractor" => Out!DriverSpec` | - |
| `ExtractorProofs!OpenStreamsAreSafe` | `ProgramSpec => []CrashesOnlyWhileClosing` | - |
| `ExtractorProofs!CrashesCostNothing` | `ProgramSpec => []CrashCostsNoOutput` | - |
| `CanLogProofs!CanTypeCorrect` | `LogSpec => []CanTypeOK` | - |
| `CanLogProofs!LogKeepsFrames` | `LogSpec => []FramesKept` | - |
| `CanLogProofs!FullCardIsReported` | `LogSpec => []CutIsReported` | - |
| `CanLogProofs!PacketsAreWhole` | `LogSpec => []WholeMessages` | `TableOK` |
| `CanLogProofs!PacketsInOrder` | `LogSpec => []BusDeliversInOrder` | the same |
| `CanLogProofs!LossesCostOneMore` | `LogSpec => []BusResyncsAfterOne` | the same |
| `CanLogProofs!ReplayIsFaithful` | `LogSpec => []ReplayFaithful` | the same |
| `SerialInterfaceProofs!NoPacketIsLeaked` | `Spec => []NoPacketLeaks` | - |
| `SerialInterfaceProofs!SerialTypes` | `Spec => []SerialTypeOK` | - |
| `SerialInterfaceProofs!OnlyWhatWasSentHolds` | `Spec => []OnlyWhatWasSent` | - |
| `SerialInterfaceProofs!Resyncs` | `Spec => []ResyncAfterOneFrame` | - |
| `StartupProofs!SlotsAreExact` | `StartupSpec => []SlotsExact` | - |
| `StartupProofs!StatesTypeCorrect` | `StartupSpec => []ComponentTypeOK` | - |
| `StartupProofs!ErrorsDoNotLoop` | `StartupSpec => []NoErrorLoop` | - |
| `StartupProofs!LossesAreVisible` | `StartupSpec => []LossIsVisible` | - |
| `StartupProofs!ErrorsReachOverall` | `StartupSpec => []ErrorInOverall` | - |

**The hypotheses.** `~FetchBeforeRetain` is explained in section 4: without it
the memory properties are false. `SoleControl` says that a consumer has one
thread that pauses, resumes, terminates and reopens it, as every driver does.
`TableOK` is what `can_interface_init` checks, and what the tables of
`messaging_config.h` are meant to be: identifiers that tell the mappings apart,
and no wrapped packet that fits into the buffer of a mapping it collides with (one
that does is put there, as a frame of somebody else's).
No theorem bounds how many frames are lost, how they lie, or how closely packets follow
each other: what this may cost is part of the properties. So is `Undisturbed`: a
wrapped packet with the identifier of a mapping whose
packets have several frames resets the buffer of that mapping
(`can_interface.c:128`), and costs a packet that lost nothing itself. A packet that
`handleUnrecognisedPacket` has wrapped meets this (and the last part of `TableOK`) at any
node with the same table: it was wrapped because no mapping has its identifier.
`MCCanLog` assumes `TableOK` of its instance, so every run of `can_media` shows that it
can be met.

**Reference counting.** None of the three memory properties is inductive: they
say who holds what, and the code decides by a number. `RefCountInv` joins the two:

* `CountOK`: the count of an allocated reference *is* the number of its counted
  holders (`HolderCount`: the sender that owns it, the mailboxes for which
  it has been retained, the threads that fetched it). A reference that
  was posted and not yet retained is in a mailbox that is not counted; that is
  why nobody may fetch it, and where the assumption enters.
* `PostedOnce`: a send offers its reference to a consumer once, so a mailbox
  holds a reference at most once and the number of mailboxes is the number of posts. It
  rests on `PoolOK` (no consumer has two entries) and on the loop's index.
* `FreeOK`: nobody holds a reference that is free or about to be, and one that
  is not free has a holder or a thread that owes the free.
* `PacketsOK`: packets belong to one sender or to one reference that is `Live`: in use, and
  its packet not yet given back. A reference between the two frees still names a
  packet that may belong to another sender by then; `ReturningOK` says which
  references these are.
* `LocalsOK`, `TypeOK`: what a thread's locals hold where it is.

The proof that a step keeps it goes by what the step does to holders, not by action: a step that
changes none (`StillStep`), a fetch (a mailbox's count becomes a thread's,
`FetchStep`), a release by a thread that fetched (`ReleaseFetchedStep`), a post,
a retain, the end of a send, the creation of a reference, the two halves of a free, a
registration. `SendRefs` and `ReceiveRefs` map each action to one of these;
`PacketsStep` does the packets. Cardinalities change by one each time
(`CardAdd`, `CardRemove`); `HeldIffCounted` turns "the count is zero" into
"nobody holds it".

**The bus.** Both cores map their state to that of MessageBus: a queue is what
the mailbox's references (or shared pointers) lead to, a send is what its
thread still has to visit. On ChibiOS the mapping goes through memory that is
freed and written again, so the refinement needs the reference counts first:
`MessageKept` says that the packet behind a reference somebody holds does not change
(`Stable`), from `FreeOK` and `PacketsOK`. Added to that is `OfferInv` (no mailbox above its
size, no offer to a consumer that does not want it, flushes only while paused). Then each
action is a step of the bus or leaves all that it shows as it is. On the
desktop `BusInv` says what each kind of thread may be doing (`SendsOK`, `ReceivesOK`,
`ControlsOK`), that a closed mailbox belongs to a paused consumer
(`ClosedPaused`; here `SoleControl` enters, because a second controller could resume
what the first is terminating), and that a mailbox has room for those who
still offer to it (`RoomOK`, by counting the senders that have not visited it).

**A paused consumer.** `LateEnqueuesBounded` counts messages against senders.
Its invariant, `LateFrom`, names for each message in the mailbox of a consumer
that has flushed a sender of its own that produced it and is not any more on its way to
post another one (`Committed`): the map is one-to-one, which gives the bound. It rests on
`Stable`, as the bus does.

**Wakeups.** `NoLostWakeup` counts: while a receiver of `c` sleeps, at least as many
receivers are awake in `dequeue` as there are messages. An enqueue adds a
message and wakes one sleeper, a dequeue removes one of each, and a receiver
goes to sleep only on an empty queue. It is inductive with `StdTypeOK`, whose
part `CallsOK` says that a thread in a call has the consumer the call is about.
`NobodySleepsOnClosed` follows from the step that tests
`running` and sleeps being one critical section; `ClosedMailboxesDrain` is an
action property, proved step by step from the types.

**Drivers.** `DriverUsesCore` and `ProgramUsesCore` show that what the drivers
and the extractor do are calls that MessagingStd allows, so the theorems about it hold
under them. `DueIsWritten` counts what was due when the destructor began: it
is in the queue or in the hand of the reader (`DueIsThere`), the reader leaves its second loop
only when it has found the mailbox empty (`Drained`), and the destructor
returns only after the reader has left. `MailboxLeftEmpty` adds, for the driver that
terminates first, that the mailbox is closed by then, and that what is closed
only drains. `OpenStreamsAreSafe` follows the stages of the stream driver: no thread runs
unless the stream is in place or the destructor waits for it. The extractor is a
behaviour of OutputDriver (`ExtractorHasOutput`), and its input is
destroyed after its output (`CrashesCostNothing`).

**Time in a CSV file.** `ClocksInv` relates the two numbers the driver keeps, the sum
and the last stamp, to the clock without a width: the last stamp is the counter of
that clock, and the sum never exceeds what passed. `ClocksBetween` is the
arithmetic of `clocks_between` across a wrap, which is one short.

**The card.** `FramesKept` says of each frame given to the log that it is in the buffer or in
a file; every step of the thread moves it from one to the other or excuses
it. What makes it inductive is how many frames at the end of the open file
are unsafe, that those of a failed write are still in the buffer, and that
nothing is unsafe while no file is open. `FullCard` says for how long
`sd_card` stays in error: a recovery stores that the card is well, but is in the
loop of `flush_buffer` then (`retrying`), whose write meets the full card again.

**Whole packets.** `can_interface_receive` compares three bits. Of which packets the
frames are that it puts together is a fact about everything between the two ends,
`PacketsInv`. It calls a packet `Marked` that lost a frame or waited with another:

* `CuttingOK`, `WaitingOK`: what is cut and what waits in the controller are
  frames of packets that were sent, each once; what is not of the last packet of its id
  waits with a marked one, and is of a marked one.
* `BufferOK`: a buffer holds, in their places, parts of packets that were sent, of one
  packet or of several that are all marked. This is `Assembled` when the last
  part arrives.
* `MixedOK`, `AloneOK`: an unmarked packet never shares a buffer, because it is the last
  one of its id for as long as it is under way, its parts leave the controller in order, and
  those that wait are exactly those not yet in the buffer, or the buffer holds
  none of them.
* `OrderOK`: the first part of a packet decides about its place. A first part that waits
  has the lowest identifier of its packet, so packets whose first part has arrived
  (`Begun`, in a buffer or handed on) are older than those whose first part waits,
  unless both had to wait with others.
* On the card there are no losses, but cuts: `FilesOK` says that each file is a
  `Chain` of well-formed frames, in which a frame that is not the first of a packet
  follows the one before it; a file may begin in the middle of a packet and end there. `EndOK`
  says that what is in the buffer, and what is to come, goes on where the open
  file ends, through failed writes that leave half a buffer behind; `ReadOK` relates
  the reader's position to the buffer of its mapping.

A frame meets one of four ends (`Outcomes`: it is accepted, it completes a packet, it resets
the buffer, or it belongs to no mapping), and each is followed through the bus (`BusArrives`) and
the file (`ReadsInPlace`).

**What a loss costs.** That what was *not* damaged does arrive is the converse, and needs two
more facts about the buffer of a mapping (`ResyncInv`):

* `EndsInTurn`: once the last packet of an id is through and lost no frame, the
  buffer is empty: the last frame to leave has the highest number, and completes a
  packet or resets the buffer, so the packet after it begins with a buffer that takes its
  first frame.
* `Unbroken`: while an unmarked packet follows one without a loss, the frames that
  wait are exactly those from `valid_idx` of the buffer to the next one to be
  cut off. The frame that arrives is then the one the buffer waits for
  (`UnbrokenTakes`), and the last one completes the packet (`PromiseKept`).

The order of the arbitration (`ArrivesInPlace`) and the invariant for whole
packets carry this through an arrival (`ResyncArrives`).

**Component states.** An update is a stack of calls. `CallsOK` says what a call
at each depth is about: only the outermost may be about any component, the nested
ones store errors of messaging and the allocator, and the one that stores what
is already there does not send, which is where the loop ends (`ErrorsDoNotLoop`). `ReportOK`
says of an error on the way to be sent that it `Stands` as long as nobody has stored that
its component is in none, which `recoveries` counts: while it stands it is in
`component_states`, so the scan has seen it or will. `LossOK` says
that after a loss messaging is in error, or a call is there that
`Owes` that store.

**Pools.** `SlotsExact` speaks of a pool whose lock is free. Between the slot a
producer takes (`messaging.c:130`) and the count that follows (line 140) its thread
holds the lock, through the initialisation of its allocator and the report of
an error; `StartupInv` says which threads are there (`Taking`), that they hold
the lock (`LocksOK`), and that the slots in use are the first `n` where `n` is
the count plus one while such a thread exists (`Pool`, `ProducersTaken`). A slot
is taken by `NextSlot`; every other step leaves the pools alone or moves that
one from the thread to the count. The updates of component states that interrupt
an initialisation touch neither (`StatesKeep`).

**A file that is read back.** What holds of a frame and the next one has to hold of any
two frames of a file before its packets can be counted: `Chain` says that frames of an
id come in the order of their packets and parts (`Before`), and that `d` places before
part `d` or later is the part that is `d` before it (`Behind`), so a packet whose last
frame is there is there from its first one unless the file began in the middle of it.
`ReplayInv` then says what has become of the first `m` records (`Played`): a buffer holds as
many frames as the packet at the end of them has so far (`Filled`), and what came out is the
set of the packets that have ended (`Ended`), rising. A record moves both by one;
`ReadEnd` reads the last one again, which completes a packet only if it has one frame.
No frame is lost between the log and the reader and none overtakes another, so no packet
is marked there and each that comes out is one packet.

**The serial interface: blocks.** `NoPacketLeaks` needs only the range of `reading` and of
the two counters (`Accounting`).

**The serial interface: framing.** What stuffing does to a payload of any length is a fact
about a recursive function over the payload. Its induction is done by hand: among the
numbers that violate a claim there is a least one (`Least`, from the well-foundedness
of strict inclusion among the intervals), so what holds of 0 and climbs by one holds up to
the length (`Climbs`). From that follow that the recursion has a solution
(`StuffIsSolved`), that what is stuffed has no delimiter (`Stuffing`), and that each
byte has its place in it (`Offsets`); `ReadsOn` says that the reader, with
its escape state, takes the stuffed bytes back one symbol at a time, and
`FrameShape` and `FrameBytes` say where in a frame what stands: the delimiter is first
and nowhere else, and no checksum is a byte.

The invariant, `SerialInv`, describes a run by two numbers, `Reader(x, h)`: `x` is the symbol
that was read last, with its frame and its place, and `h` a frame up to which nothing more
is owed.

* `Stream`: from `x` through the wire and the write buffer to the next byte to be put,
  each symbol `Precedes` the next: it is the next place of the same frame, or the
  delimiter of a later one, unless what is missing belongs to damaged frames; on a
  port, a flush may also lead back to an earlier frame, but only after the end of one. There is one
  lemma for each thing that happens to it (`StreamPut`, `StreamCut`, `StreamBuffered`, `StreamSent`,
  `StreamLost`, `StreamTaken`).
* `OwnHeader`: a reader whose header came from an undamaged frame has read
  exactly that frame up to `x` (`Parsing`), or has joined it in the middle and will find its
  checksum wrong (`BadHeader`). So what it returns of a whole frame is what was sent.
* `InStep`: at `x` in an undamaged frame the reader hunts, parses that
  frame, or is in a frame that has just swallowed the delimiter of this one
  (`Swallows`), which ends it; `First` says that this does not happen to a whole frame after a whole one.
* `PassedUpTo`, `InOrder`, `Rising`: whole frames behind whole ones have come out up
  to `h`, and what has come out rises, but for what a port repeats.

Each symbol that the reader takes moves `x` to it, and `h` on when it leaves a frame
(`Advance`); the sender and the losses leave both alone (`ReaderElsewhere`).
`Types` says what the buffers can hold: only symbols of what was sent, which makes the
header and the payload that pass their checksums a header and a payload that were
sent. `PayloadRead` goes on after a failure with `payload_crc = 0`, the checksum of no bytes; the
length in the header then has to be 0, so even that is what was sent
(`ReturnedIsSent`).

**Only model-checked.** Liveness (`EveryRefReturns`, `HostServedAgain`,
`DestructorReturns`, `ThreadStopsAtEnd`, `ExtractorEnds`, `FlushEnds`,
`InitsReturn`), which needs fairness and `ENABLED`. Every other property that a
passing run checks is a theorem. That the assumptions of the modules can be met is shown by
the runs, which evaluate them.

## 6. What is not modelled

* A desktop driver whose `messaging_consumer_init` fails: the constructors ignore its
  result, and with a full pool of 20 consumers `impl` stays null, every receive returns
  `messaging_receive_invalid_consumer`, and `messaging_consumer_terminate` dereferences it
  (`messaging.cpp:200`). OutputDriver and
  StreamDriver assume a pool with room; the failure itself is `RegisterFails` of
  MessagingStd.
* Two stores of the desktop's `messaging_consumer_init` are one step (`Register`): `impl`
  (`messaging.cpp:98`) and the index of the pool (line 103). In between no sender looks at
  the entry and nobody else has the consumer.
* A callback that calls `messaging_consumer_receive` itself, and a consumer
  that is paused by another thread than its own on ChibiOS.
* The arithmetic of the checksums and their table; the heap inside an
  allocator's block of memory (ChibiOS); the text of a CSV file, of
  `CanSerialDriver.cpp`, and the layout of an M3 record.
* The extractor with USB or CAN as its source, and its handler, which prints.
  Which of `in_driver` and the port of USB telemetry is destroyed first, in
  different files, the language does not say.
* `platform.c` (a counter and memory barriers), the configuration headers
  (tables of identifiers), `usbcfg.c` (tables and hooks of the ChibiOS USB
  driver), `checksum_init`: no state that another step could meet. The barriers
  are taken to do their work: what one thread stores, the others see.
* The filter of a consumer is the constant `Accepts`: the four masks are
  compared as a set of messages.
* The initialisation of consumers while others initialise theirs is in Messaging
  and MessagingStd (`Register`, `RegisterFails`), that of producers and allocators
  in Startup; no instance has both.

## 7. The plan

Done, in this order, the most important behaviour first: MessageBus and
Messaging with the reference-counting proof; MessagingStd, its refinement and
its wakeup proofs; CanInterface; SerialInterface and its proof; OutputDriver
and StreamDriver on top of MessagingStd; ComponentState; then CanLog on
CanInterface, UsbTelemetry on Messaging, the buffers of the desktop drivers, the
Extractor, Startup with its proof, and CsvOutput.

Proved, in this order: reference counting and memory safety, wakeups, the pools
and the blocks of the serial interface; then that both cores implement
MessageBus, the paused consumer, the component states, the drivers, the CSV
file and the extractor, the card, whole packets in order on the bus and in files, and
what a lost frame costs.

Last came the two that needed facts about sequences of any length: what a file of the log
yields when it is read back, and the framing of the serial interface. Of the latter the
proof found that `OnlyWhatWasSent` had been stated too strongly: it asked for a packet
that was sent even of a damaged frame, which three lost bytes could not refute and four can
(section 3). It now says what may come of a damaged frame, and is exact for a whole
one.

What remains is to prove liveness, which is out of the prover's reach, and to model what
section 6 lists.
