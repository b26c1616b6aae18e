# A verification development for goodix-55a2-linux

The repository holds the tools of a research project on the Goodix 27c6:55a2
fingerprint reader: a Linux program that talks to the reader over USB and
guarantees it is left asleep, a Windows program that records the vendor driver
with USBPcap while an operator goes through guided scenarios, and offline
readers of those recordings. Paths below are relative to `src/`.

Both programs touch hardware they must hand back intact, and both do so while
Ctrl-C, timeouts, lost devices and failing calls may fall anywhere. The
repository's tests run one path at a time against fakes; what they hardly reach
is the order of those events. That is what the modules here are about.

## 1. Inventory

### The system's parts

| part | source | state it keeps | operations |
|---|---|---|---|
| reader send gate | `tools/goodix_handshake.py` `USBWire` | mode flags of the constructor, `x_armed`, `x_sent`, `state_queries_sent` | `arm_*`, `send`, `image_stage_ok` |
| USB reassembly | same class | `buffer`, `deadline`, `transfers` | `receive`, `receive_or_timeout`, `receive_window`, `timeout` |
| reader run | `handshake`, `query_state`, `fdt_manual`, `get_image`, `fdt_down`, `disarm`, `main` | the `report` dictionary, `wire`, TLS server, the exception on its way | the script of one run |
| TLS server | `TLSServer` | OpenSSL's BIOs, `complete` | `feed`, `step` |
| image saving | `save_image` | the two files, `written`, `image_saved` | exclusive create, fill, clean up |
| Windows backend | `tools/goodix_windows.py` `WindowsBackend` | `_verified` | `discover`, `is_enabled`, `set_enabled` and its script |
| hub traversal | `HubEnumerator`, `decode_connection` | `visited`, the recursion of `visit`, `result` | walk of the hubs behind an interface |
| warm restart | `tools/goodix_capture_core.py` `warm_restart` | `restored`, the signal mask | disable, pause, restore |
| pipe recorder | `tools/goodix_pipe_capture.py` `PipedUSBPcapRecording` | process, reader thread, errors, `_halted` under `_halt_lock`, the file | `start`, `stop`, `_halt`, `_read_stdout` |
| record writer | `PcapRecordWriter` | `pending`, `header_written`, counters, `error`, the file | `feed`, `close` |
| capture session | `CaptureSession`, `run_capture`, `monitor_capture`, `tools/goodix_capture.py` | `process`, `identity`, segments, `capture_gap`, the manifest file | `start`, `stop_segment`, `observe`, `rotate`, `finish` |
| offline tools | `tools/usbpcap_bulk_*.py`, `goodix_*_commands.py`, `goodix_*_envelopes.py`, `goodix_image_diff.py`, `sigfm_eval` | none between runs | one sequential pass each |

### How they interact

`main()` of the handshake tool constructs one `USBWire`, and every frame goes
through its `send()`. The reader answers on its own time, so an answer may be
late, doubled by a stale one of an earlier run, split over transfers, or a
finger event nobody waited for. `fdt_down()` wraps everything after command 3.1
in a try whose handler calls `disarm()`, i.e. the command 6.0.

`run_capture()` asks the backend for the one reader, starts a recorder for its
hub, polls the backend and rotates recordings when the reader moves; scenario
`warm-restart` calls `warm_restart()`, which uses the same backend. A recorder is
a process, a thread reading its pipe, and a helper thread that halts it when
that stream turns bad; the session's own thread calls `stop()`. The manifest on
disk is rewritten at every event.

### What is hard

* Ctrl-C between any two statements, clean-up code included.
* Frames that come late, from an earlier run, in pieces, or not at all; a budget
  (45 to 90 s, 512 transfers) that may run out at any point, clean-up included.
* Two threads and a process around one recorder, with joins and waits that give up.
* Plug-and-play devices that are swapped, re-addressed or re-keyed between a
  check and the action it was for; calls that fail or take effect late.
* A manifest that must never call an incomplete capture complete.
* Private files written while the disk fills up, the controller is killed or
  Ctrl-C falls between creating a file and noting it for clean-up.
* Recordings with requests whose submission or completion is missing, paired by
  an IRP pointer that is used again, among the traffic of every other device of
  the hub.

`PROJECT.json` lists each hazard at its line with the property that would catch
it.

### What makes each part correct

The gate lets frames out in order, within limits, never after 6.0. The
reassembly returns the frames sent, in order, whatever the cuts. A run that
armed the reader tries to disarm it; its report is true; its first error is
kept; it ends. The backend acts on the reader it verified only, and a restart
does not leave it disabled silently. A recorder is halted once, its report
matches the file, a loss is reported, `stop()` returns. A session without a gap
had no trouble, covers one reader, and leaves no recorder behind. An image is
saved whole or not at all. The hub walk ends, and finds each reader once. The file
of a recording reported valid is every whole record that arrived, and the offline
tools say the same of it, a cycle being one request's, and the traffic counted as the
reader's being the reader's.

## 2. Modules

| module | models | uses |
|---|---|---|
| `UsbWire` | the send gate, any caller | |
| `ReaderLink` | the reader and the bulk-IN pipe as whole frames | `UsbWire` |
| `FrameBuffer` | `USBWire.receive()` on bytes | refines `ReaderLink` |
| `TouchSession` | abstract: what one run may do to the finger sensor | |
| `ImageFiles` | the two files of `save_image()` | |
| `ReaderRun` | one run of the handshake tool | `ReaderLink`, `UsbWire`, `ImageFiles`; refines `TouchSession` |
| `WindowsBackend` | devices, backend and its PowerShell script | |
| `WarmRestart` | `warm_restart()` | `WindowsBackend` |
| `Recorder` | abstract: what a session may expect of a recorder | |
| `PipeRecorder` | `PipedUSBPcapRecording` | refines `Recorder` |
| `CaptureSession` | `run_capture()` and `CaptureSession` | relies on `Recorder`'s contract |
| `HubTraversal` | `HubEnumerator.connections()` | |
| `RecordWriter` | `PcapRecordWriter` on chunks cut anywhere | |
| `OfflineTools` | the offline tools: two loops over a file's records, and functions of them | |
| `CaptureFile` | one segment: bus, writer, file, tools | `RecordWriter`, `OfflineTools` |
| `ReaderRun_proofs`, `ReaderPipe_proofs` | theorems about the gate and a run; about the run and its pipe | `ReaderRun` |
| `FrameBuffer_proofs`, `WarmRestart_proofs`, `PipeRecorder_proofs`, `CaptureSession_proofs`, `HubTraversal_proofs`, `CaptureFile_proofs` | theorems about the module of that name | |
| `MCReaderRun`, `MCWarmRestart`, `MCCaptureSession`, `MCHubTraversal`, `MCCaptureFile` | instances for TLC | |

Operators named for a variation (`MaySendOnFlag`, `DrainedAtOnce`, ...) next to
the one they vary are plausible mistakes in that piece of code; `PROJECT.json`
pairs each with the property that notices it. They are used by no action.

### UsbWire

`mode` is what the constructor was given, restricted to the combinations it does
not refuse (`ModeOk`). `armed[c]` and `sent[c]` stand for `x_armed` and `x_sent`
(for A.7, `state_queries_sent`). `Arm` and `Pass` are the `arm_*` methods and the
checks in `send()`; the flags advance before the bytes are written, as in the
code. Unlike the tool's script, `GateNext` is any caller at all.

### ReaderLink and FrameBuffer

A frame is a pair of kind and command; layout and checksums are left out, as is
the difference between the several ways a frame can be wrong: "odd" parses and
is not accepted, "bad" has an invalid USB header. `pipe` holds the frames on
their way, `got` and `split` say how much of it is in `wire.buffer`.

`FrameBuffer` shows that this view is right: there a byte is a cell that knows
its frame and position, a transfer is any number of cells with or without zero
padding behind the end of a frame, and `receive()` is the loop of the code with
its header check, buffer limit and padding rule. `ReceiveIsLink` maps its state
to `pipe`, `got`, `split` and checks every step to be one of `ReaderLink`'s.
The padding is assumed to come in the transfer that ends a frame, the case the
code is written for (`goodix_handshake.py:955`).

### ReaderRun

`phase` is the exchange the script is at (`nop`, `firmware`, ..., `fdt_down`,
`down_event`, `disarm`, `end`), `step` the place inside it; `After` is the
script's control flow for each set of flags. A sending phase goes through

    begin (routine's own checks, report.update)  arm  gate  write  ack  reply

and Ctrl-C (`Interrupt`) may fall between any two. `Raise` is what an
exception does at the place it is raised: out to `__exit__`, into the except
block of `fdt_down()`, or swallowed by the handler's own `disarm()`. `clock` is
the budget in three values: `ample`, `short` (no window fits any more),
`expired` (`timeout()` refuses every transfer); it runs down at any point, so
every way the deadline or the 512 transfers can strike is covered.
`exposed` and `first` are history variables: an exception that left after
3.1 was written but outside the except block, and the first error with its stage.

The TLS server is one step with all outcomes (`ServerStep`), at most `MaxTls`
frames instead of 64. `load_key()` is the success or failure of `Load`.

With `--save-image`, the image reply of the phase `image` goes on through `mkdir`,
`open`, `note` and `fill` (once per file), `stats`; an exception in the try of
`save_image()` leads to `unlink`, which keeps what it cannot remove. `ImageFiles`
holds the files, what `written` lists, and `leaked`, the history of a Ctrl-C
between `os.open()` and `written.append()` or in the clean-up itself, and of an
`unlink` that failed: in those cases the code leaves a file behind although the
comment of line 746 says partial files are removed on any failure, and
`NoHalfImage` excepts them.

`ReaderRun` implements `TouchSession` (`TouchProtocol`): seen from the reader, a
run arms once, images or waits for the lift only after a touch, sleeps once, and
then asks nothing more. The mapping takes what the reader has been given of each
gated command (`SensorAsked`, from `seen`) and where that leaves the finger sensor
(`SensorState`, with what the report says of the touch).

### WindowsBackend and WarmRestart

Each call to Windows is a step; `Change` and `Settle` (an accepted enable or
disable taking effect, perhaps after the script gave up) may come between any
two. `verified` is `_verified`, dropped at the start of `discover()` as in the
code. `WarmRestart` has the parts `pre`, `off` (the try) and `on` (the finally,
two attempts, masked from `mask` on). `given` is the reader the caller asks to
restart, which the preflight compares with the one it discovers; `saved` is
`set_enabled()`'s local `verified`, reader and driver key, which its fresh discovery
must find again. `skipped` and `late` are history variables
for the two cases the code cannot cover: a Ctrl-C in the finally outside its
masked part, and a disable carried out after the finally was entered.

### PipeRecorder and Recorder

The process, the pipe, the reader thread, `_halt()` once per thread that may
call it, and `start()`/`stop()` in the caller's thread are separate actors.
A join or wait with a timeout either sees what it waits for or gives up while
that has not happened, which for a join is as long as the reader thread has not
returned. `OneHalter` is about `_halt()` and `stop()`'s own kill. The bounded wait
before that kill (line 355) is outside `_halt_lock` and may run beside the helper's:
a wait changes nothing, and the property does not count it. `Claim` is `stop()`'s marking of a recorder that had
exited; `Close` lets the kill-on-close job end what is left. The refinement
(`ReportsLosses`) says that a recorder whose process ended unasked or whose
stream was bad is reported as a gap, and no other is: `Recorder` is the contract
`CaptureSession` assumes (`StopReports`). `feed()` is two steps, the count of the
records and their write, since a write that fails leaves `counted` ahead of `file`;
`dirty` is what the file object then still holds, and `close()` tries again or raises.

### CaptureSession

`pc` follows `run_capture()`, `monitor_capture()`, `observe()`, `rotate()` and
`finish()` call by call; the disk keeps the last manifest that was written
(`Persisted`, `Unwritten`). `warm_restart()` is one step with its outcomes, the
recorder keeps `Recorder`'s contract, `summarize_capture()` finds damage or not.
`trouble` is the history of what really happened, against which `capture_gap` is
judged.

### HubTraversal

`plug` says what each port of each hub holds; it may be any wiring, cycles and a hub
in two places included, as `visit()` guards against both. `stack` is the recursion
of `visit()`, a hub and the port it is at for each call. Every ioctl is a step
(`Node`, `Connection`, `NameLength`, then `HubName` or `DriverKey`), and between two
of them `Change` moves or removes a device, which keeps its name and its driver key.
The code decodes a port once and then asks it for a name: where a reader has left
in between, the ioctl answers with the driver key of what is in its place, or is
refused; an empty port stands for one with a device of no interest, too (`None`).
`Refused` is any failing ioctl or malformed answer. `WalkIsExact` compares the result
with a reference defined by closure (`Reached`, `IsTree`), and `CountedOnce` says
that even a walk overtaken by a moved hub finds an untouched reader once.

### RecordWriter, OfflineTools and CaptureFile

A cell is a range of bytes the writer looks at as one: two for the global header, two
for a record's header and one for its body, so everything can be cut. `arrived`,
`taken` and `disk` count cells; a file that ends inside a record is a `disk` that is
the end of no record. A write may fail after any part of it, and the controller may
die in it.

`OfflineTools` has one operator per tool. A record has the endpoint, whether its
address is one of the segment's targets, the payload bytes its header names and those
that are in it. The recorder takes every device of the hub (`-A`,
`--capture-from-new-devices`), so the tools meet records of others on endpoints of the
same number: `summarize_capture()` selects by address, endpoint, side and complete
data, the envelope and command tools by endpoint, side and length only. What
`ToolsAgree` says of their counts is therefore restricted to the reader's whole
records. Five of the tools judge or list each record by
itself and are functions of the records. The two that keep a table of IRP pointers,
`usbpcap_bulk_correlation.py` and `usbpcap_bulk_cycles.py`, are loops: `ReadNext` is
one turn, `Correlate` and `Pair` what each does with the record, on state of its own
(`aliases`, `named`; `operations`, `counts`, `pending`, `cycles`). They turn side by
side. They share nothing but a file that no longer changes, raise at the same records
and give no answer then, so this leaves out no answer of either; and what is claimed
after each turn is claimed of every beginning of the file, hence of the file. The
checks of the tools differ (`RefusedBy`), which is why `FileIsPrefix` and `ToolsAgree`
ask that each accept what the writer lets through.

`CaptureFile` is the composition: requests in submission order on re-used IRP
pointers, each with two records of which some are missing (`lost`) or corrupt. The
writer sees nothing of the bus but its stream, so the steps of the bus are taken
first and the writer may be stopped after any cell of what they left. That is the
same set of files as with the steps interleaved, as the stream only grows.

## 3. Runs

All runs use TLC breadth-first on one instance. Deadlock is not checked:
every program here ends, and a program that has ended is a state without successor
(the gate's ends with every frame sent, the stream of `FrameBuffer` with its last
frame). That nothing stops short of its end is `Termination` and `StopReturns`.

| run | question | bounds |
|---|---|---|
| `UsbWire_gate` | the gate against any caller | none: the state space is finite as it is |
| `FrameBuffer_read` | reassembly of any cut of a stream; refinement of `ReaderLink` | 4 frames of 2-cell headers and bodies of 1 or 2, at most 2 padding cells, a buffer of 7 |
| `ReaderRun_safe` | all modes; 10 safety properties; every run ends | 5 command lines, 1 fault of reader, USB or disk, 1 Ctrl-C, 2 TLS frames, one stale frame |
| `ReaderRun_interrupt` | disagreement 1 below | 1 Ctrl-C |
| `WarmRestart_safe` | nothing but the discovered reader is touched; it is not left disabled | 2 readers, 3 driver keys, 2 mappings, 2 faults, 2 changes, 2 Ctrl-C |
| `WarmRestart_interrupt` | disagreement 2 | 2 Ctrl-C |
| `WarmRestart_alarm` | disagreement 3 | 1 fault |
| `PipeRecorder_safe` | one halter, truthful report, no orphan, losses reported, `stop()` returns | 2 records, pipe of 2 chunks, 1 fault |
| `PipeRecorder_race` | disagreement 4 | same |
| `CaptureSession_run` | gaps, segments, manifest, first failure | 2 readers, hubs and addresses, 2 moves, 1 disk fault, 1 Ctrl-C, 3 segments |
| `HubTraversal_walk` | the walk is exact, counts a reader once, ends | 3 hubs of 2 ports, 1 reader, depth limit 1, 1 change |
| `CaptureFile_tools` | file, report and offline tools | 3 windows of 3 requests on 2 pointers, 2 missing records, 1 corruption, failing read or write, or crash; a snaplen of 250 payload bytes |

Why these are enough. `FrameBuffer`: a 2-cell header is the smallest that can be
cut; four frames let a transfer complete one, carry one whole and start another,
with one to spare; 7 is above a whole frame with padding and below two frames, so
the limit is hit. `ReaderRun`: one fault or interrupt brings the run into its
clean-up, and the fault budget and the Ctrl-C are independent, so the clean-up is
hit in its turn; the clock, which is not bounded by a budget, can expire in it as
well. The stale frame is an ACK of 6.0, which a later
receive might accept. The command lines are the least and the longest script of
each kind, with and without image, touch and saving; a finger-down run without image
or lift is a prefix of the longest. Two TLS frames are the least with which the server can
complete. `WarmRestart`: two faults defeat both restoration attempts; two readers
and one spare key allow a swap under the same address and a driver replacement.
`PipeRecorder`: two records and a two-place pipe make the recorder block, the
drain take several reads, and a corrupt record come first, between and last.
`CaptureSession`: two moves go to another hub and back; three segments are a first
one, a rotation and a move. `HubTraversal`: three hubs make a chain one longer than
the depth limit, a hub in two places, a self loop and a cycle of two and of three;
the limit is 1 instead of 6 for that. `CaptureFile`: three requests on two pointers
give one pointer two requests with a third one's records in between; two missing
records are a lost completion and a lost next submission, the case in which the
pairing does join two requests. One window has another device with a command and a
reply like the reader's, and an OUT transfer longer than the snaplen (250 bytes
instead of 65535 less the headers, above all else the windows contain); the tools are
stopped after every record (2.6 million states). Symmetry is used over ids, keys, mappings, readers,
hubs, addresses and IRP pointers only, which no definition tells apart, and in no
run with a liveness property.

### Fairness

`ReaderRun!FairSpec` has weak fairness of `Program`: the single thread is
scheduled, and every call it makes returns, because each USB transfer is given at
most 2 s. Nothing is assumed of the reader, the finger, or the clock. Of
the TLS loop it is the frame limit that ends it. Calls to the disk in `save_image()`
are taken to return.

`PipeRecorder!FairSpec` has weak fairness of the caller's thread, the reader
thread and each thread in `_halt()`: they are runnable OS threads whose blocking
calls all have a timeout, or poll; a write to the private file is taken to return or
fail, as `close()` would wait for one that hangs. Nothing is assumed of the recorder (which may
hang for ever, ignore terminate, or flood the pipe) nor of the operator (`Stop`).

`HubTraversal!Spec` has weak fairness of the walk: ioctls are synchronous and return.

### What the runs found

1. `EveryPathSleeps`: `fdt_down()`'s docstring (`goodix_handshake.py:506-508`)
   promises a 6.0 on every path after 3.1. `send(3.1)` (519) is outside the try of
   line 520, so a Ctrl-C or USB error once the frame is out leaves without 6.0; so
   does a Ctrl-C between `disarm()`'s report update (626) and its send (628).
2. `AlwaysAttempted`: "Do not let logging failures or a second Ctrl+C prevent
   restoration" (`goodix_capture_core.py:261`); the statements between the
   entry of the finally and `signal(SIGINT, SIG_IGN)` (263) are not masked.
3. `AlarmIsReal`: `READER RECOVERY FAILED` (277) over a reader nobody disabled, when the
   discovery inside `set_enabled(False)` (`goodix_windows.py:239`) fails:
   `_verified` is gone and restoration cannot verify anything.
4. `ExitedOnItsOwn`: "Recorder ended on its own" (`goodix_pipe_capture.py:351`) is
   also taken for a recorder that is running, when its stream turns bad between
   the reads of line 346 and line 348.

The passing properties state what does hold with exactly these cases excepted,
by the history variables named above.

Modelling also showed two promises of comments that hold only with an exception,
which `NoHalfImage` and `FileIsPrefix` make: a Ctrl-C between the two statements of
`goodix_handshake.py:738-739` leaves an image file behind, and after a failed write
the capture is not "always a parseable prefix" (`goodix_pipe_capture.py:53`), nor is
`records_written` what is on disk; its report then has `output_valid` False.

## 4. Proofs

TLAPS checks what follows for all values of the constants: any number of faults,
interrupts, devices, frames, records, windows and wirings. Each theorem has the
form `Spec => []Inv`, or is a refinement, and rests on an inductive invariant. The
names below are those of the proof modules.

### The gate and one run (`ReaderRun_proofs`)

* `GateTypes`, `GateOrders`, `SleepIsLast`: the gate's type invariant, the order of
  its frames, and that nothing passes after 6.0. `GateTypeOK` alone is inductive,
  because A.7 stops at 2 and everything else at 1; `GateOrder` is inductive with it
  (`PassKeepsOrder`, one case per frame). `SleepIsLast` needs `GateTypeOK` only: each
  gated frame's own condition asks for a count that 6.0's excludes.
* `RunUsesGate`: `ReaderRun!Spec => UsbWire!GateSpec`. Every step of the run arms
  or passes one command or leaves the gate alone (`StepOfGate`), and the command
  lines `main()` accepts yield modes the constructor accepts (`ModeAccepted`, from
  `RequestsAssumption`). `RunKeepsGate` then carries the gate's three theorems to
  every run.
* `SleepIsTried` (`SleepAlwaysTried`). That a 6.0 passed at the end of the run
  depends on where the program is when the exception comes. The invariant is `Shape`
  (which steps belong to which phase, when `sleepAck` and `handling` can be set) and
  `SleepInv` (3.1 has reached the reader only if the program is past its write; then
  6.0 has passed, or the program is still inside the try or its handler, or
  `exposed`). It uses `GateTypeOK`, hence `RunKeepsGate`: the handler's `arm` cannot
  be refused, because 3.1 was sent and 6.0 was not.
* `ReleaseIsTrue` (`ReleaseTruth`), from `Interface`: only `dispose()` confirms the
  clean-up, and only an interrupt gets past both release and dispose.
* `FilesWholeOrNone` (`NoHalfImage`), from `FilesInv`: the two files are untouched
  before `save_image()`; inside it they follow `step` (`Saved`); afterwards they are
  settled, and only a run past the image is there to see it.
* `FirstErrorIsKept` (`FirstErrorWins`), from `ErrInv` (an exception on its way out
  carries the label of the first one, unless a further interrupt or a failing
  release came) and `Verdict` (the exit code is what it was made from).
* `NoGuardRefuses` and `ExitZeroIsEarned` (`GuardsAgree`, `ExitZeroMeansAll`), from
  `OnScript`: as long as no exception was raised, what was asked, acknowledged and
  sent is what the script prescribes up to `phase`. The routines' own checks and the
  gate's then agree with it (`RoutinesAgree`, `GateAgrees`), so `NotRefused` is
  inductive too, and a run that gets to the end has been acknowledged in all it asked.

### The run and its pipe (`ReaderPipe_proofs`)

* `LinkIs` keeps `got` and `split` within the pipe; `Thins` says that frames only
  leave the pipe or turn to junk, `Moves` that nothing else happens to it outside a
  write and the finger. The rest of the module argues from these two.
* `SleepAckIsTrue` (`SleepAckTruth`), from `Counted` (the reader has taken no gated
  frame `send()` has not let through), `Armed` (the handler and `disarm()` come after
  a 3.1 that reached the reader, that after an acknowledged A8) and `Asleep` (before
  6.0 no ACK of 6.0 is in the pipe but a stale first frame, which is consumed before
  A8's acknowledgement; after 6.0 the reader is disarmed and that ACK is its last frame).
* `TouchesAsPromised`: `Spec => TouchProtocol`, the refinement of `TouchSession`. With
  `Decided` (the touch is decided in its window, before 2.0, 3.2 and 6.0) each write
  maps to one step of `TouchSession`, everything else to a stutter.
* `NextRunStartsClean` (`CleanHandover`), from `Handover`: what each phase of a run
  without an exception may find in the pipe.
* `RunTypes` (`TypeOK`).

### Reassembly (`FrameBuffer_proofs`)

`Receiving` is inductive with the types. `OnTheWire`: whole frames but for the head
of the first. `InTheBuffer`: a buffer that begins with a frame goes on without a gap
(`Unbroken`), padding only behind the end of a frame, and on to the wire. `Older`:
what was returned is older than all that is to come. `Expected`: until bytes are
thrown away the next frame begins the buffer, or the wire. `BufferTypes`,
`FramesInOrder` and `NoFalseHeaders` follow, for headers, bodies, buffers and
paddings of any size a frame fits (`LimitAssumption`), and any cut into transfers.

`ReceiveKeepsLink` (`ReceiveIsLink`): every step is one of `ReaderLink`, or a frame
sent. `Contiguous` is inductive with the above: the frames of which something is on
the wire are all from some number to the last one sent, those in the buffer all from
its first one to where the wire goes on. So the sets `ReaderLink`'s view counts are
ranges, and `View` states that view by its bounds (the link is `LinkFrames`, the frames
from `first` on; `got` and `split` follow from `WholeUpTo` and `ReadUpTo`). Then each
action has a lemma: `Return` takes the first frame (`RestFrames`), a chunk that fits
makes more of them whole while none is whole yet (`NotReady`), and a chunk or buffer
thrown away takes frames from the front and may behead the next (`DropLink`).

### Warm restart (`WarmRestart_proofs`)

* `ChangesOnlyTheReader` (`OnlyTheDiscovered`), from `Chosen`: before the `try`
  Windows has been asked nothing, the discovered reader is fixed from there on and
  is the one the caller gave, and
  the script's `$d` is that reader from the moment the script has verified it.
* `RestartTypes` (`TypeOK`): `Fields`, `Place`, `Counts`, and `OneReader`, from which
  come the bounds on the cardinalities.
* `NotLeftDisabled` (`NeverLeftDisabled`), from `Restoration`: once the finally
  has seen the reader enabled, only a disable carried out late can undo it, and a
  restart that ends otherwise has asked for nothing, skipped it, or reports it.

### Recorder (`PipeRecorder_proofs`)

* `HaltsOnce` (`OneHalter`: no two of the helper, the caller inside `_halt()` and
  `stop()`'s own kill together), from `Owned`: a thread anywhere in `_halt()` holds
  `_halt_lock`, and `stop()` gets to a kill of its own only after it found the lock
  free and marked the recorder halted, so that whoever takes the lock later leaves.
* `NoneLeftBehind` (`NoOrphan`), which speaks of a `start()` that failed as well.
  `Bound`: past a successful `start()` there are a process and its kill-on-close job.
  `Held`: a recorder with a reader thread is in its job or gone, and only `Close`, which
  leaves no process alive, takes the job away; one without a reader is in the hands
  of `stop()` alone, and a first `stop()` that gets to its report has seen it gone.
  What remains is a process that never got its job and outlived the terminate and
  kill of a first `stop()`: the second one then reports of it as halted.
* `LossesAreReported`: `Spec => ReportsLosses`, the refinement of `Recorder`. `Losses`
  relates who asked for the end to how the process and the reader thread ended, so
  that what `stop()` finds at its test is a loss that happened and none escapes it.
* `FileMatchesReport` (`ReportIsTrue`), from `Carried`: as long as nothing fails and
  no join gives up, each record is in the file, in the reader's chunk, or in the pipe,
  and the reader ends with the pipe empty.
* `RecorderTypes` (`TypeOK`), from `Counted`: the records counted, with those in the
  chunk and the pipe that still will be, are no more than were emitted after the
  header; so none is counted twice or before it was emitted.

### Session (`CaptureSession_proofs`)

* `NoHiddenGap` (`NoGapNoTrouble`). The property speaks of finished captures, the
  invariant of how they get there. `Confessed`: trouble is a gap in the step that
  meets it, except a lost recorder, which waits for its `stop()`. `Held`: at
  `summarize` no recorder is left that could still be lost. `OneEach`: a second segment
  comes after a gap (hub change) or a counted rotation.
* `RecorderIsStopped` (`NoRecorderLeft`), from `Held`.
* `FailureSurvives` (`FirstFailureKept`), from `Remembered`: `finish()` runs after the
  body's failure and has no way to forget it.
* `SegmentsAreOfOneReader` (`SegmentFollowsReader`), from `Followed`: where `observe()`
  stands in a hub change or rotation, the reader it saw is that of the segments, and
  a recorder that runs is on the hub and of the address it saw last.
* `SessionTypes` (`TypeOK`), from `Followed` and `Fields`.

### Hub walk (`HubTraversal_proofs`)

* `WalkTypes` (`TypeOK`), from `Recursion`: the hubs on the stack are visited and
  different, and no deeper than the limit.
* `FoundAtMostOnce` (`CountedOnce`), from `Once`: a reader nobody moved has one port,
  and is found only once the walk has gone past that port (`Entered`), which it does
  once even while other devices move.
* `WalkFindsTrees` (`WalkIsExact`), from `Undisturbed`: of a walk during which nothing
  changed, the hubs visited are reachable and those called from were called from
  their one port; each reader of a port gone past is in the result; and each chain on
  the stack is one of the wiring. If the walk ends, the visited hubs are closed under
  the wiring, hence all of `Reached`, which is the least such set, and the wiring is a
  tree; if it turns a hub away (`TurnedBack`: met before, the root again, or too deep),
  it is not one: a chain longer than the depth has a hub twice or exceeds the limit.

* `WalkIsBounded`: `Ahead` counts the ports not gone past or into, the hubs not
  visited and the ioctls still due for the hub or port looked at. Every step of the
  walk and every refusal lowers it, no move of a device raises it. With weak fairness
  of `Walk`, this is why `WalkEnds` holds for any wiring; the theorem itself needs no
  fairness, and bounds the walk by `4 * |Hubs| * (Ports + 1) + 5` ioctls.

### The file of a segment (`CaptureFile_proofs`)

* `FileTypes` (`TypeOK`): `Bus` (the requests and their records), `Cells` (what of
  the stream has arrived, was taken, is on the disk), `Flags`, `Leftover`, and of the
  tools `Tables` below.
* `FileIsWhole` (`FileIsPrefix`), from `Kept`: while no write failed, the file is
  empty or ends with the last record that `feed()` got through, and the counters say
  so; before the first defect that is every whole record that arrived. `Good` says that no record on the disk, or still to be written again, has one of
  the defects `feed()` refuses, even after a failed write; by `AllAccept` no tool then
  refuses a file that ends between two records.
* `CyclesArePaired` (`CyclesAreReal`), from two invariants. `Order` is of the bus
  alone: two records of one request are its submission and its completion, and if two
  records of different requests have one pointer, the first request's completion and
  the second's submission lie between them or are missing (`Ended`, `Begun`; `Carried`
  says the same of what a pointer carries now, and makes it inductive). `Passes` is of
  the loops alone: a cycle has both records exactly when they are a submission and a
  completion of one pointer with no other bulk record of it between (`Joined`), which
  needs `Due`: `pending` has the cycle of the pointer's last record if that is a
  submission, and of no other. By `Order`, the two records of a request are such a
  pair (`NothingBetween`), and such a pair of two requests has both records in
  between missing (`MissingBetween`).
* `ToolsSayTheSame` (`ToolsAgree`), from the same: `Names` (an entry is at a bulk
  record and has its pointer's place in the table), `Whose` (so has a cycle), and
  `Tables` (the two tables are equal, and have no pointer twice). The count of
  `summarize_capture()` is one to one with the reader's transfers (`DataIs`,
  `DataOnce`, `OneToOne`), as only one side of a request carries data; the large
  records and the reader's whole envelopes are disjoint sets of what it counts.

### Assumptions

Those of the modules, which TLC evaluates in every run. Bounds of the
environment are natural numbers (`MaxFaultsAssumption`, `MaxTlsAssumption`,
`MaxInterruptsAssumption`, `RestartAssumption`, `BackendAssumption`, `BoundsAreNat`,
`SessionAssumption`, `BoundsAssumption`, `MaxChangesAssumption`, `MaxDepthAssumption`);
`RequestsAssumption` (command lines `main()` accepts), `LeftoversAssumption` (frames),
`SizesAssumption` and `LimitAssumption` (the buffer holds the longest frame: 65536
bytes against the `MAX_FRAME` of the code), `RootAssumption`, `PortsAssumption`,
`DevicesAssumption` (finitely many hubs, none of them a reader),
`WindowsAssumption` (what a request is), `IrpsAssumption` (finitely many pointers),
`CorruptionsAssumption`.

### Only model-checked

Liveness (`Termination`, `StopReturns`, `WalkEnds`) and whatever rests on ENABLED; of
`WalkEnds`, the step from `WalkIsBounded` by fairness only.

## 5. Not modelled

* The byte layout and checksums of frames, TLS records and ClientHello, image
  decryption and unpacking: pure functions. OpenSSL, libusb, the reader's firmware,
  Windows and USBPcap themselves: external; they appear as choices.
* The pixels and statistics of a saved image; the time offsets of
  `usbpcap_bulk_timeline.py` (its cycles are those of `usbpcap_bulk_cycles.py`), the
  sums of lengths, and `span_seconds` and `truncated_records` of `summarize_capture()`.
* `decode_connection()` and the decoding of names, byte by byte: a refusal of
  `HubTraversal`.
* Native calls (`KernelIoctl`, `NativeIO`), `find_usbpcap()`, privilege and
  path checks: no state of their own; a failing call is a fault above.
* `USBPcapRecording`, the file-based recorder: no longer constructed.
* Image comparison (`goodix_image_diff.py`, `sigfm_eval`): numerical.
* Diagnostic fields of the reports, and console output.

## 6. Plan

Done, in this order of importance: the gate with its proofs; the reader run with
link and reassembly; disarming proved; backend and warm restart; recorder;
session; saved images; hub walk; record writer with the offline tools.

Proved: every safety invariant and every action property the passing runs check,
and the refinements of `TouchSession`, `Recorder` and `ReaderLink`.

Next: the time offsets of `usbpcap_bulk_timeline.py` as a further loop beside the two
of `OfflineTools`; the native recorder of `goodix_windows.py`, if it is used again.
