---------------------------- MODULE PipeRecorder ----------------------------
(* PipedUSBPcapRecording (tools/goodix_pipe_capture.py): the caller's thread in
   start() and stop(), the reader thread, the helper thread a bad stream starts,
   _halt() under its lock, and the USBPcapCMD process at the other end of the
   pipe. Joins and waits with a timeout either see what they wait for or give
   up while it has not happened. *)
EXTENDS Naturals, Sequences, FiniteSets, SequencesExt

CONSTANTS MaxRecords,  \* bound on the records the recorder emits
          PipeSize,    \* bound on what the pipe buffers
          MaxFaults    \* bound on corruption and on I/O errors

ASSUME BoundsAreNat == MaxRecords \in Nat /\ PipeSize \in Nat /\ MaxFaults \in Nat

VARIABLES
  proc,       \* the recorder process
  pipe,       \* emitted and not yet read
  emitted,    \* records emitted
  outOpen,    \* the read end of its stdout
  reader, chunk,               \* the reader thread and what it has read
  head, counted, file,         \* the writer: header written, its count of records,
                               \* the whole records on disk
  dirty, closed,               \* a write failed half-way, the file is closed
  streamErr, readErr, ended,   \* _stream_error, _read_error, _stream_ended
  draining, stopReading,       \* the two events _halt() sets
  halted, lock, halting,       \* _halted, _halt_lock, each thread's place in _halt()
  method,                      \* _halt_method, or stop()'s own
  main, failed, requested, calls, job,  \* stop()'s place and local, _stop_requested
  starting,                    \* start() has not returned
  report,                      \* stop_report
  faults,
  asked, unasked, forced       \* history: records when stop() asked, an exit of the
                               \* recorder's own, a reader given up on

procVars == <<proc, pipe, emitted, outOpen>>
readVars == <<reader, chunk, head, counted, file, dirty, streamErr, readErr, ended>>
haltVars == <<draining, stopReading, halted, lock, halting, method>>
mainVars == <<main, failed, requested, calls, job, starting, report, closed>>
histVars == <<asked, unasked, forced>>
vars == <<procVars, readVars, haltVars, mainVars, faults, histVars>>

Threads == {"main", "helper"}
None == "none"
Gone == {"exited", "crashed", "terminated", "killed"}

-----------------------------------------------------------------------------
(* The recorder process. *)

Emit ==
  /\ proc = "live" /\ outOpen /\ Len(pipe) < PipeSize
  /\ \/ emitted = 0 /\ emitted' = 1 /\ pipe' = Append(pipe, "head") /\ UNCHANGED faults
     \/ /\ emitted \in 1..MaxRecords
        /\ emitted' = emitted + 1 /\ pipe' = Append(pipe, "rec") /\ UNCHANGED faults
     \/ /\ faults < MaxFaults /\ faults' = faults + 1
        /\ pipe' = Append(pipe, "junk") /\ UNCHANGED emitted
  /\ UNCHANGED <<proc, outOpen, readVars, haltVars, mainVars, histVars>>

\* It ends by itself: on a failed write, or at any time, even within a record.
Exit ==
  /\ proc = "live"
  /\ \/ ~outOpen /\ proc' = "exited" /\ UNCHANGED pipe
     \/ proc' = "crashed" /\ (UNCHANGED pipe \/ (outOpen /\ pipe' = Append(pipe, "torn")))
  /\ unasked' = (unasked \/ (~requested /\ ~halted))
  /\ UNCHANGED <<emitted, outOpen, readVars, haltVars, mainVars, faults, asked, forced>>

-----------------------------------------------------------------------------
(* _read_stdout(). *)

DrainedAtOnce == draining \/ (pipe = <<>> /\ proc \in Gone)
Drained == pipe = <<>> /\ (draining \/ proc \in Gone)

\* Bytes are read as they are available; end of stream, or an empty pipe while
\* draining, ends the thread, and so does the event.
Look ==
  /\ reader = "look"
  /\ \/ stopReading /\ reader' = "ending" /\ UNCHANGED <<chunk, pipe>>
     \/ /\ ~stopReading /\ Drained
        /\ reader' = "ending" /\ UNCHANGED <<chunk, pipe>>
     \/ /\ ~stopReading
        /\ \E n \in 1..Len(pipe) :
             /\ chunk' = SubSeq(pipe, 1, n) /\ pipe' = SubSeq(pipe, n + 1, Len(pipe))
             /\ reader' = "feed"
  /\ UNCHANGED <<proc, emitted, outOpen, head, counted, file, dirty, streamErr, readErr, ended, haltVars,
                 mainVars, faults, histVars>>

\* The pieces before the first corrupt one; a torn one stays in memory.
Sound(c) == {i \in DOMAIN c : \A j \in 1..i : c[j] # "junk"}
Records(c) == Cardinality({i \in DOMAIN c : c[i] = "rec"})
WholeWithHeader(c) == Cardinality(Sound(c))
Whole(c) == Cardinality({i \in Sound(c) : c[i] = "rec"})

\* feed() counts the records, then writes them. A file closed under the reader's
\* feet is an error of another kind: the thread dies of it, with _stream_ended
\* set and nothing else.
Feed ==
  /\ \/ /\ reader = "feed" /\ reader' = "write"
        /\ counted' = counted + Whole(chunk)
        /\ UNCHANGED <<chunk, head, file, streamErr>>
     \/ /\ reader = "write" /\ ~closed /\ chunk' = <<>>
        /\ head' = (head \/ \E i \in Sound(chunk) : chunk[i] = "head")
        /\ file' = counted
        /\ streamErr' = (streamErr \/ "junk" \in ToSet(chunk))
        /\ reader' = IF streamErr' THEN "ending" ELSE "look"
        /\ UNCHANGED counted
     \/ /\ reader = "write" /\ closed /\ chunk' = <<>>
        /\ reader' = "dying"
        /\ UNCHANGED <<head, counted, file, streamErr>>
  /\ UNCHANGED <<procVars, dirty, readErr, ended, haltVars, mainVars, faults, histVars>>

\* PeekNamedPipe or read fails, or a write to the private file, in any of its records.
ReadFails ==
  /\ faults < MaxFaults /\ faults' = faults + 1
  /\ \/ reader = "look" /\ UNCHANGED <<file, dirty>>
     \/ reader = "write" /\ ~closed /\ dirty' = TRUE /\ file' \in file..counted
  /\ readErr' = TRUE /\ reader' = "ending" /\ chunk' = <<>>
  /\ UNCHANGED <<procVars, head, counted, streamErr, ended, haltVars, mainVars, histVars>>

ReaderEnds ==
  /\ \/ /\ reader = "ending" /\ ended' = TRUE
        /\ reader' = IF streamErr \/ readErr THEN "spawning" ELSE "gone"
        /\ UNCHANGED halting
     \/ /\ reader = "dying" /\ ended' = TRUE /\ reader' = "gone" /\ UNCHANGED halting
     \/ /\ reader = "spawning" /\ reader' = "gone" /\ halting' = [halting EXCEPT !.helper = "lock"]
        /\ UNCHANGED ended
  /\ UNCHANGED <<procVars, chunk, head, counted, file, dirty, streamErr, readErr, draining, stopReading, halted,
                 lock, method, mainVars, faults, histVars>>

-----------------------------------------------------------------------------
(* _halt(), in thread t. *)

At(t, s) == halting[t] = s
To(t, s) == halting' = [halting EXCEPT ![t] = s]

\* The reader is alive as long as its thread has not returned.
Alive == reader \notin {"unborn", "gone"}

HaltEnter(t) ==
  /\ At(t, "lock") /\ lock = "free"
  /\ IF halted THEN To(t, "return") /\ UNCHANGED <<lock, halted, draining>>
     ELSE /\ lock' = t /\ halted' = TRUE
          /\ draining' = (reader # "unborn")
          /\ To(t, "join")
  /\ UNCHANGED <<procVars, readVars, stopReading, method, mainVars, faults, histVars>>

\* join(2) may give up on a reader, which is then told to stop as it is; join(5)
\* too, on one that is long in a write or gets no turn, and that one keeps the pipe.
HaltJoin(t) ==
  /\ \/ At(t, "join") /\ ~Alive /\ To(t, "close") /\ UNCHANGED <<stopReading, forced>>
     \/ /\ At(t, "join") /\ Alive /\ To(t, "rejoin")
        /\ stopReading' = TRUE /\ forced' = TRUE
     \/ At(t, "rejoin") /\ ~Alive /\ To(t, "close") /\ UNCHANGED <<stopReading, forced>>
     \/ At(t, "rejoin") /\ Alive /\ To(t, "terminate") /\ UNCHANGED <<stopReading, forced>>
  /\ UNCHANGED <<procVars, readVars, draining, halted, lock, method, mainVars, faults, asked,
                 unasked>>

HaltClose(t) ==
  /\ At(t, "close") /\ outOpen' = FALSE /\ To(t, "wait")
  /\ UNCHANGED <<proc, pipe, emitted, readVars, draining, stopReading, halted, lock, method,
                 mainVars, faults, histVars>>

\* Released with a method, or by the exception of the last wait.
ReleaseOnReturn(t, m) == /\ lock' = (IF m = None THEN lock ELSE "free") /\ method' = m
                         /\ To(t, IF m = None THEN "raise" ELSE "return")
Release(t, m) == /\ lock' = "free" /\ method' = m
                 /\ To(t, IF m = None THEN "raise" ELSE "return")

\* wait(exit_grace), terminate(), wait(3), kill(), wait(3).
HaltWait(t) ==
  /\ \/ /\ At(t, "wait") /\ proc \in Gone
        /\ Release(t, "exited_after_pipe_close") /\ UNCHANGED proc
     \/ /\ At(t, "wait") /\ proc \notin Gone
        /\ To(t, "terminate") /\ UNCHANGED <<proc, lock, method>>
     \/ /\ At(t, "terminate") /\ To(t, "terminated") /\ UNCHANGED <<lock, method>>
        /\ proc' \in IF proc = "live" THEN {"live", "terminated"} ELSE {proc}
     \/ /\ At(t, "terminated") /\ proc \in Gone
        /\ Release(t, "terminated_after_grace") /\ UNCHANGED proc
     \/ /\ At(t, "terminated") /\ proc = "live"
        /\ To(t, "killed") /\ UNCHANGED <<lock, method>>
        /\ proc' \in {"live", "killed"}
     \/ /\ At(t, "killed") /\ proc \in Gone
        /\ Release(t, "killed_after_grace") /\ UNCHANGED proc
     \/ At(t, "killed") /\ proc = "live" /\ Release(t, None) /\ UNCHANGED proc
  /\ UNCHANGED <<pipe, emitted, outOpen, readVars, draining, stopReading, halted, mainVars,
                 faults, histVars>>

Halt == \E t \in Threads : HaltEnter(t) \/ HaltJoin(t) \/ HaltClose(t) \/ HaltWait(t)

-----------------------------------------------------------------------------
(* start(). *)

Running == proc = "live"

Start ==
  /\ \/ /\ main = "popen"
        /\ \/ proc' = "live" /\ main' = "job" /\ UNCHANGED closed
           \/ main' = "refused" /\ closed' = TRUE /\ UNCHANGED proc
        /\ UNCHANGED <<reader, job, starting>>
     \/ /\ main = "job"
        /\ \/ job' = TRUE /\ reader' = "look" /\ main' = "ready"
           \/ main' = "stop" /\ UNCHANGED <<job, reader>>
        /\ UNCHANGED <<proc, starting, closed>>
     \/ /\ main = "ready"
        /\ \/ head /\ Running /\ main' = "recording" /\ starting' = FALSE
           \/ ~(head /\ Running) /\ main' = "stop" /\ UNCHANGED starting
        /\ UNCHANGED <<proc, reader, job, closed>>
  /\ UNCHANGED <<pipe, emitted, outOpen, chunk, head, counted, file, dirty, streamErr, readErr, ended, haltVars,
                 failed, requested, calls, report, faults, histVars>>

-----------------------------------------------------------------------------
(* stop(). *)

Stop ==
  /\ main = "recording" /\ main' = "stop"
  /\ UNCHANGED <<procVars, readVars, haltVars, failed, requested, calls, job, starting, report,
                 closed, faults, histVars>>

\* stream_failed is read first, and the rest of exited_first after it.
ReadFailed ==
  /\ main = "stop" /\ main' = "decide" /\ failed' = (streamErr \/ readErr)
  /\ UNCHANGED <<procVars, readVars, haltVars, requested, calls, job, starting, report, closed,
                 faults, histVars>>

ExitedFirstByStream == ~requested /\ ~halted /\ ~failed /\ ended
ExitedFirst == /\ ~requested /\ ~halted /\ ~failed
               /\ proc \in Gone \/ ended

Decide ==
  /\ main = "decide"
  /\ requested' = TRUE
  /\ asked' = IF requested THEN asked
              ELSE file + Records(chunk \o pipe)
  /\ IF ExitedFirst
     THEN main' = "collect" /\ UNCHANGED halting
     ELSE main' = "halt" /\ To("main", "lock")
  /\ UNCHANGED <<procVars, readVars, draining, stopReading, halted, lock, method, failed, calls,
                 job, starting, report, closed, faults, unasked, forced>>

\* join(5) and wait(exit_grace) for a recorder that ended on its own.
Collect ==
  /\ \/ main = "collect" /\ ~Alive /\ main' = "reap" /\ UNCHANGED forced
     \/ main = "collect" /\ Alive /\ main' = "reap" /\ forced' = TRUE
     \/ main = "reap" /\ main' = "claim" /\ UNCHANGED forced
  /\ UNCHANGED <<procVars, readVars, haltVars, failed, requested, calls, job, starting, report,
                 closed, faults, asked, unasked>>

NotClaimed == halted
Claimed == TRUE

Claim ==
  /\ \/ /\ main = "claim" /\ lock = "free" /\ halted' = Claimed
        /\ \/ proc \in Gone /\ main' = "close" /\ method' = "exited_before_stop" /\ UNCHANGED proc
           \/ proc = "live" /\ proc' \in {"live", "killed"} /\ main' = "killed" /\ UNCHANGED method
     \/ /\ main = "killed" /\ proc \in Gone /\ main' = "close" /\ method' = "exited_before_stop"
        /\ UNCHANGED <<proc, halted>>
     \/ main = "killed" /\ proc = "live" /\ main' = "raised" /\ UNCHANGED <<proc, halted, method>>
  /\ UNCHANGED <<pipe, emitted, outOpen, readVars, draining, stopReading, lock, halting, failed,
                 requested, calls, job, starting, report, closed, faults, histVars>>

\* Back from _halt().
HaltReturns ==
  /\ main = "halt"
  /\ \/ At("main", "return") /\ main' = "close"
     \/ At("main", "raise") /\ main' = "raised"
  /\ To("main", "out")
  /\ UNCHANGED <<procVars, readVars, draining, stopReading, halted, lock, method, failed,
                 requested, calls, job, starting, report, closed, faults, histVars>>

\* The job ends what is left of the recorder, and the file is closed; what a
\* reader still alive holds in memory is gone. Closing a file whose write failed
\* tries the rest again, and raises when that fails too.
PlainJob == FALSE
KillOnClose == job /\ proc = "live"
LeftOpen == FALSE
Shut == TRUE

Close ==
  /\ main = "close"
  /\ proc' = IF KillOnClose THEN "killed" ELSE proc
  /\ job' = FALSE /\ closed' = Shut
  /\ \/ main' = "report" /\ file' \in IF dirty /\ ~closed THEN {file, counted} ELSE {file}
     \/ dirty /\ ~closed /\ main' = "raised" /\ file' \in file..counted
  /\ UNCHANGED <<pipe, emitted, outOpen, reader, chunk, head, counted, dirty, streamErr, readErr,
                 ended, haltVars, failed, requested, calls, starting, report, faults, histVars>>

Valid == head /\ ~streamErr /\ ~readErr

Report ==
  /\ main = "report" /\ main' = "done"
  /\ report' = {[method |-> method, valid |-> Valid, records |-> counted, disk |-> file]}
  /\ UNCHANGED <<procVars, readVars, haltVars, failed, requested, calls, job, starting, closed,
                 faults, histVars>>

\* A stop() that raised: the session calls it again after a failed start only.
Again ==
  /\ main = "raised"
  /\ main' = IF starting /\ calls = 1 THEN "stop" ELSE "abandoned"
  /\ calls' = 2
  /\ UNCHANGED <<procVars, readVars, haltVars, failed, requested, job, starting, report, closed,
                 faults, histVars>>

Init ==
  /\ proc = "none" /\ pipe = <<>> /\ emitted = 0 /\ outOpen = TRUE
  /\ reader = "unborn" /\ chunk = <<>> /\ head = FALSE
  /\ counted = 0 /\ file = 0 /\ dirty = FALSE /\ closed = FALSE
  /\ streamErr = FALSE /\ readErr = FALSE /\ ended = FALSE
  /\ draining = FALSE /\ stopReading = FALSE
  /\ halted = FALSE /\ lock = "free" /\ halting = [t \in Threads |-> "out"] /\ method = None
  /\ main = "popen" /\ failed = FALSE /\ requested = FALSE /\ calls = 1 /\ job = FALSE
  /\ starting = TRUE /\ report = {} /\ faults = 0
  /\ asked = 0 /\ unasked = FALSE /\ forced = FALSE

-----------------------------------------------------------------------------
ReaderThread == Look \/ Feed \/ ReadFails \/ ReaderEnds
Main == Start \/ ReadFailed \/ Decide \/ Collect \/ Claim \/ HaltReturns \/ Close \/ Report \/ Again
Next == Emit \/ Exit \/ ReaderThread \/ Halt \/ Main \/ Stop
Spec == Init /\ [][Next]_vars

\* Every thread is scheduled; neither the recorder nor the operator needs to do anything.
FairSpec == /\ Spec /\ WF_vars(ReaderThread) /\ WF_vars(Main)
            /\ \A t \in Threads : WF_vars(HaltEnter(t) \/ HaltJoin(t) \/ HaltClose(t) \/ HaltWait(t))
-----------------------------------------------------------------------------
\* Types and bounds; the records counted, with those still to be counted, are no
\* more than the recorder emitted after its header: none is counted twice.
TypeOK ==
  /\ proc \in {"none", "live"} \cup Gone
  /\ pipe \in Seq({"head", "rec", "junk", "torn"}) /\ Len(pipe) <= PipeSize + 1
  /\ emitted \in 0..MaxRecords + 1 /\ counted \in 0..MaxRecords /\ file \in 0..counted
  /\ reader \in {"unborn", "look", "feed", "write", "ending", "dying", "spawning", "gone"}
  /\ chunk \in Seq({"head", "rec", "junk", "torn"}) /\ (chunk # <<>> <=> reader \in {"feed", "write"})
  /\ {outOpen, head, dirty, closed, streamErr, readErr, ended, draining, stopReading, halted, failed,
      requested, job, starting, unasked, forced} \subseteq BOOLEAN
  /\ lock \in Threads \cup {"free"}
  /\ halting \in [Threads -> {"out", "lock", "join", "rejoin", "close", "wait", "terminate",
                              "terminated", "killed", "return", "raise"}]
  /\ method \in {None, "exited_after_pipe_close", "terminated_after_grace",
                 "killed_after_grace", "exited_before_stop"}
  /\ calls \in 1..2 /\ faults \in 0..MaxFaults /\ Cardinality(report) <= 1
  /\ counted + (IF reader = "feed" THEN Records(chunk) ELSE 0) + Records(pipe)
       <= IF emitted = 0 THEN 0 ELSE emitted - 1

\* _halt() "runs once" (goodix_pipe_capture.py:303): the helper that a bad stream
\* starts and the caller in stop() are never in it together, and stop()'s own kill
\* of a recorder that ended by itself never falls into a halt, nor a halt into it.
\* The bounded wait before that kill (line 355) is outside the lock: it may pass
\* beside a helper's, and does nothing to the recorder.
Inside == {t \in Threads : halting[t] \in {"join", "rejoin", "close", "wait", "terminate",
                                           "terminated", "killed"}}
OneHalter == Cardinality(Inside) + (IF main = "killed" THEN 1 ELSE 0) <= 1

\* No thread that outlives stop() writes a record after the report (its disk,
\* the file as it was then). Unless a reader too slow for its join was cut off,
\* a file reported valid has the records the report counts, all that had been
\* emitted when stop() was called among them.
ReportIsTrue ==
  \A r \in report :
    /\ file = r.disk
    /\ r.valid /\ ~forced => r.records = file /\ file >= asked

\* When start() or stop() has returned or raised for good, the recorder is gone,
\* or the kill-on-close job still holds it and ends it with the controller; that
\* is so of a start() which fails after the process was created, too. Left behind
\* is only one that never got its job and outlived the kills of a first stop().
NoOrphan ==
  main \in {"refused", "done", "abandoned"} =>
    \/ proc \in Gone \cup {"none"}
    \/ job /\ main = "abandoned"
    \/ reader = "unborn" /\ calls = 2

\* "Recorder ended on its own" (goodix_pipe_capture.py:351): stop_method
\* exited_before_stop is reported only of a recorder that did.
ExitedOnItsOwn == \A r \in report : r.method = "exited_before_stop" => unasked

\* A lost recorder is reported as a gap, and no other is.
Life == IF report # {} THEN "stopped"
        ELSE IF unasked \/ streamErr \/ readErr THEN "lost"
        ELSE IF starting THEN "idle" ELSE "recording"
Gap == IF report = {} THEN "-"
       ELSE IF \E r \in report : r.method = "exited_before_stop" \/ ~r.valid
            THEN "yes" ELSE "no"

Contract == INSTANCE Recorder WITH life <- Life, gap <- Gap

ReportsLosses == Contract!Spec

\* stop() returns or raises, whatever the recorder does, if no write to the
\* private file hangs for ever (the file object's close() would wait for it).
StopReturns == main = "stop" ~> main \in {"done", "abandoned"}
=============================================================================
