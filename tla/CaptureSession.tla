--------------------------- MODULE CaptureSession ---------------------------
(* One guided capture: run_capture() and monitor_capture()
   (tools/goodix_capture.py) over CaptureSession (tools/goodix_capture_core.py).
   The recorder keeps the contract of module Recorder; warm_restart() is one
   step with the ends module WarmRestart gives it; discover() answers with the
   reader as it is at that moment, or fails. *)
EXTENDS Naturals, Sequences, FiniteSets

CONSTANTS Readers,     \* PnP instances the machine may show as its one reader
          Interfaces,  \* USBPcap root hubs
          Addresses,   \* USB addresses
          MaxMoves,    \* bound on changes of the reader or its mapping
          MaxFaults,   \* bound on manifest writes that fail
          MaxInterrupts,  \* bound on Ctrl-C
          MaxSegments  \* bound on recorders started

VARIABLES
  where,                     \* the reader as discover() would find it
  pc,
  reader,                    \* the reader last discovered, {} before
  missing,                   \* monitor's missing_since is set
  identity,                  \* session.identity
  process, life,             \* session.process is not None; the recorder itself
  segments,                  \* session.report["segments"]
  gap, rotations, state,     \* the rest of session.report
  failure,                   \* run_failure
  disk,                      \* manifest.json
  result,                    \* how run_capture() ended
  moves, faults, interrupts,
  trouble,                   \* history: what went wrong while recording
  cut                        \* history: a Ctrl-C within run_capture()'s finally or a stop()

recVars    == <<process, life>>
reportVars == <<segments, gap, rotations, state>>
envVars    == <<where, moves, interrupts, cut>>
vars == <<pc, reader, missing, identity, recVars, reportVars, failure, disk, faults, result,
          envVars, trouble>>

None   == "none"
Reader == [id : Readers, iface : Interfaces, addr : Addresses]
target == CHOOSE r \in reader : TRUE
last   == segments[Len(segments)]

\* No PnP instance is called None, and the bounds are numbers.
ASSUME SessionAssumption ==
  /\ None \notin Readers
  /\ {MaxMoves, MaxFaults, MaxInterrupts, MaxSegments} \subseteq Nat

\* What a segment knows of its stop(): a report (clean, the recorder had exited,
\* the stream was bad), an exception, or neither.
StopKinds == {"none", "clean", "exited", "invalid", "raised"}

-----------------------------------------------------------------------------
(* Events and exceptions. *)

\* persist() replaces the manifest as a whole, or leaves the old one.
Persisted == disk' = [gap |-> gap', state |-> state'] /\ UNCHANGED faults
Unwritten == faults < MaxFaults /\ faults' = faults + 1 /\ UNCHANGED disk
Silent    == UNCHANGED <<disk, faults>>

\* The except clause of run_capture(): capture_gap, and on to its finally.
Raise(e) == pc' = "finish" /\ failure' = e /\ gap' = TRUE

\* An event after which the program goes on, or whose OSError is raised.
Event(next, newGap) ==
  \/ pc' = next /\ gap' = newGap /\ UNCHANGED failure /\ Persisted
  \/ Raise("disk") /\ Unwritten

Step(next) == pc' = next /\ UNCHANGED <<gap, failure>> /\ Silent

-----------------------------------------------------------------------------
(* run_capture() up to the session: two discoveries around the prompts. *)

Prepare ==
  /\ \/ pc = "discover" /\ reader' = {where} /\ pc' = "prompts" /\ UNCHANGED result
     \/ /\ pc = "prompts" /\ target.id = where.id
        /\ reader' = {where} /\ pc' = "start" /\ UNCHANGED result
     \/ /\ pc \in {"discover", "prompts"}
        /\ pc' = "done" /\ result' = "refused" /\ UNCHANGED reader
  /\ UNCHANGED <<missing, identity, recVars, reportVars, failure, disk, faults, envVars, trouble>>

\* The session folder's permissions are restricted before anything is recorded.
SecureFails ==
  /\ pc = "start" /\ Raise("permissions") /\ Silent
  /\ UNCHANGED <<reader, missing, identity, recVars, segments, rotations, state, result, envVars>>
  /\ trouble' = trouble \cup {"error"}

-----------------------------------------------------------------------------
(* CaptureSession.start() and stop_segment(). *)

AnyReader  == TRUE
SameReader == identity \in {None, target.id}

NewSegment == [reader |-> target.id, iface |-> target.iface, targets |-> {target.addr},
               stop |-> "none", graceful |-> FALSE]

\* Where start() returns to: scenario warm-restart goes on with the restart.
Started == CASE pc = "start" -> {"restart", "loop"}
             [] pc = "swap_start" -> {"targets"} [] OTHER -> {"loop"}

StaysSet == TRUE
Forgotten == FALSE

StartSegment ==
  /\ pc \in {"start", "swap_start", "rotate_start"} /\ Len(segments) < MaxSegments
  /\ UNCHANGED <<reader, missing, rotations, result, envVars>>
  /\ identity' = IF identity = None THEN target.id ELSE identity
  /\ \/ /\ segments' = Append(segments, NewSegment)
        /\ process' = TRUE /\ life' = "recording" /\ state' = "recording"
        /\ \E next \in Started : Event(next, gap)
        /\ trouble' = IF failure' = None THEN trouble ELSE trouble \cup {"error"}
     \/ /\ \E g \in BOOLEAN : segments' = Append(segments, [NewSegment EXCEPT !.graceful = g])
        /\ process' = Forgotten /\ UNCHANGED <<life, state>>
        /\ Raise("start") /\ (Persisted \/ Unwritten)
        /\ trouble' = trouble \cup {"error"}

\* What stop() says of the recorder; a lost one is a gap (module Recorder).
StopReports == IF life = "lost" THEN {"exited", "invalid"} ELSE {"clean"}

NotCounted(n) == n
Counted(n) == n + 1

GapOfStopNoExit(kind) == kind \in {"invalid", "raised"}
GapOfStop(kind) == kind \in {"exited", "invalid", "raised"}

SetStop(kind) ==
  \E g \in IF kind = "clean" THEN BOOLEAN ELSE {FALSE} :
    segments' = [segments EXCEPT ![Len(segments)] = [@ EXCEPT !.stop = kind, !.graceful = g]]

\* stop_segment() in observe() and rotate(); a planned rotation is counted
\* between the stop and the start.
StopSegment ==
  /\ pc \in {"swap_stop", "rotate_stop"}
  /\ UNCHANGED <<reader, missing, identity, state, result, envVars>>
  /\ IF ~process
     THEN /\ Step(IF pc = "swap_stop" THEN "swap_start" ELSE "rotate_start")
          /\ UNCHANGED <<recVars, segments, trouble>>
     ELSE \E kind \in StopReports \cup {"raised"} :
            /\ process' = FALSE /\ life' = None
            /\ SetStop(kind)
            /\ Event(IF pc = "swap_stop" THEN "swap_start" ELSE "rotate_start", gap \/ GapOfStop(kind))
            /\ trouble' = trouble \cup (IF failure' # None THEN {"error"} ELSE {})
                                  \cup (IF kind = "raised" THEN {"stop"} ELSE {})
  /\ rotations' = IF pc = "rotate_stop" /\ pc' = "rotate_start" THEN Counted(rotations) ELSE rotations

-----------------------------------------------------------------------------
(* warm-restart: warm_restart(), up to 20 discoveries, rotate(). *)

Restart ==
  /\ pc = "restart"
  /\ UNCHANGED <<reader, missing, identity, recVars, segments, rotations, state, result, envVars>>
  /\ \/ Step("rediscover") /\ UNCHANGED trouble
     \/ \E e \in {"error", "recovery failed"} :
          Raise(e) /\ Silent /\ trouble' = trouble \cup {"error"}

Rediscover ==
  /\ pc = "rediscover"
  /\ UNCHANGED <<missing, identity, recVars, segments, rotations, state, result, envVars>>
  /\ \/ reader' = {where} /\ Step("rotate") /\ UNCHANGED trouble
     \/ /\ Event("loop", TRUE) /\ UNCHANGED reader
        /\ trouble' = trouble \cup {"missing"}

Rotate ==
  /\ pc = "rotate"
  /\ UNCHANGED <<reader, missing, identity, recVars, segments, rotations, state, result, envVars>>
  /\ IF SameReader THEN Event("rotate_stop", gap) ELSE Raise("identity") /\ Silent
  /\ trouble' = IF failure' = None THEN trouble ELSE trouble \cup {"error"}

-----------------------------------------------------------------------------
(* monitor_capture() with observe(). *)

\* A recorder that is lost may still be running.
Running == IF life = "recording" THEN {TRUE} ELSE IF life = "lost" THEN BOOLEAN ELSE {FALSE}

Loop ==
  /\ pc = "loop"
  /\ UNCHANGED <<reader, missing, identity, recVars, segments, rotations, state, result, envVars>>
  /\ \/ Event("finish", gap)                                  \* Enter, or the time is over
     \/ \E r \in Running : IF r THEN Step("poll") ELSE Raise("recorder") /\ Silent
  /\ trouble' = IF failure' = None THEN trouble ELSE trouble \cup {"error"}

\* A failed discovery is a gap for good, the first one an event, and more than
\* 10 s of them the end.
Poll ==
  /\ pc = "poll"
  /\ UNCHANGED <<identity, recVars, segments, rotations, state, result, envVars>>
  /\ \/ /\ reader' = {where} /\ missing' = FALSE
        /\ IF missing THEN Event("observe", gap) ELSE Step("observe")
        /\ trouble' = IF failure' = None THEN trouble ELSE trouble \cup {"error"}
     \/ /\ UNCHANGED reader /\ missing' = TRUE
        /\ IF missing THEN (pc' = "size" /\ gap' = TRUE /\ UNCHANGED failure /\ Silent)
                           \/ (Raise("mapping") /\ Silent)
                      ELSE Event("size", TRUE)
        /\ trouble' = trouble \cup {"missing"}

Observe ==
  /\ pc = "observe"
  /\ UNCHANGED <<reader, missing, identity, recVars, segments, rotations, state, result, envVars>>
  /\ IF ~SameReader THEN Raise("identity") /\ Silent /\ trouble' = trouble \cup {"error"}
     ELSE IF target.iface # last.iface THEN Event("swap_stop", TRUE) /\ trouble' = trouble \cup {"moved"}
     ELSE /\ \E r \in Running : IF process /\ r THEN Step("targets") ELSE Raise("recorder") /\ Silent
          /\ trouble' = IF failure' = None THEN trouble ELSE trouble \cup {"error"}

SameTargets(s) == s.targets
WithTarget(s)  == s.targets \cup {target.addr}

Targets ==
  /\ pc = "targets"
  /\ UNCHANGED <<reader, missing, identity, recVars, rotations, state, result, envVars>>
  /\ segments' = [segments EXCEPT ![Len(segments)].targets = WithTarget(last)]
  /\ IF target.addr \in last.targets THEN Step("size") ELSE Event("size", gap)
  /\ trouble' = IF failure' = None THEN trouble ELSE trouble \cup {"error"}

\* The size query fails, or finds more than 256 MiB.
Size ==
  /\ pc = "size"
  /\ UNCHANGED <<reader, missing, identity, recVars, segments, rotations, state, result, envVars>>
  /\ \/ Step("loop") /\ UNCHANGED trouble
     \/ Raise("size") /\ Silent /\ trouble' = trouble \cup {"error"}

-----------------------------------------------------------------------------
(* finish(), and the end of run_capture(). *)

\* The exception that leaves run_capture(): an OSError of finish() is raised
\* only if the body had not failed.
LatestFailure(e) == e
EndingWith(e) == IF failure # None THEN failure ELSE e

StopIfHealthy == failure = None
StopAlways == TRUE

FinishStop ==
  /\ pc = "finish" /\ UNCHANGED failure
  /\ UNCHANGED <<reader, missing, identity, rotations, state, envVars>>
  /\ IF process /\ StopAlways
     THEN \E kind \in StopReports \cup {"raised"} :
            /\ process' = FALSE /\ life' = None
            /\ SetStop(kind) /\ gap' = (gap \/ GapOfStop(kind))
            /\ trouble' = IF kind = "raised" THEN trouble \cup {"stop"} ELSE trouble
            /\ \/ Persisted /\ pc' = "summarize" /\ UNCHANGED result
               \/ Unwritten /\ pc' = "done" /\ result' = EndingWith("disk")
     ELSE pc' = "summarize" /\ Silent /\ UNCHANGED <<recVars, segments, gap, trouble, result>>

\* Segments summarize_capture() is not asked about: an invalid stream, or no
\* report and no graceful stop.
Unvalidated(s) == s.stop = "invalid" \/ (s.stop \in {"none", "raised"} /\ ~s.graceful)

Summarize ==
  /\ pc = "summarize"
  /\ \E damaged \in BOOLEAN :   \* truncated records, or a file that cannot be parsed
       /\ damaged => \E i \in DOMAIN segments : ~Unvalidated(segments[i])
       /\ gap' = (gap \/ damaged \/ \E i \in DOMAIN segments : Unvalidated(segments[i]))
       /\ trouble' = IF damaged THEN trouble \cup {"damaged"} ELSE trouble
  /\ state' = "finished"
  /\ \/ Persisted /\ pc' = "question" /\ UNCHANGED result
     \/ Unwritten /\ pc' = "done" /\ result' = EndingWith("disk")
  /\ UNCHANGED <<reader, missing, identity, recVars, segments, rotations, failure, envVars>>

\* The operator's answer is recorded unless the body failed.
Question ==
  /\ pc = "question" /\ pc' = "done"
  /\ UNCHANGED <<reader, missing, identity, recVars, reportVars, failure, envVars, trouble>>
  /\ IF failure # None THEN result' = failure /\ Silent
     ELSE \/ Persisted /\ result' = "report"
          \/ Unwritten /\ result' = "disk"

-----------------------------------------------------------------------------
(* The recorder, the reader, and Ctrl-C. *)

Lose ==
  /\ life = "recording" /\ life' = "lost" /\ trouble' = trouble \cup {"lost"}
  /\ UNCHANGED <<pc, reader, missing, identity, process, reportVars, failure, disk, faults,
                 result, envVars>>

Move ==
  /\ pc # "done" /\ moves < MaxMoves /\ moves' = moves + 1
  /\ where' \in Reader \ {where}
  /\ UNCHANGED <<pc, reader, missing, identity, recVars, reportVars, failure, disk, faults,
                 result, interrupts, cut, trouble>>

Body == {"start", "restart", "rediscover", "rotate", "rotate_stop", "rotate_start", "loop", "poll",
         "observe", "swap_stop", "swap_start", "targets", "size"}

\* In the body it is the failure finish() runs after; before it there is no
\* session; in the finally it leaves at once, but as the answer to the last
\* question it is only "unknown". In a stop() the recorder is already forgotten.
Interrupt ==
  /\ pc # "done" /\ interrupts < MaxInterrupts /\ interrupts' = interrupts + 1
  /\ \/ pc \in Body /\ Raise("interrupt") /\ UNCHANGED result
     \/ pc \notin Body /\ pc' = "done" /\ result' = "interrupt" /\ UNCHANGED <<failure, gap>>
     \/ pc = "question" /\ failure = None /\ UNCHANGED <<pc, result, failure, gap>>
  /\ process' \in IF pc \in {"swap_stop", "rotate_stop", "finish"} THEN {process, FALSE} ELSE {process}
  /\ life' = IF process' THEN life ELSE None
  /\ cut' = (cut \/ pc \in {"swap_stop", "rotate_stop", "finish", "summarize", "question"})
  /\ trouble' = IF pc \in Body THEN trouble \cup {"error"} ELSE trouble
  /\ UNCHANGED <<reader, missing, identity, segments, rotations, state, disk, faults, where, moves>>

Init ==
  /\ where \in Reader /\ pc = "discover" /\ reader = {} /\ missing = FALSE
  /\ identity = None /\ process = FALSE /\ life = None
  /\ segments = <<>> /\ gap = FALSE /\ rotations = 0 /\ state = "prepared"
  /\ failure = None /\ disk = [gap |-> FALSE, state |-> "prepared"] /\ result = None
  /\ moves = 0 /\ faults = 0 /\ interrupts = 0 /\ trouble = {} /\ cut = FALSE

Program == \/ Prepare \/ SecureFails \/ StartSegment \/ StopSegment \/ Restart \/ Rediscover
           \/ Rotate \/ Loop \/ Poll \/ Observe \/ Targets \/ Size
           \/ FinishStop \/ Summarize \/ Question
Next == Program \/ Lose \/ Move \/ Interrupt
Spec == Init /\ [][Next]_vars
-----------------------------------------------------------------------------
TypeOK ==
  /\ where \in Reader /\ reader \subseteq Reader /\ Cardinality(reader) <= 1
  /\ pc \in Body \cup {"discover", "prompts", "finish", "summarize", "question", "done"}
  /\ identity \in Readers \cup {None} /\ missing \in BOOLEAN
  /\ process \in BOOLEAN /\ life \in {None, "recording", "lost"} /\ (process <=> life # None)
  /\ segments \in Seq([reader : Readers, iface : Interfaces, targets : SUBSET Addresses,
                       stop : StopKinds, graceful : BOOLEAN])
  /\ Len(segments) <= MaxSegments
  /\ gap \in BOOLEAN /\ rotations \in Nat /\ state \in {"prepared", "recording", "finished"}
  /\ disk \in [gap : BOOLEAN, state : {"prepared", "recording", "finished"}]
  /\ moves \in 0..MaxMoves /\ faults \in 0..MaxFaults /\ interrupts \in 0..MaxInterrupts

\* continuous_capture: no gap and no rotation.
Continuous == state = "finished" /\ segments # <<>> /\ ~gap /\ rotations = 0

\* A finished session without a capture gap, in memory (main()'s exit 0) or in
\* a manifest, is one in which no recorder was lost, no discovery failed, the
\* reader was not seen to move to another hub, and no step of the run failed;
\* one that calls itself continuous was written by one recorder.
NoGapNoTrouble ==
  /\ state = "finished" /\ ~gap => trouble = {}
  /\ disk.state = "finished" /\ ~disk.gap => trouble = {}
  /\ Continuous => Len(segments) = 1

\* Every segment is a recording of one and the same reader; once a discovery
\* has been looked at, the segment being written is that of the reader's hub,
\* and lists its address.
SegmentFollowsReader ==
  /\ \A i \in DOMAIN segments : segments[i].reader = identity
  /\ pc = "size" /\ ~missing =>
       process /\ last.iface = target.iface /\ target.addr \in last.targets

\* However run_capture() ends, its recorder has been stopped, unless Ctrl-C
\* falls into a stop() or into finish().
NoRecorderLeft == pc = "done" /\ ~cut => ~process

\* What finish() runs into never replaces READER RECOVERY FAILED, or any other
\* failure of the run.
FirstFailureKept == pc = "done" /\ failure # None => result = failure \/ result = "interrupt"
=============================================================================
