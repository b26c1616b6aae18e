------------------------ MODULE PipeRecorder_proofs ------------------------
(* A recorder is halted by one thread at a time and none is left behind, for any
   number of records, any pipe and any number of faults. *)
EXTENDS PipeRecorder, FiniteSetTheorems, FunctionTheorems, SequenceTheorems, TLAPS

Stages == {"join", "rejoin", "close", "wait", "terminate", "terminated", "killed"}
Places == Stages \cup {"out", "lock", "return", "raise"}

\* _halt_lock is held in all of _halt(), and stop()'s own kill comes after it has
\* marked the recorder halted, so that nobody can take the lock to do more.
Owned ==
  /\ halting \in [Threads -> Places]
  /\ lock \in Threads \cup {"free"}
  /\ \A t \in Threads : halting[t] \in Stages => lock = t
  /\ lock # "free" => halted
  /\ main = "killed" => halted /\ lock = "free"

LEMMA OwnedInit == Init => Owned
BY DEF Init, Owned, Threads, Places, Stages

LEMMA HaltKeepsOwned ==
  ASSUME Owned, NEW t \in Threads,
         HaltEnter(t) \/ HaltJoin(t) \/ HaltClose(t) \/ HaltWait(t)
  PROVE  Owned'
<1>1. CASE HaltEnter(t)
  <2>1. main' = main /\ lock = "free" /\ \A u \in Threads : halting[u] \notin Stages
    BY <1>1 DEF HaltEnter, mainVars, Owned, Threads
  <2>2. CASE halted
    BY <1>1, <2>1, <2>2 DEF HaltEnter, To, Owned, Stages, Places
  <2>3. CASE ~halted
    <3>1. lock' = t /\ halted' /\ halting' = [halting EXCEPT ![t] = "join"]
      BY <1>1, <2>3 DEF HaltEnter, To
    <3>2. main # "killed"
      BY <2>3 DEF Owned
    <3> QED BY <2>1, <3>1, <3>2 DEF Owned, Stages, Places
  <2> QED BY <2>2, <2>3
<1>2. CASE HaltJoin(t)
  BY <1>2 DEF HaltJoin, At, To, Owned, Stages, Places, mainVars
<1>3. CASE HaltClose(t)
  BY <1>3 DEF HaltClose, At, To, Owned, Stages, Places, mainVars
<1>4. CASE HaltWait(t)
  <2>1. /\ halting[t] \in Stages /\ main' = main /\ halted' = halted
        /\ \/ \E s \in Stages : halting' = [halting EXCEPT ![t] = s] /\ lock' = lock
           \/ \E s \in {"return", "raise"} : halting' = [halting EXCEPT ![t] = s] /\ lock' = "free"
    BY <1>4 DEF HaltWait, Release, At, To, Stages, None, mainVars
  <2>2. lock = t /\ lock # "free" /\ main # "killed"
    BY <2>1 DEF Owned, Threads
  <2> QED BY <2>1, <2>2 DEF Owned, Stages, Places
<1> QED BY <1>1, <1>2, <1>3, <1>4

LEMMA OwnedStep == Owned /\ [Next]_vars => Owned'
<1> SUFFICES ASSUME Owned, [Next]_vars PROVE Owned'
  OBVIOUS
<1>1. CASE Emit \/ Exit
  BY <1>1 DEF Emit, Exit, Owned, haltVars, mainVars
<1>2. CASE ReaderThread
  <2>1. CASE Look \/ Feed \/ ReadFails
    BY <2>1 DEF Look, Feed, ReadFails, Owned, haltVars, mainVars
  <2>2. CASE ReaderEnds
    BY <2>2 DEF ReaderEnds, Owned, Threads, Stages, Places, mainVars
  <2> QED BY <1>2, <2>1, <2>2 DEF ReaderThread
<1>3. CASE Halt
  BY <1>3, HaltKeepsOwned DEF Halt
<1>4. CASE Main
  <2>1. CASE Start \/ ReadFailed \/ Collect \/ Close \/ Report \/ Again
    BY <2>1 DEF Start, ReadFailed, Collect, Close, Report, Again, Owned, haltVars
  <2>2. CASE Decide
    BY <2>2 DEF Decide, To, Owned, Threads, Stages, Places
  <2>3. CASE Claim
    BY <2>3 DEF Claim, Claimed, Owned, Threads, Stages
  <2>4. CASE HaltReturns
    BY <2>4 DEF HaltReturns, At, To, Owned, Threads, Stages, Places
  <2> QED BY <1>4, <2>1, <2>2, <2>3, <2>4 DEF Main
<1>5. CASE Stop
  BY <1>5 DEF Stop, Owned, haltVars
<1>6. CASE UNCHANGED vars
  BY <1>6 DEF vars, Owned, haltVars, mainVars
<1> QED BY <1>1, <1>2, <1>3, <1>4, <1>5, <1>6 DEF Next

\* "Runs once" (goodix_pipe_capture.py:303): the helper and the caller of stop()
\* are never both inside _halt(), and stop()'s own kill never falls into a halt.
THEOREM HaltsOnce == Spec => []OneHalter
<1>1. Owned => OneHalter
  <2> SUFFICES ASSUME Owned PROVE OneHalter
    OBVIOUS
  <2>1. Inside \in SUBSET {lock}
    BY DEF Owned, Inside, Stages
  <2>2. IsFiniteSet({lock}) /\ Cardinality({lock}) = 1
    BY FS_Singleton
  <2>3. Cardinality(Inside) <= 1 /\ IsFiniteSet(Inside)
    BY <2>1, <2>2, FS_Subset
  <2>4. Cardinality(Inside) \in Nat
    BY <2>3, FS_CardinalityType
  <2>5. CASE main = "killed"
    <3>1. Inside = {}
      BY <2>1, <2>5 DEF Owned, Inside, Threads
    <3> QED BY <3>1, <2>5, FS_EmptySet DEF OneHalter
  <2>6. CASE main # "killed"
    BY <2>3, <2>4, <2>6 DEF OneHalter
  <2> QED BY <2>5, <2>6
<1> QED BY <1>1, OwnedInit, OwnedStep, PTL DEF Spec

-----------------------------------------------------------------------------
\* Past a successful start() there is a process, and until stop() closes it, the
\* job that ends it.
Bound ==
  /\ proc \in {"none", "live"} \cup Gone
  /\ main \notin {"popen", "refused"} => proc # "none"
  /\ main \in {"popen", "job", "ready", "refused"} => starting
  /\ main = "ready" => job
  /\ ~starting => job \/ main \in {"report", "done", "raised", "abandoned"}
  /\ ~starting /\ main \in {"report", "done"} => proc \in Gone
  /\ report # {} => main = "done"

LEMMA BoundStep == Bound /\ [Next]_vars => Bound'
<1> SUFFICES ASSUME Bound, [Next]_vars PROVE Bound'
  OBVIOUS
<1> USE DEF Bound, Gone
<1>1. CASE Emit \/ Exit
  BY <1>1 DEF Emit, Exit, mainVars
<1>2. CASE ReaderThread
  BY <1>2 DEF ReaderThread, Look, Feed, ReadFails, ReaderEnds, procVars, mainVars
<1>3. ASSUME NEW t \in Threads, HaltEnter(t) \/ HaltJoin(t) \/ HaltClose(t) PROVE Bound'
  BY <1>3 DEF HaltEnter, HaltJoin, HaltClose, procVars, mainVars
<1>4. ASSUME NEW t \in Threads, HaltWait(t) PROVE Bound'
  BY <1>4 DEF HaltWait, Release, mainVars
<1>5. CASE Main
  <2>1. CASE Start
    BY <2>1 DEF Start, Running
  <2>2. CASE ReadFailed \/ Collect \/ HaltReturns \/ Report
    BY <2>2 DEF ReadFailed, Collect, HaltReturns, Report, procVars
  <2>3. CASE Decide
    BY <2>3 DEF Decide, procVars
  <2>4. CASE Claim
    BY <2>4 DEF Claim
  <2>5. CASE Close
    BY <2>5 DEF Close, KillOnClose
  <2>6. CASE Again
    BY <2>6 DEF Again, procVars
  <2> QED BY <1>5, <2>1, <2>2, <2>3, <2>4, <2>5, <2>6 DEF Main
<1>6. CASE Stop
  BY <1>6 DEF Stop, procVars
<1>7. CASE UNCHANGED vars
  BY <1>7 DEF vars, procVars, mainVars
<1> QED BY <1>1, <1>2, <1>3, <1>4, <1>5, <1>6, <1>7 DEF Next, Halt

-----------------------------------------------------------------------------
(* The report of a loss. *)

Errs == streamErr \/ readErr

\* _halt() is entered for a bad stream, or by stop() after it has put down its
\* request; the reader ends for an error, a halt, a recorder gone or a closed
\* file; so what stop() finds at its test, and puts in the report, is a loss that
\* happened, and no loss it should report escapes it.
Losses ==
  /\ main \in {"popen", "refused"} => proc = "none"
  /\ unasked => proc \in Gone
  /\ proc \in Gone => unasked \/ requested \/ halted
  /\ ~starting => head
  /\ reader = "spawning" \/ halting["helper"] # "out" => Errs
  /\ halting["main"] # "out" => main = "halt" /\ requested
  /\ halting["main"] \in Stages \cup {"return", "raise"} => halted
  /\ halted /\ ~requested => Errs
  /\ draining \/ stopReading => halted
  /\ main \in {"popen", "refused", "job", "ready", "recording"} => ~requested
  /\ main \in {"popen", "refused", "job"} => reader = "unborn"
  /\ main \in {"collect", "reap", "claim", "killed", "halt", "close", "report", "done"} => requested
  /\ main \in {"killed", "close", "report", "done"} => halted
  /\ main = "decide" /\ failed => Errs
  /\ main \in {"collect", "reap", "claim", "killed"} => unasked \/ Errs
  /\ method = "exited_before_stop" => unasked \/ Errs
  /\ requested /\ unasked /\ ~Errs =>
       \/ main \in {"collect", "reap", "claim"}
       \/ main \in {"close", "report", "done"} /\ method = "exited_before_stop"
  /\ closed => \/ main = "refused"
               \/ requested /\ halted /\ halting["main"] # "join"
  /\ ended \/ reader \in {"ending", "dying", "spawning", "gone"} =>
       Errs \/ halted \/ proc \in Gone \/ closed
  /\ dirty => readErr

LEMMA LossesInit == Init => Losses
BY DEF Init, Losses, Errs, Threads, Gone, Stages, None

LEMMA HaltKeepsLosses ==
  ASSUME Owned, Losses, NEW t \in Threads,
         HaltEnter(t) \/ HaltJoin(t) \/ HaltClose(t) \/ HaltWait(t)
  PROVE  Losses'
<1> USE DEF Losses, Errs, Owned, Threads, Stages, Places, Gone
<1>1. CASE HaltEnter(t)
  BY <1>1 DEF HaltEnter, At, To, procVars, readVars, mainVars, histVars
<1>2. CASE HaltJoin(t)
  BY <1>2 DEF HaltJoin, At, To, Alive, procVars, readVars, mainVars
<1>3. CASE HaltClose(t)
  BY <1>3 DEF HaltClose, At, To, readVars, mainVars, histVars
<1>4. CASE HaltWait(t)
  <2>1. /\ UNCHANGED <<readVars, draining, stopReading, halted, mainVars, histVars>>
        /\ halting[t] \in Stages
        /\ \E s \in (Stages \ {"join"}) \cup {"return", "raise"} :
             halting' = [halting EXCEPT ![t] = s]
        /\ proc \in Gone \cup {"none"} => proc' = proc
        /\ method' # "exited_before_stop" \/ method' = method
    BY <1>4 DEF HaltWait, Release, At, To, None
  <2> QED BY <2>1 DEF readVars, mainVars, histVars
<1> QED BY <1>1, <1>2, <1>3, <1>4

LEMMA FeedOnlyAdds == Feed => (head => head') /\ (streamErr => streamErr')
<1> SUFFICES ASSUME Feed PROVE (head => head') /\ (streamErr => streamErr')
  OBVIOUS
<1>1. CASE UNCHANGED <<head, streamErr>>
  BY <1>1
<1>2. CASE /\ head' = (head \/ \E i \in Sound(chunk) : chunk[i] = "head")
           /\ streamErr' = (streamErr \/ "junk" \in ToSet(chunk))
  BY <1>2, Zenon
<1> QED BY <1>1, <1>2 DEF Feed

LEMMA LossesStep == Owned /\ Losses /\ [Next]_vars => Losses'
<1> SUFFICES ASSUME Owned, Losses, [Next]_vars PROVE Losses'
  OBVIOUS
<1> USE DEF Losses, Errs, Owned, Threads, Stages, Places, Gone
<1>1. CASE Emit
  BY <1>1 DEF Emit, readVars, haltVars, mainVars, histVars
<1>2. CASE Exit
  BY <1>2 DEF Exit, readVars, haltVars, mainVars
<1>3. CASE ReaderThread
  <2>1. CASE Look
    BY <2>1 DEF Look, Drained, haltVars, mainVars, histVars
  <2>2. CASE Feed
    <3>1. /\ reader \in {"feed", "write"} /\ (head => head') /\ (streamErr => streamErr')
          /\ \/ reader' \in {"write", "look"}
             \/ reader' = "ending" /\ streamErr'
             \/ reader' = "dying" /\ closed
      BY <2>2, FeedOnlyAdds DEF Feed
    <3>2. UNCHANGED <<procVars, dirty, readErr, ended, haltVars, mainVars, histVars>>
      BY <2>2 DEF Feed
    <3> QED BY <3>1, <3>2 DEF procVars, haltVars, mainVars, histVars
  <2>3. CASE ReadFails
    BY <2>3 DEF ReadFails, procVars, haltVars, mainVars, histVars
  <2>4. CASE ReaderEnds
    BY <2>4 DEF ReaderEnds, procVars, mainVars, histVars
  <2> QED BY <1>3, <2>1, <2>2, <2>3, <2>4 DEF ReaderThread
<1>4. CASE Halt
  BY <1>4, HaltKeepsLosses DEF Halt
<1>5. CASE Main
  <2>1. CASE Start
    BY <2>1 DEF Start, Running, haltVars, histVars
  <2>2. CASE ReadFailed
    BY <2>2 DEF ReadFailed, procVars, readVars, haltVars, histVars
  <2>3. CASE Decide
    <3>1. CASE ExitedFirst
      BY <2>3, <3>1 DEF Decide, ExitedFirst, procVars, readVars
    <3>2. CASE ~ExitedFirst
      BY <2>3, <3>2 DEF Decide, ExitedFirst, To, procVars, readVars
    <3> QED BY <3>1, <3>2
  <2>4. CASE Collect
    BY <2>4 DEF Collect, procVars, readVars, haltVars
  <2>5. CASE Claim
    BY <2>5 DEF Claim, Claimed, readVars, histVars
  <2>6. CASE HaltReturns
    BY <2>6 DEF HaltReturns, At, To, procVars, readVars, histVars
  <2>7. CASE Close
    BY <2>7 DEF Close, KillOnClose, Shut, haltVars, histVars
  <2>8. CASE Report
    BY <2>8 DEF Report, procVars, readVars, haltVars, histVars
  <2>9. CASE Again
    BY <2>9 DEF Again, procVars, readVars, haltVars, histVars
  <2> QED BY <1>5, <2>1, <2>2, <2>3, <2>4, <2>5, <2>6, <2>7, <2>8, <2>9 DEF Main
<1>6. CASE Stop
  BY <1>6 DEF Stop, procVars, readVars, haltVars, histVars
<1>7. CASE UNCHANGED vars
  BY <1>7 DEF vars, procVars, readVars, haltVars, mainVars, histVars
<1> QED BY <1>1, <1>2, <1>3, <1>4, <1>5, <1>6, <1>7 DEF Next

\* Once its reader is there, the job holds the recorder until it is gone. Without
\* a reader nothing can halt it but stop() itself, called by the start() that
\* failed, and a first stop() that gets as far as its report has seen it gone.
Held ==
  /\ main \in {"report", "done"} => ~job
  /\ reader # "unborn" => job \/ proc \in Gone
  /\ reader = "unborn" => ~Errs /\ ~ended /\ halting["helper"] = "out"
  /\ calls \in {1, 2} /\ (main \in {"popen", "job", "ready", "refused"} => calls = 1)
  /\ main = "abandoned" => calls = 2
  /\ reader = "unborn" /\ calls = 1 =>
       /\ main \in {"popen", "job", "refused", "stop", "decide"} => ~halted
       /\ main # "halt" => halting["main"] = "out"
       /\ main = "halt" => ~halted \/ halting["main"] # "lock"
       /\ main = "halt" /\ halting["main"] = "return" => proc \in Gone
       /\ main \in {"collect", "reap", "claim", "close", "report", "done"} => proc \in Gone
       /\ main \notin {"ready", "recording", "killed"}

LEMMA HeldStep == Owned /\ Bound /\ Losses /\ Held /\ [Next]_vars => Held'
<1> SUFFICES ASSUME Owned, Bound, Losses, Held, [Next]_vars PROVE Held'
  OBVIOUS
<1> USE DEF Held, Errs, Owned, Threads, Stages, Places, Gone
<1>1. CASE Emit
  BY <1>1 DEF Emit, readVars, haltVars, mainVars
<1>2. CASE Exit
  BY <1>2 DEF Exit, readVars, haltVars, mainVars
<1>3. CASE ReaderThread
  <2>1. UNCHANGED <<proc, halted, mainVars>> /\ reader # "unborn" /\ reader' # "unborn"
    BY <1>3 DEF ReaderThread, Look, Feed, ReadFails, ReaderEnds, procVars, haltVars
  <2> QED BY <2>1 DEF mainVars
<1>4. ASSUME NEW t \in Threads, HaltEnter(t) \/ HaltJoin(t) \/ HaltClose(t) PROVE Held'
  <2>1. UNCHANGED <<proc, readVars, mainVars>>
    BY <1>4 DEF HaltEnter, HaltJoin, HaltClose, procVars
  <2>2. CASE reader # "unborn"
    BY <2>1, <2>2 DEF readVars, mainVars
  <2>3. CASE reader = "unborn"
    <3>1. t = "main" /\ main = "halt"
      BY <1>4, <2>3 DEF HaltEnter, HaltJoin, HaltClose, At, Losses
    <3> QED BY <1>4, <2>1, <2>3, <3>1 DEF HaltEnter, HaltJoin, HaltClose, At, To, readVars, mainVars
  <2> QED BY <2>2, <2>3
<1>5. ASSUME NEW t \in Threads, HaltWait(t) PROVE Held'
  <2>1. UNCHANGED <<halted, readVars, mainVars>> /\ (proc \in Gone => proc' = proc)
    BY <1>5 DEF HaltWait
  <2>2. CASE reader # "unborn"
    BY <2>1, <2>2 DEF readVars, mainVars
  <2>3. CASE reader = "unborn"
    <3>1. t = "main" /\ main = "halt" /\ halted
      BY <1>5, <2>3 DEF HaltWait, At, Losses
    <3> QED BY <1>5, <2>1, <2>3, <3>1 DEF HaltWait, Release, At, To, None, readVars, mainVars
  <2> QED BY <2>2, <2>3
<1>6. CASE Main
  <2>1. CASE Start
    BY <2>1 DEF Start, Running, Bound, Losses, haltVars
  <2>2. CASE ReadFailed \/ Report \/ Again
    BY <2>2 DEF ReadFailed, Report, Again, procVars, readVars, haltVars
  <2>3. CASE Decide
    BY <2>3 DEF Decide, ExitedFirst, To, procVars, readVars, Losses
  <2>4. CASE Collect
    BY <2>4 DEF Collect, procVars, readVars, haltVars
  <2>5. CASE Claim
    BY <2>5 DEF Claim, readVars
  <2>6. CASE HaltReturns
    BY <2>6 DEF HaltReturns, At, To, procVars, readVars
  <2>7. CASE Close
    BY <2>7 DEF Close, KillOnClose, haltVars, Bound
  <2> QED BY <1>6, <2>1, <2>2, <2>3, <2>4, <2>5, <2>6, <2>7 DEF Main
<1>7. CASE Stop
  BY <1>7 DEF Stop, procVars, readVars, haltVars, Bound
<1>8. CASE UNCHANGED vars
  BY <1>8 DEF vars, procVars, readVars, haltVars, mainVars
<1> QED BY <1>1, <1>2, <1>3, <1>4, <1>5, <1>6, <1>7, <1>8 DEF Next, Halt

\* No recorder is left behind, whatever way it was stopped and whatever failed, a
\* start() that failed after the process was created among it; one that a raising
\* stop() leaves is still in the job that kills it. Only a recorder that never got
\* its job and outlived the kills of a first stop() may live on.
THEOREM NoneLeftBehind == Spec => []NoOrphan
<1>1. Init => Bound /\ Held
  BY DEF Init, Bound, Held, Gone, Errs, Threads
<1>2. Bound /\ Losses /\ Held => NoOrphan
  BY DEF Bound, Losses, Held, NoOrphan, Gone
<1> QED BY <1>1, <1>2, OwnedInit, OwnedStep, BoundStep, LossesInit, LossesStep, HeldStep, PTL
        DEF Spec

\* A step of the recorder is a step of the contract: before the report it may
\* only start or be lost, once, and a report tells the two apart.
LEMMA ContractStep ==
  Bound /\ Losses /\ [Next]_vars => [Contract!Next]_<<Life, Gap>>
<1> SUFFICES ASSUME Bound, Losses, [Next]_vars PROVE [Contract!Next]_<<Life, Gap>>
  OBVIOUS
<1> DEFINE Lossy == unasked \/ streamErr \/ readErr
           Gapped == \E r \in report : r.method = "exited_before_stop" \/ ~r.valid
<1>1. CASE Report
  <2>1. /\ report = {} /\ (Gapped' <=> method = "exited_before_stop" \/ ~Valid) /\ report' # {}
        /\ UNCHANGED <<unasked, streamErr, readErr, starting>>
    BY <1>1 DEF Report, Bound, readVars, histVars
  <2>2. Life' = "stopped" /\ Gap = "-"
    BY <2>1 DEF Life, Gap
  <2>3. CASE Lossy
    <3>1. method = "exited_before_stop" \/ ~Valid
      BY <1>1, <2>3 DEF Losses, Errs, Report, Valid
    <3>2. Life = "lost" /\ Gap' = "yes"
      BY <2>1, <2>3, <3>1 DEF Life, Gap
    <3> QED BY <2>2, <3>2 DEF Contract!Next, Contract!Stop
  <2>4. CASE ~Lossy /\ ~starting
    <3>1. method # "exited_before_stop" /\ Valid
      BY <1>1, <2>4 DEF Losses, Errs, Valid
    <3>2. Life = "recording" /\ Gap' = "no"
      BY <2>1, <2>4, <3>1 DEF Life, Gap
    <3> QED BY <2>2, <3>2 DEF Contract!Next, Contract!Stop
  <2>5. CASE ~Lossy /\ starting
    <3>1. Life = "idle" /\ Gap' \in {"no", "yes"}
      BY <2>1, <2>5 DEF Life, Gap
    <3> QED BY <2>2, <3>1 DEF Contract!Next, Contract!Stop
  <2> QED BY <2>3, <2>4, <2>5
<1>2. CASE UNCHANGED report /\ (Lossy => Lossy') /\ (starting' => starting)
           /\ (Lossy' => Lossy \/ UNCHANGED starting)
  <2>1. CASE report # {}
    BY <1>2, <2>1 DEF Life, Gap
  <2>2. CASE report = {}
    <3>1. Gap = "-" /\ Gap' = "-"
      BY <1>2, <2>2 DEF Gap
    <3>2. CASE Lossy
      BY <1>2, <2>2, <3>1, <3>2 DEF Life
    <3>3. CASE ~Lossy /\ ~Lossy'
      BY <1>2, <2>2, <3>1, <3>3 DEF Life, Contract!Next, Contract!Start
    <3>4. CASE ~Lossy /\ Lossy'
      <4>1. Life \in {"idle", "recording"} /\ Life' = "lost"
        BY <1>2, <2>2, <3>4 DEF Life
      <4> QED BY <3>1, <4>1 DEF Contract!Next, Contract!Lose
    <3> QED BY <3>2, <3>3, <3>4
  <2> QED BY <2>1, <2>2
<1>3. CASE Emit \/ Exit \/ Stop \/ UNCHANGED vars
  <2>1. UNCHANGED <<streamErr, readErr, starting, report>> /\ (unasked => unasked')
    <3>1. CASE Exit
      <4>1. unasked => unasked'
        BY <3>1, Zenon DEF Exit
      <4> QED BY <3>1, <4>1 DEF Exit, readVars, mainVars
    <3>2. CASE Emit \/ Stop \/ UNCHANGED vars
      BY <3>2 DEF Emit, Stop, vars, readVars, mainVars, histVars
    <3> QED BY <1>3, <3>1, <3>2
  <2> QED BY <1>2, <2>1
<1>4. CASE ReaderThread
  <2>1. UNCHANGED <<unasked, starting, report>>
    BY <1>4 DEF ReaderThread, Look, Feed, ReadFails, ReaderEnds, mainVars, histVars
  <2>2. (streamErr => streamErr') /\ (readErr => readErr')
    <3>1. CASE Feed
      BY <3>1, FeedOnlyAdds DEF Feed
    <3>2. CASE Look \/ ReadFails \/ ReaderEnds
      BY <3>2 DEF Look, ReadFails, ReaderEnds
    <3> QED BY <1>4, <3>1, <3>2 DEF ReaderThread
  <2> QED BY <1>2, <2>1, <2>2
<1>5. CASE Halt
  <2>1. UNCHANGED <<readVars, mainVars, unasked>>
    BY <1>5 DEF Halt, HaltEnter, HaltJoin, HaltClose, HaltWait, histVars
  <2> QED BY <1>2, <2>1 DEF readVars, mainVars
<1>6. CASE Start
  BY <1>2, <1>6 DEF Start, histVars
<1>7. CASE ReadFailed \/ Decide \/ Collect \/ Claim \/ HaltReturns \/ Close \/ Again
  <2>1. UNCHANGED <<streamErr, readErr, unasked, starting, report>>
    BY <1>7 DEF ReadFailed, Decide, Collect, Claim, HaltReturns, Close, Again, readVars, histVars
  <2> QED BY <1>2, <2>1
<1> QED BY <1>1, <1>3, <1>4, <1>5, <1>6, <1>7 DEF Next, Main

\* A recorder lost before it was stopped is reported as a gap, whatever ended it
\* (its own exit, a corrupt or unreadable stream, a failed write) and whichever
\* thread saw it first; one that was not lost is not. The recorder implements
\* what the session may expect of it.
THEOREM LossesAreReported == Spec => ReportsLosses
<1>1. Init => Contract!Init
  BY DEF Init, Contract!Init, Life, Gap
<1>2. Init => Bound
  BY DEF Init, Bound, Gone
<1> QED BY <1>1, <1>2, OwnedInit, OwnedStep, BoundStep, LossesInit, LossesStep, ContractStep, PTL
        DEF Spec, ReportsLosses, Contract!Spec

-----------------------------------------------------------------------------
(* The truth of the report. *)

Pieces == {"head", "rec", "junk", "torn"}
Past == {"ending", "dying", "spawning", "gone"}

\* The records in a sequence of pieces are counted by what is in it.
Marks(c) == {i \in DOMAIN c : c[i] = "rec"}

LEMMA MarksFinite ==
  ASSUME NEW s \in Seq(Pieces)
  PROVE  /\ IsFiniteSet(Marks(s)) /\ Records(s) = Cardinality(Marks(s)) /\ Records(s) \in Nat
         /\ IsFiniteSet({i \in Sound(s) : s[i] = "rec"}) /\ Whole(s) \in Nat /\ Whole(s) <= Records(s)
<1>1. Len(s) \in Nat /\ DOMAIN s = 1..Len(s)
  BY LenProperties
<1>2. IsFiniteSet(1..Len(s))
  BY <1>1, FS_Interval
<1>3. Marks(s) \in SUBSET (1..Len(s)) /\ {i \in Sound(s) : s[i] = "rec"} \in SUBSET Marks(s)
  BY <1>1 DEF Marks, Sound
<1>4. IsFiniteSet(Marks(s)) /\ IsFiniteSet({i \in Sound(s) : s[i] = "rec"})
  BY <1>2, <1>3, FS_Subset
<1>5. Records(s) \in Nat /\ Whole(s) \in Nat
  BY <1>4, FS_CardinalityType DEF Records, Marks, Whole
<1>6. Records(s) = Cardinality(Marks(s))
  BY DEF Records, Marks
<1>7. Whole(s) <= Cardinality(Marks(s))
  BY <1>3, <1>4, FS_Subset DEF Whole
<1> QED BY <1>4, <1>5, <1>6, <1>7

LEMMA NoRecords == Records(<<>>) = 0 /\ Whole(<<>>) = 0
<1>1. Marks(<<>>) = {} /\ {i \in Sound(<<>>) : <<>>[i] = "rec"} = {}
  BY EmptySeq, LenProperties DEF Marks, Sound
<1> QED BY <1>1, FS_EmptySet DEF Records, Marks, Whole

LEMMA AllSound ==
  ASSUME NEW s \in Seq(Pieces), "junk" \notin ToSet(s)
  PROVE  Whole(s) = Records(s)
<1>1. DOMAIN s = 1..Len(s) /\ Len(s) \in Nat
  BY LenProperties
<1>2. \A i \in DOMAIN s : s[i] # "junk"
  BY DEF ToSet
<1>3. Sound(s) = DOMAIN s
  BY <1>1, <1>2 DEF Sound
<1> QED BY <1>3 DEF Whole, Records

LEMMA RecordsAdd ==
  ASSUME NEW s \in Seq(Pieces), NEW t \in Seq(Pieces)
  PROVE  s \o t \in Seq(Pieces) /\ Records(s \o t) = Records(s) + Records(t)
<1> DEFINE n == Len(s)
           Moved == {n + i : i \in Marks(t)}
           f == [i \in Marks(t) |-> n + i]
<1>1. n \in Nat /\ Len(t) \in Nat /\ DOMAIN s = 1..n /\ DOMAIN t = 1..Len(t)
  BY LenProperties
<1>2. /\ s \o t \in Seq(Pieces) /\ Len(s \o t) = n + Len(t)
      /\ \A i \in 1 .. n + Len(t) : (s \o t)[i] = IF i <= n THEN s[i] ELSE t[i - n]
  BY ConcatProperties
<1>3. DOMAIN (s \o t) = 1 .. n + Len(t)
  BY <1>2, LenProperties
<1>4. Marks(s) \in SUBSET (1..n) /\ Marks(t) \in SUBSET (1..Len(t))
  BY <1>1 DEF Marks
<1>5. Marks(s \o t) = Marks(s) \cup Moved
  <2>1. ASSUME NEW i \in Marks(s \o t) PROVE i \in Marks(s) \cup Moved
    <3>1. i \in 1 .. n + Len(t) /\ (s \o t)[i] = "rec"
      BY <2>1, <1>3 DEF Marks
    <3>2. CASE i <= n
      BY <1>1, <1>2, <3>1, <3>2 DEF Marks
    <3>3. CASE ~(i <= n)
      <4>1. i - n \in 1..Len(t) /\ t[i - n] = "rec" /\ i = n + (i - n)
        BY <1>1, <1>2, <3>1, <3>3
      <4>2. i - n \in Marks(t)
        BY <1>1, <4>1 DEF Marks
      <4> QED BY <4>1, <4>2
    <3> QED BY <3>2, <3>3
  <2>2. ASSUME NEW i \in Marks(s) PROVE i \in Marks(s \o t)
    <3>1. i \in 1..n /\ s[i] = "rec"
      BY <1>1 DEF Marks
    <3>2. i \in 1 .. n + Len(t) /\ i <= n
      BY <1>1, <3>1
    <3> QED BY <1>2, <1>3, <3>1, <3>2 DEF Marks
  <2>3. ASSUME NEW i \in Marks(t) PROVE n + i \in Marks(s \o t)
    <3>1. i \in 1..Len(t) /\ t[i] = "rec"
      BY <1>1 DEF Marks
    <3>2. n + i \in 1 .. n + Len(t) /\ ~(n + i <= n) /\ (n + i) - n = i
      BY <1>1, <3>1
    <3> QED BY <1>2, <1>3, <3>1, <3>2 DEF Marks
  <2> QED BY <2>1, <2>2, <2>3
<1>6. f \in Bijection(Marks(t), Moved)
  <2>1. f \in [Marks(t) -> Moved]
    OBVIOUS
  <2>2. \A a, b \in Marks(t) : f[a] = f[b] => a = b
    BY <1>1, <1>4
  <2>3. \A m \in Moved : \E i \in Marks(t) : f[i] = m
    OBVIOUS
  <2> QED BY <2>1, <2>2, <2>3, Fun_IsBij
<1>7. IsFiniteSet(Moved) /\ Cardinality(Moved) = Cardinality(Marks(t))
  <2>1. ExistsBijection(Marks(t), Moved)
    BY <1>6 DEF ExistsBijection
  <2> QED BY <2>1, MarksFinite, FS_Bijection
<1>8. Marks(s) \cap Moved = {}
  BY <1>1, <1>4
<1>9. Cardinality(Marks(s) \cup Moved) = Cardinality(Marks(s)) + Cardinality(Moved)
  <2>1. Cardinality(Marks(s) \cap Moved) = 0
    BY <1>8, FS_EmptySet
  <2>2. Cardinality(Marks(s)) \in Nat /\ Cardinality(Moved) \in Nat
    BY <1>7, MarksFinite
  <2>3. IsFiniteSet(Marks(s)) /\ IsFiniteSet(Moved)
    BY <1>7, MarksFinite
  <2>4. Cardinality(Marks(s) \cup Moved)
          = Cardinality(Marks(s)) + Cardinality(Moved) - Cardinality(Marks(s) \cap Moved)
    BY <2>3, FS_Union
  <2> HIDE DEF Moved
  <2> QED BY <2>1, <2>2, <2>4
<1> QED BY <1>2, <1>5, <1>7, <1>9, MarksFinite

LEMMA RecordsCut ==
  ASSUME NEW s \in Seq(Pieces), NEW n \in 1..Len(s)
  PROVE  /\ SubSeq(s, 1, n) \in Seq(Pieces) /\ SubSeq(s, n + 1, Len(s)) \in Seq(Pieces)
         /\ Len(SubSeq(s, 1, n)) = n /\ Len(SubSeq(s, n + 1, Len(s))) = Len(s) - n
         /\ Records(s) = Records(SubSeq(s, 1, n)) + Records(SubSeq(s, n + 1, Len(s)))
<1>1. Len(s) \in Nat /\ n \in Nat /\ \A i \in 1..Len(s) : s[i] \in Pieces
  BY LenProperties, ElementOfSeq
<1>2. SubSeq(s, 1, n) \in Seq(Pieces) /\ Len(SubSeq(s, 1, n)) = n
  BY <1>1, SubSeqProperties
<1>3. SubSeq(s, n + 1, Len(s)) \in Seq(Pieces) /\ Len(SubSeq(s, n + 1, Len(s))) = Len(s) - n
  BY <1>1, SubSeqProperties
<1>4. s = SubSeq(s, 1, n) \o SubSeq(s, n + 1, Len(s))
  BY <1>1, ConcatAdjacentSubSeq, SubSeqFull
<1>5. Records(SubSeq(s, 1, n) \o SubSeq(s, n + 1, Len(s)))
        = Records(SubSeq(s, 1, n)) + Records(SubSeq(s, n + 1, Len(s)))
  BY <1>2, <1>3, RecordsAdd
<1> QED BY <1>2, <1>3, <1>4, <1>5

LEMMA RecordsAppend ==
  ASSUME NEW s \in Seq(Pieces), NEW x \in Pieces
  PROVE  /\ Append(s, x) \in Seq(Pieces) /\ Len(Append(s, x)) = Len(s) + 1
         /\ Records(Append(s, x)) = Records(s) + IF x = "rec" THEN 1 ELSE 0
<1>1. <<x>> \in Seq(Pieces) /\ Append(s, x) = s \o <<x>>
  BY AppendIsConcat
<1>2. Marks(<<x>>) = IF x = "rec" THEN {1} ELSE {}
  BY DEF Marks
<1>3. Records(<<x>>) = IF x = "rec" THEN 1 ELSE 0
  BY <1>2, FS_Singleton, FS_EmptySet DEF Records, Marks
<1>4. Records(Append(s, x)) = Records(s) + Records(<<x>>)
  BY <1>1, RecordsAdd
<1>5. Append(s, x) \in Seq(Pieces) /\ Len(Append(s, x)) = Len(s) + 1
  BY AppendProperties
<1> QED BY <1>3, <1>4, <1>5

\* As long as nothing fails and no join gives up, each record is in the file, in
\* the reader's chunk or in the pipe, and the reader ends with the pipe empty. So
\* what had been emitted when stop() asked is in the file when it reports.
Carried ==
  /\ pipe \in Seq(Pieces) /\ chunk \in Seq(Pieces)
  /\ file \in Nat /\ counted \in Nat /\ asked \in Nat /\ file <= counted
  /\ reader \in {"unborn", "look", "feed", "write"} \cup Past
  /\ reader \notin {"feed", "write"} => chunk = <<>>
  /\ reader = "unborn" => ~head
  /\ Errs => reader \in Past
  /\ stopReading => forced
  /\ reader = "dying" => forced
  /\ closed /\ reader \in {"feed", "write"} => forced
  /\ main \in {"reap", "claim", "killed"} /\ ~forced => ~Alive
  /\ halted /\ ~Errs /\ ~forced => halting["main"] = "join" \/ ~Alive
  /\ ~Errs /\ ~forced =>
       /\ reader = "write" => counted = file + Whole(chunk)
       /\ reader # "write" => counted = file
       /\ ~requested /\ reader \in Past => pipe = <<>> /\ proc \in Gone
       /\ requested => IF reader \in Past THEN file >= asked
                       ELSE file + Records(chunk) + Records(pipe) >= asked
  /\ main \in {"report", "done"} => closed
  /\ report # {} => main = "done"
  /\ \A r \in report : /\ file = r.disk
                       /\ r.valid /\ ~forced => r.records = r.disk /\ r.disk >= asked

LEMMA CarriedInit == Init => Carried
<1> SUFFICES ASSUME Init PROVE Carried
  OBVIOUS
<1>1. <<>> \in Seq(Pieces)
  BY EmptySeq
<1> QED BY <1>1 DEF Init, Carried, Past, Errs

LEMMA HaltKeepsCarried ==
  ASSUME Owned, Losses, Carried, NEW t \in Threads,
         HaltEnter(t) \/ HaltJoin(t) \/ HaltClose(t) \/ HaltWait(t)
  PROVE  Carried'
<1>0. /\ UNCHANGED <<pipe, readVars, mainVars, asked, Records(chunk), Records(pipe), Whole(chunk)>>
      /\ proc \in Gone => proc' = proc
  <2>1. UNCHANGED <<pipe, readVars, mainVars, asked>>
    BY DEF HaltEnter, HaltJoin, HaltClose, HaltWait, procVars, histVars
  <2>2. proc \in Gone => proc' = proc
    <3>1. CASE HaltEnter(t) \/ HaltJoin(t) \/ HaltClose(t)
      BY <3>1 DEF HaltEnter, HaltJoin, HaltClose, procVars
    <3>2. CASE HaltWait(t)
      BY <3>2 DEF HaltWait, Gone
    <3> QED BY <3>1, <3>2
  <2> QED BY <2>1, <2>2 DEF readVars
<1>1. /\ UNCHANGED <<reader, chunk, head, counted, file, streamErr, readErr>>
      /\ UNCHANGED <<main, requested, report, closed>>
  BY <1>0 DEF readVars, mainVars
<1>2. forced => forced'
  BY DEF HaltEnter, HaltJoin, HaltClose, HaltWait, histVars
<1>3. stopReading' => forced'
  BY DEF HaltEnter, HaltJoin, HaltClose, HaltWait, histVars, Carried
<1>4. halted' /\ ~Errs /\ ~forced' => halting'["main"] = "join" \/ ~Alive
  <2> USE DEF Owned, Threads, Carried, Losses
  <2>1. CASE HaltEnter(t)
    BY <2>1 DEF HaltEnter, At, To, Errs, Stages, Places, histVars
  <2>2. CASE HaltJoin(t)
    BY <2>2 DEF HaltJoin, At, To, Errs, Stages, Places, Alive
  <2>3. CASE HaltClose(t)
    BY <2>3 DEF HaltClose, At, To, histVars
  <2>4. CASE HaltWait(t)
    <3>1. UNCHANGED <<halted, forced>> /\ halting[t] # "join"
          /\ \E x \in Places : halting' = [halting EXCEPT ![t] = x]
      BY <2>4 DEF HaltWait, Release, At, To, Stages, Places, histVars
    <3> QED BY <3>1
  <2> QED BY <2>1, <2>2, <2>3, <2>4
<1> QED BY <1>0, <1>1, <1>2, <1>3, <1>4 DEF Carried, Errs, Alive

LEMMA ReaderKeepsCarried == Owned /\ Losses /\ Carried /\ ReaderThread => Carried'
<1> SUFFICES ASSUME Owned, Losses, Carried, ReaderThread PROVE Carried'
  OBVIOUS
<1>1. /\ UNCHANGED <<proc, emitted, outOpen, draining, stopReading, halted, lock, method>>
      /\ UNCHANGED <<mainVars, histVars>> /\ halting'["main"] = halting["main"]
  BY DEF ReaderThread, Look, Feed, ReadFails, ReaderEnds, procVars, haltVars, Owned, Threads
<1>2. UNCHANGED <<main, requested, report, closed, forced, asked>>
  BY <1>1 DEF mainVars, histVars
<1>3. pipe \in Seq(Pieces) /\ chunk \in Seq(Pieces) /\ file \in Nat /\ counted \in Nat /\ asked \in Nat
      /\ Whole(chunk) \in Nat /\ Records(chunk) \in Nat /\ Records(pipe) \in Nat
      /\ Len(pipe) \in Nat /\ <<>> \in Seq(Pieces)
  BY MarksFinite, LenProperties, EmptySeq DEF Carried
<1>4. CASE Look
  <2>0. UNCHANGED <<head, counted, file, dirty, streamErr, readErr>> /\ reader = "look" /\ chunk = <<>>
    BY <1>4 DEF Look, Carried, Past
  <2>1. CASE stopReading /\ reader' = "ending" /\ UNCHANGED <<chunk, pipe>>
    BY <1>1, <1>2, <2>0, <2>1 DEF Carried, Past, Alive, Errs
  <2>2. CASE Drained /\ reader' = "ending" /\ UNCHANGED <<chunk, pipe>>
    <3>1. pipe = <<>> /\ (draining \/ proc \in Gone)
      BY <2>2 DEF Drained
    <3>2. Records(chunk) = 0 /\ Records(pipe) = 0
      BY <2>0, <3>1, NoRecords
    <3>3. draining /\ ~requested => Errs
      BY DEF Losses
    <3> QED BY <1>1, <1>2, <1>3, <2>0, <2>2, <3>1, <3>2, <3>3 DEF Carried, Past, Alive, Errs
  <2>3. ASSUME NEW n \in 1..Len(pipe), chunk' = SubSeq(pipe, 1, n),
               pipe' = SubSeq(pipe, n + 1, Len(pipe)), reader' = "feed"
        PROVE  Carried'
    <3>1. /\ chunk' \in Seq(Pieces) /\ pipe' \in Seq(Pieces)
          /\ Records(pipe) = Records(chunk') + Records(pipe')
      BY <1>3, <2>3, RecordsCut
    <3>2. Records(chunk) = 0 /\ Records(chunk') \in Nat /\ Records(pipe') \in Nat
      BY <2>0, <3>1, NoRecords, MarksFinite
    <3>3. Records(chunk)' = Records(chunk') /\ Records(pipe)' = Records(pipe')
      OBVIOUS
    <3>4. closed => forced
      BY <2>0 DEF Losses, Carried, Alive, Past
    <3> QED BY <3>4, <1>1, <1>2, <1>3, <2>0, <2>3, <3>1, <3>2, <3>3 DEF Carried, Past, Alive, Errs
  <2> QED BY <1>4, <2>1, <2>2, <2>3 DEF Look
<1>5. CASE Feed
  <2>0. (streamErr => streamErr') /\ (head => head') /\ UNCHANGED <<pipe, readErr>>
        /\ reader \in {"feed", "write"} /\ chunk' \in {chunk, <<>>} /\ ~Errs
    BY <1>5, FeedOnlyAdds DEF Feed, procVars, Carried, Past
  <2>1. CASE reader = "feed"
    <3>1. reader' = "write" /\ counted' = counted + Whole(chunk)
          /\ UNCHANGED <<chunk, head, file, streamErr>>
      BY <1>5, <2>1 DEF Feed
    <3>2. UNCHANGED <<Whole(chunk), Records(chunk), Records(pipe)>>
      BY <2>0, <3>1
    <3> QED BY <1>1, <1>2, <1>3, <2>0, <2>1, <3>1, <3>2 DEF Carried, Past, Alive, Errs
  <2>2. CASE reader = "write" /\ ~closed
    <3>1. chunk' = <<>> /\ file' = counted /\ counted' = counted
          /\ reader' = (IF streamErr' THEN "ending" ELSE "look")
      BY <1>5, <2>2 DEF Feed
    <3>2. ~streamErr' => "junk" \notin ToSet(chunk)
      <4>1. streamErr' = (streamErr \/ "junk" \in ToSet(chunk))
        BY <1>5, <2>2 DEF Feed
      <4> QED BY <4>1, Zenon
    <3>3. ~streamErr' => Whole(chunk) = Records(chunk)
      BY <1>3, <3>2, AllSound
    <3>4. Records(chunk') = 0 /\ Records(chunk)' = Records(chunk') /\ UNCHANGED Records(pipe)
      BY <2>0, <3>1, NoRecords
    <3> QED BY <1>1, <1>2, <1>3, <2>0, <2>2, <3>1, <3>3, <3>4 DEF Carried, Past, Alive, Errs
  <2>3. CASE reader = "write" /\ closed
    <3>1. reader' = "dying" /\ chunk' = <<>> /\ UNCHANGED <<head, counted, file, streamErr>>
      BY <1>5, <2>3 DEF Feed
    <3> QED BY <1>1, <1>2, <1>3, <2>0, <2>3, <3>1 DEF Carried, Past, Alive, Errs
  <2> QED BY <2>0, <2>1, <2>2, <2>3
<1>6. CASE ReadFails
  <2>0. reader \in {"look", "write"}
    BY <1>6 DEF ReadFails
  <2>1. /\ readErr' /\ reader' = "ending" /\ chunk' = <<>> /\ UNCHANGED <<pipe, head, counted>>
        /\ file' = file \/ (file' \in file..counted /\ ~closed)
    BY <1>6 DEF ReadFails, procVars
  <2>2. file' \in Nat /\ file' <= counted
    BY <1>3, <2>1 DEF Carried
  <2>3. file' = file \/ (main \notin {"report", "done"} /\ report = {})
    BY <2>1 DEF Carried
  <2> QED BY <1>1, <1>2, <1>3, <2>0, <2>1, <2>2, <2>3 DEF Carried, Past, Alive, Errs
<1>7. CASE ReaderEnds
  <2>1. /\ UNCHANGED <<pipe, chunk, head, counted, file, streamErr, readErr>>
        /\ reader \in {"ending", "dying", "spawning"} /\ reader' \in {"spawning", "gone"}
    BY <1>7 DEF ReaderEnds, procVars, Past
  <2>2. UNCHANGED <<Records(chunk), Records(pipe), Whole(chunk)>>
    BY <2>1
  <2> QED BY <1>1, <1>2, <1>3, <2>1, <2>2 DEF Carried, Past, Alive, Errs
<1> QED BY <1>4, <1>5, <1>6, <1>7 DEF ReaderThread

LEMMA StopKeepsCarried ==
  Bound /\ Owned /\ Losses /\ Carried /\ (Main \/ Stop) => Carried'
<1> SUFFICES ASSUME Bound, Owned, Losses, Carried, Main \/ Stop PROVE Carried'
  OBVIOUS
<1>1. UNCHANGED <<pipe, chunk, head, counted, streamErr, readErr, draining, stopReading>>
      /\ (forced => forced')
  BY DEF Main, Stop, Start, ReadFailed, Decide, Collect, Claim, HaltReturns, Close, Report, Again,
         procVars, readVars, haltVars, histVars
<1>2. pipe \in Seq(Pieces) /\ chunk \in Seq(Pieces) /\ file \in Nat /\ counted \in Nat /\ asked \in Nat
      /\ Whole(chunk) \in Nat /\ Records(chunk) \in Nat /\ Records(pipe) \in Nat
      /\ UNCHANGED <<Whole(chunk), Records(chunk), Records(pipe)>>
  BY <1>1, MarksFinite DEF Carried
<1> USE DEF Carried, Past, Alive, Errs
<1>3. CASE Start
  <2>1. UNCHANGED <<file, requested, halted, halting, report, asked, forced>>
    BY <1>3 DEF Start, haltVars, histVars
  <2>2. CASE main = "popen"
    BY <1>1, <1>2, <1>3, <2>1, <2>2 DEF Start, Losses, Bound, Gone
  <2>3. CASE main = "job"
    <3>1. ~requested /\ reader = "unborn" /\ ~closed /\ ~halted
      BY <2>3 DEF Losses
    <3> QED BY <1>1, <1>2, <1>3, <2>1, <2>3, <3>1 DEF Start
  <2>4. CASE main = "ready"
    BY <1>1, <1>2, <1>3, <2>1, <2>4 DEF Start
  <2> QED BY <1>3, <2>2, <2>3, <2>4 DEF Start
<1>4. CASE ReadFailed \/ Stop \/ Again
  <2>1. /\ UNCHANGED <<proc, reader, file, requested, halted, halting, report, closed, asked, forced>>
        /\ main \in {"stop", "recording", "raised"} /\ main' \in {"decide", "stop", "abandoned"}
    BY <1>4 DEF ReadFailed, Stop, Again, procVars, readVars, haltVars, histVars
  <2> QED BY <1>1, <1>2, <2>1
<1>5. CASE Decide
  <2>1. /\ UNCHANGED <<proc, reader, file, halted, report, closed, forced>> /\ requested'
        /\ asked' = (IF requested THEN asked ELSE file + Records(chunk \o pipe))
        /\ main = "decide" /\ main' \in {"collect", "halt"}
        /\ halting'["main"] # "join" /\ halting["main"] # "join"
    BY <1>5 DEF Decide, To, procVars, readVars, Losses, Owned, Threads
  <2>2. asked' \in Nat /\ (~requested => asked' = file + Records(chunk) + Records(pipe))
    BY <1>2, <2>1, RecordsAdd
  <2>3. reader \in Past /\ pipe = <<>> => Records(chunk) = 0 /\ Records(pipe) = 0
    BY NoRecords
  <2> QED BY <1>1, <1>2, <2>1, <2>2, <2>3
<1>6. CASE Collect
  <2>1. /\ UNCHANGED <<proc, reader, file, requested, halted, halting, report, closed, asked>>
        /\ main \in {"collect", "reap"} /\ main' \in {"reap", "claim"}
        /\ main = "reap" \/ ~Alive \/ forced'
    BY <1>6 DEF Collect, procVars, readVars, haltVars
  <2> QED BY <1>1, <1>2, <2>1
<1>7. CASE Claim
  <2>1. /\ UNCHANGED <<reader, file, requested, halting, report, closed, asked, forced>>
        /\ main \in {"claim", "killed"} /\ main' \in {"close", "killed", "raised"}
        /\ proc \in Gone => proc' = proc
    BY <1>7 DEF Claim, readVars, histVars, Gone
  <2> QED BY <1>1, <1>2, <2>1 DEF Losses
<1>8. CASE HaltReturns
  <2>1. /\ UNCHANGED <<proc, reader, file, requested, halted, report, closed, asked, forced>>
        /\ main = "halt" /\ main' \in {"close", "raised"}
        /\ halting'["main"] # "join" /\ halting["main"] # "join"
    BY <1>8 DEF HaltReturns, At, To, procVars, readVars, histVars, Owned, Threads
  <2> QED BY <1>1, <1>2, <2>1
<1>9. CASE Close
  <2>1. /\ UNCHANGED <<reader, requested, halted, halting, report, asked, forced>> /\ closed'
        /\ main = "close" /\ main' \in {"report", "raised"}
        /\ proc \in Gone => proc' = proc
    BY <1>9 DEF Close, KillOnClose, Shut, haltVars, histVars, Gone
  <2>2. file' \in Nat /\ file' <= counted /\ (file' = file \/ Errs)
    BY <1>2, <1>9 DEF Close, Losses
  <2>3. reader \in {"feed", "write"} => forced
    BY <2>1 DEF Losses
  <2> QED BY <1>1, <1>2, <2>1, <2>2, <2>3
<1>10. CASE Report
  <2>1. /\ UNCHANGED <<proc, reader, file, requested, halted, halting, closed, asked, forced>>
        /\ main = "report" /\ main' = "done"
        /\ report' = {[method |-> method, valid |-> Valid, records |-> counted, disk |-> file]}
    BY <1>10 DEF Report, procVars, readVars, haltVars, histVars
  <2>2. Valid /\ ~forced => counted = file /\ file >= asked
    BY <2>1 DEF Losses, Valid
  <2> QED BY <1>1, <1>2, <2>1, <2>2
<1> QED BY <1>3, <1>4, <1>5, <1>6, <1>7, <1>8, <1>9, <1>10 DEF Main

LEMMA CarriedStep == Bound /\ Owned /\ Losses /\ Carried /\ [Next]_vars => Carried'
<1> SUFFICES ASSUME Bound, Owned, Losses, Carried, [Next]_vars PROVE Carried'
  OBVIOUS
<1>1. CASE Emit \/ Exit
  <2>1. UNCHANGED <<readVars, haltVars, mainVars, asked, forced>> /\ proc = "live"
    BY <1>1 DEF Emit, Exit, histVars
  <2>2. pipe' = pipe \/ \E x \in Pieces : pipe' = Append(pipe, x)
    BY <1>1 DEF Emit, Exit, Pieces
  <2>3. pipe' \in Seq(Pieces) /\ Records(pipe)' >= Records(pipe) /\ Records(pipe)' \in Nat
    <3>1. pipe \in Seq(Pieces) /\ Records(pipe) \in Nat
      BY MarksFinite DEF Carried
    <3>2. CASE pipe' = pipe
      BY <3>1, <3>2
    <3>3. ASSUME NEW x \in Pieces, pipe' = Append(pipe, x)
          PROVE  pipe' \in Seq(Pieces) /\ Records(pipe') >= Records(pipe) /\ Records(pipe') \in Nat
      BY <3>1, <3>3, RecordsAppend
    <3> QED BY <2>2, <3>2, <3>3
  <2>4. UNCHANGED <<Records(chunk), Whole(chunk)>> /\ Records(chunk) \in Nat /\ Records(pipe) \in Nat
    BY <2>1, MarksFinite DEF readVars, Carried
  <2> QED BY <2>1, <2>3, <2>4 DEF Carried, Past, Alive, Errs, Gone, readVars, haltVars, mainVars
<1>2. CASE UNCHANGED vars
  <2>1. UNCHANGED <<Records(pipe), Records(chunk), Whole(chunk)>>
    BY <1>2 DEF vars, procVars, readVars
  <2> QED BY <1>2, <2>1 DEF vars, Carried, Alive, Errs, procVars, readVars, haltVars, mainVars, histVars
<1> QED BY <1>1, <1>2, HaltKeepsCarried, ReaderKeepsCarried, StopKeepsCarried DEF Next, Halt

\* The report of a stop is true of the private file, and stays true: no thread
\* that outlives stop() writes to it, and a file reported valid holds the records
\* counted, those emitted before stop() was called among them, unless the reader
\* was too slow for its join.
THEOREM FileMatchesReport == Spec => []ReportIsTrue
<1>1. Init => Bound
  BY DEF Init, Bound, Gone
<1>2. Carried => ReportIsTrue
  BY DEF Carried, ReportIsTrue
<1> QED BY <1>1, <1>2, OwnedInit, OwnedStep, BoundStep, LossesInit, LossesStep, CarriedInit,
           CarriedStep, PTL DEF Spec

-----------------------------------------------------------------------------
\* What TypeOK says of the counters rests on where the records are: each is
\* counted once, and it was emitted after the header.
Counted ==
  /\ emitted \in 0..MaxRecords + 1
  /\ Len(pipe) <= PipeSize + 1 /\ (proc = "live" => Len(pipe) <= PipeSize)
  /\ proc = "none" => pipe = <<>>
  /\ reader \in {"feed", "write"} => chunk # <<>>
  /\ counted + (IF reader = "feed" THEN Records(chunk) ELSE 0) + Records(pipe)
       <= IF emitted = 0 THEN 0 ELSE emitted - 1

Flags ==
  /\ {outOpen, head, dirty, closed, streamErr, readErr, ended, draining, stopReading, halted,
      failed, requested, job, starting, unasked, forced} \subseteq BOOLEAN
  /\ method \in {None, "exited_after_pipe_close", "terminated_after_grace",
                 "killed_after_grace", "exited_before_stop"}
  /\ calls \in 1..2 /\ faults \in 0..MaxFaults

OneReport == report = {} \/ \E r \in report : report = {r}

LEMMA CountedInit == Init => Counted /\ Flags /\ OneReport
<1> SUFFICES ASSUME Init PROVE Counted /\ Flags /\ OneReport
  OBVIOUS
<1>1. Len(<<>>) = 0 /\ Records(<<>>) = 0
  BY EmptySeq, NoRecords
<1>2. Counted
  BY <1>1, BoundsAreNat DEF Init, Counted
<1>3. Flags
  <2>1. {outOpen, head, dirty, closed, streamErr, readErr, ended, draining, stopReading, halted,
         failed, requested, job, starting, unasked, forced} \subseteq BOOLEAN
    BY DEF Init
  <2>2. calls \in 1..2 /\ faults \in 0..MaxFaults /\ method = None /\ report = {}
    BY BoundsAreNat DEF Init
  <2> QED BY <2>1, <2>2 DEF Flags
<1>4. OneReport
  BY DEF Init, OneReport
<1> QED BY <1>2, <1>3, <1>4

LEMMA CountedStep == Carried /\ Bound /\ Losses /\ Counted /\ [Next]_vars => Counted'
<1> SUFFICES ASSUME Carried, Bound, Losses, Counted, [Next]_vars PROVE Counted'
  OBVIOUS
<1>1. /\ pipe \in Seq(Pieces) /\ chunk \in Seq(Pieces) /\ counted \in Nat
      /\ Records(chunk) \in Nat /\ Records(pipe) \in Nat /\ Len(pipe) \in Nat
      /\ Whole(chunk) \in Nat /\ Whole(chunk) <= Records(chunk)
  BY MarksFinite, LenProperties DEF Carried
<1>2. CASE Emit
  <2>1. UNCHANGED <<proc, reader, chunk, counted, Records(chunk)>> /\ proc = "live" /\ Len(pipe) < PipeSize
    BY <1>2 DEF Emit, readVars
  <2>2. ASSUME NEW x \in Pieces, pipe' = Append(pipe, x)
        PROVE  Len(pipe)' = Len(pipe) + 1 /\ Records(pipe)' = Records(pipe) + IF x = "rec" THEN 1 ELSE 0
    <3>1. Len(pipe') = Len(pipe) + 1 /\ Records(pipe') = Records(pipe) + IF x = "rec" THEN 1 ELSE 0
      BY <1>1, <2>2, RecordsAppend
    <3> QED BY <3>1
  <2>3. CASE emitted = 0 /\ emitted' = 1 /\ pipe' = Append(pipe, "head")
    BY <1>1, <2>1, <2>2, <2>3, BoundsAreNat DEF Counted, Pieces
  <2>4. CASE emitted \in 1..MaxRecords /\ emitted' = emitted + 1 /\ pipe' = Append(pipe, "rec")
    BY <1>1, <2>1, <2>2, <2>4, BoundsAreNat DEF Counted, Pieces
  <2>5. CASE pipe' = Append(pipe, "junk") /\ UNCHANGED emitted
    BY <1>1, <2>1, <2>2, <2>5, BoundsAreNat DEF Counted, Pieces
  <2> QED BY <1>2, <2>3, <2>4, <2>5 DEF Emit
<1>3. CASE Exit
  <2>1. UNCHANGED <<reader, chunk, counted, emitted, Records(chunk)>>
        /\ proc = "live" /\ proc' \in {"exited", "crashed"}
    BY <1>3 DEF Exit, readVars
  <2>2. CASE pipe' = Append(pipe, "torn")
    <3>1. Len(pipe') = Len(pipe) + 1 /\ Records(pipe') = Records(pipe)
      BY <1>1, <2>2, RecordsAppend DEF Pieces
    <3> QED BY <1>1, <2>1, <3>1, BoundsAreNat DEF Counted
  <2>3. CASE UNCHANGED pipe
    BY <1>1, <2>1, <2>3, BoundsAreNat DEF Counted
  <2> QED BY <1>3, <2>2, <2>3 DEF Exit
<1>4. CASE ReaderThread
  <2>0. UNCHANGED <<proc, emitted>>
    BY <1>4 DEF ReaderThread, Look, Feed, ReadFails, ReaderEnds, procVars
  <2>1. CASE Look
    <3>1. reader = "look" /\ UNCHANGED counted
      BY <2>1 DEF Look
    <3>2. CASE reader' = "ending" /\ UNCHANGED <<chunk, pipe>>
      BY <1>1, <2>0, <3>1, <3>2 DEF Counted
    <3>3. ASSUME NEW n \in 1..Len(pipe), chunk' = SubSeq(pipe, 1, n),
                 pipe' = SubSeq(pipe, n + 1, Len(pipe)), reader' = "feed"
          PROVE  Counted'
      <4>1. /\ chunk' \in Seq(Pieces) /\ pipe' \in Seq(Pieces) /\ Len(chunk') = n
            /\ Len(pipe') = Len(pipe) - n /\ Records(pipe) = Records(chunk') + Records(pipe')
        BY <1>1, <3>3, RecordsCut
      <4>2. chunk' # <<>> /\ pipe # <<>>
        <5>1. Len(<<>>) = 0
          BY EmptySeq
        <5>2. Len(chunk') # 0 /\ Len(pipe) # 0
          BY <1>1, <4>1
        <5> QED BY <5>1, <5>2
      <4>3. Records(chunk') \in Nat /\ Records(pipe') \in Nat
        BY <4>1, MarksFinite
      <4>4. proc # "none" /\ Len(pipe') <= Len(pipe) /\ Len(pipe') \in Nat
        BY <1>1, <4>1, <4>2 DEF Counted
      <4>5. Records(pipe)' = Records(pipe') /\ Records(chunk)' = Records(chunk') /\ Len(pipe)' = Len(pipe')
        OBVIOUS
      <4>6. /\ Len(pipe)' <= PipeSize + 1 /\ (proc' = "live" => Len(pipe)' <= PipeSize)
            /\ proc' # "none" /\ emitted' \in 0..MaxRecords + 1 /\ chunk' # <<>>
        BY <1>1, <2>0, <4>2, <4>4, <4>5, BoundsAreNat DEF Counted
      <4>7. counted' + (IF reader' = "feed" THEN Records(chunk)' ELSE 0) + Records(pipe)'
              <= IF emitted' = 0 THEN 0 ELSE emitted' - 1
        <5>1. reader # "feed" /\ reader' = "feed" /\ counted' = counted /\ emitted' = emitted
          BY <2>0, <3>1, <3>3
        <5> QED BY <1>1, <4>1, <4>3, <4>5, <5>1, BoundsAreNat DEF Counted
      <4> QED BY <4>6, <4>7 DEF Counted
    <3> QED BY <2>1, <3>2, <3>3 DEF Look
  <2>2. CASE Feed
    <3>0. UNCHANGED <<pipe, Records(pipe)>>
      BY <2>2 DEF Feed, procVars
    <3>1. CASE reader = "feed" /\ reader' = "write" /\ counted' = counted + Whole(chunk) /\ UNCHANGED chunk
      BY <1>1, <2>0, <3>0, <3>1, BoundsAreNat DEF Counted
    <3>2. CASE reader = "write" /\ reader' \in {"ending", "look", "dying"} /\ UNCHANGED counted
      BY <1>1, <2>0, <3>0, <3>2, BoundsAreNat DEF Counted
    <3> QED BY <2>2, <3>1, <3>2 DEF Feed
  <2>3. CASE ReadFails \/ ReaderEnds
    <3>1. UNCHANGED <<pipe, counted>> /\ reader' \in {"ending", "spawning", "gone"}
      BY <2>3 DEF ReadFails, ReaderEnds, procVars
    <3> QED BY <1>1, <2>0, <3>1, BoundsAreNat DEF Counted
  <2> QED BY <1>4, <2>1, <2>2, <2>3 DEF ReaderThread
<1>5. CASE Halt
  <2>1. PICK t \in Threads : HaltEnter(t) \/ HaltJoin(t) \/ HaltClose(t) \/ HaltWait(t)
    BY <1>5 DEF Halt
  <2>2. UNCHANGED <<emitted, pipe, readVars>>
    BY <2>1 DEF HaltEnter, HaltJoin, HaltClose, HaltWait, procVars
  <2>3. proc' = "live" \/ proc' = "none" => proc' = proc
    <3>1. CASE HaltEnter(t) \/ HaltJoin(t) \/ HaltClose(t)
      BY <3>1 DEF HaltEnter, HaltJoin, HaltClose, procVars
    <3>2. CASE HaltWait(t)
      BY <3>2 DEF HaltWait
    <3> QED BY <2>1, <3>1, <3>2
  <2> QED BY <2>2, <2>3 DEF Counted, readVars
<1>6. CASE Main \/ Stop
  <2>1. /\ UNCHANGED <<emitted, pipe, chunk, counted, Records(chunk), Records(pipe)>>
        /\ reader' = reader \/ (reader' = "look" /\ reader = "unborn")
        /\ proc' \in {"live", "none"} => proc' = proc \/ proc = "none"
    <3>1. UNCHANGED <<emitted, pipe, chunk, counted>>
      BY <1>6 DEF Main, Stop, Start, ReadFailed, Decide, Collect, Claim, HaltReturns, Close, Report,
                  Again, procVars, readVars
    <3>2. reader' = reader \/ (reader' = "look" /\ reader = "unborn")
      <4>1. CASE Start
        BY <4>1 DEF Start, Losses
      <4>2. CASE ~Start
        BY <1>6, <4>2 DEF Main, Stop, ReadFailed, Decide, Collect, Claim, HaltReturns, Close, Report,
                          Again, readVars
      <4> QED BY <4>1, <4>2
    <3>3. proc' \in {"live", "none"} => proc' = proc \/ proc = "none"
      <4>1. CASE Start
        BY <4>1 DEF Start, Losses
      <4>2. CASE Claim \/ Close
        BY <4>2 DEF Claim, Close, KillOnClose
      <4>3. CASE ReadFailed \/ Decide \/ Collect \/ HaltReturns \/ Report \/ Again \/ Stop
        BY <4>3 DEF Stop, ReadFailed, Decide, Collect, HaltReturns, Report, Again, procVars
      <4> QED BY <1>6, <4>1, <4>2, <4>3 DEF Main
    <3> QED BY <3>1, <3>2, <3>3
  <2> QED BY <1>1, <2>1, BoundsAreNat DEF Counted
<1>7. CASE UNCHANGED vars
  BY <1>7 DEF vars, procVars, readVars, Counted
<1> QED BY <1>2, <1>3, <1>4, <1>5, <1>6, <1>7 DEF Next

LEMMA FlagsStep == Flags /\ Bound /\ [Next]_vars => Flags'
<1> SUFFICES ASSUME Flags, Bound, [Next]_vars PROVE Flags'
  OBVIOUS
<1> USE DEF Flags, None
<1>1. CASE Emit
  BY <1>1, BoundsAreNat DEF Emit, readVars, haltVars, mainVars, histVars
<1>2. CASE Exit
  BY <1>2 DEF Exit, readVars, haltVars, mainVars
<1>3. CASE ReaderThread
  <2>1. CASE Look \/ ReaderEnds
    BY <2>1 DEF Look, ReaderEnds, procVars, haltVars, mainVars, histVars
  <2>2. CASE Feed
    <3>1. head' \in BOOLEAN /\ streamErr' \in BOOLEAN
      <4>1. CASE UNCHANGED <<head, streamErr>>
        BY <4>1
      <4>2. CASE /\ head' = (head \/ \E i \in Sound(chunk) : chunk[i] = "head")
                 /\ streamErr' = (streamErr \/ "junk" \in ToSet(chunk))
        BY <4>2, Zenon
      <4> QED BY <2>2, <4>1, <4>2 DEF Feed
    <3> QED BY <2>2, <3>1 DEF Feed, procVars, haltVars, mainVars, histVars
  <2>3. CASE ReadFails
    <3>1. faults' \in 0..MaxFaults
      BY <2>3, BoundsAreNat DEF ReadFails
    <3>2. dirty' \in BOOLEAN /\ readErr' \in BOOLEAN
      <4>1. dirty' = dirty \/ dirty' = TRUE
        BY <2>3 DEF ReadFails
      <4> QED BY <2>3, <4>1 DEF ReadFails
    <3>3. UNCHANGED <<outOpen, head, closed, streamErr, ended, draining, stopReading, halted, failed,
                      requested, job, starting, unasked, forced, method, calls>>
      BY <2>3 DEF ReadFails, procVars, haltVars, mainVars, histVars
    <3> QED BY <3>1, <3>2, <3>3
  <2> QED BY <1>3, <2>1, <2>2, <2>3 DEF ReaderThread
<1>4. ASSUME NEW t \in Threads, HaltEnter(t) \/ HaltJoin(t) \/ HaltClose(t) PROVE Flags'
  BY <1>4 DEF HaltEnter, HaltJoin, HaltClose, procVars, readVars, mainVars, histVars
<1>5. ASSUME NEW t \in Threads, HaltWait(t) PROVE Flags'
  <2>1. method' \in {None, "exited_after_pipe_close", "terminated_after_grace",
                     "killed_after_grace", "exited_before_stop"}
    BY <1>5 DEF HaltWait, Release
  <2> QED BY <1>5, <2>1 DEF HaltWait, readVars, mainVars, histVars
<1>6. CASE Main \/ Stop
  <2>1. CASE Start
    <3>1. job' \in BOOLEAN /\ starting' \in BOOLEAN /\ closed' \in BOOLEAN
      <4>1. (job' = job \/ job' = TRUE) /\ (closed' = closed \/ closed' = TRUE)
            /\ (starting' = starting \/ starting' = FALSE)
        BY <2>1 DEF Start
      <4> QED BY <4>1
    <3>2. UNCHANGED <<outOpen, head, dirty, streamErr, readErr, ended, draining, stopReading, halted,
                      failed, requested, unasked, forced, method, calls, faults>>
      BY <2>1 DEF Start, haltVars, histVars
    <3> QED BY <3>1, <3>2
  <2>2. CASE ReadFailed
    BY <2>2 DEF ReadFailed, procVars, readVars, haltVars, histVars
  <2>3. CASE Decide \/ Collect
    BY <2>3 DEF Decide, Collect, procVars, readVars, haltVars
  <2>4. CASE Claim
    <3>1. (halted' = halted \/ halted' = TRUE)
          /\ (method' = method \/ method' = "exited_before_stop")
      BY <2>4 DEF Claim, Claimed
    <3>2. UNCHANGED <<outOpen, readVars, draining, stopReading, failed, requested, job, starting, calls,
                      closed, faults, histVars>>
      BY <2>4 DEF Claim
    <3>3. halted' \in BOOLEAN
      BY <3>1
    <3>4. method' \in {None, "exited_after_pipe_close", "terminated_after_grace",
                       "killed_after_grace", "exited_before_stop"}
      BY <3>1
    <3> QED BY <3>2, <3>3, <3>4 DEF readVars, histVars
  <2>5. CASE HaltReturns \/ Stop \/ Again
    BY <2>5 DEF HaltReturns, Stop, Again, procVars, readVars, haltVars, histVars
  <2>6. CASE Close
    BY <2>6 DEF Close, Shut, haltVars, histVars
  <2>7. CASE Report
    BY <2>7 DEF Report, procVars, readVars, haltVars, histVars
  <2> QED BY <1>6, <2>1, <2>2, <2>3, <2>4, <2>5, <2>6, <2>7 DEF Main
<1>7. CASE UNCHANGED vars
  BY <1>7 DEF vars, procVars, readVars, haltVars, mainVars, histVars
<1> QED BY <1>1, <1>2, <1>3, <1>4, <1>5, <1>6, <1>7 DEF Next, Halt

LEMMA OneReportStep == OneReport /\ [Next]_vars => OneReport'
<1> SUFFICES ASSUME OneReport, [Next]_vars PROVE OneReport'
  OBVIOUS
<1>1. CASE Report
  BY <1>1 DEF Report, OneReport
<1>2. CASE ~Report
  <2>1. UNCHANGED report
    BY <1>2 DEF Next, ReaderThread, Halt, Main, Emit, Exit, Look, Feed, ReadFails, ReaderEnds,
                HaltEnter, HaltJoin, HaltClose, HaltWait, Start, ReadFailed, Decide, Collect, Claim,
                HaltReturns, Close, Again, Stop, vars, mainVars
  <2> QED BY <2>1 DEF OneReport
<1> QED BY <1>1, <1>2

\* Every variable keeps to its type; and the counters to their bounds, since no
\* record is counted twice, and none that was not emitted.
THEOREM RecorderTypes == Spec => []TypeOK
<1>1. Owned /\ Bound /\ Carried /\ Counted /\ Flags /\ OneReport => TypeOK
  <2> SUFFICES ASSUME Owned, Bound, Carried, Counted, Flags, OneReport PROVE TypeOK
    OBVIOUS
  <2>1. Records(chunk) \in Nat /\ Records(pipe) \in Nat
    BY MarksFinite DEF Carried
  <2>2. counted \in 0..MaxRecords /\ file \in 0..counted
    BY <2>1, BoundsAreNat DEF Counted, Carried
  <2>3. Cardinality(report) <= 1
    <3>1. CASE report = {}
      BY <3>1, FS_EmptySet
    <3>2. ASSUME NEW r \in report, report = {r} PROVE Cardinality(report) <= 1
      <4>1. Cardinality({r}) = 1
        BY FS_Singleton
      <4> QED BY <3>2, <4>1
    <3> QED BY <3>1, <3>2 DEF OneReport
  <2>4. chunk # <<>> <=> reader \in {"feed", "write"}
    BY DEF Carried, Counted
  <2>5. pipe \in Seq({"head", "rec", "junk", "torn"}) /\ chunk \in Seq({"head", "rec", "junk", "torn"})
    BY DEF Carried, Pieces
  <2>6. reader \in {"unborn", "look", "feed", "write", "ending", "dying", "spawning", "gone"}
    BY DEF Carried, Past
  <2>7. halting \in [Threads -> {"out", "lock", "join", "rejoin", "close", "wait", "terminate",
                                  "terminated", "killed", "return", "raise"}]
    BY DEF Owned, Places, Stages
  <2> QED BY <2>2, <2>3, <2>4, <2>5, <2>6, <2>7 DEF TypeOK, Owned, Bound, Counted, Flags
<1>2. Init => Bound
  BY DEF Init, Bound, Gone
<1> QED BY <1>1, <1>2, OwnedInit, OwnedStep, BoundStep, LossesInit, LossesStep, CarriedInit,
           CarriedStep, CountedInit, CountedStep, FlagsStep, OneReportStep, PTL DEF Spec
=============================================================================
