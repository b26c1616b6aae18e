----------------------- MODULE CaptureSession_proofs -----------------------
(* No finished capture that claims to be without a gap hides trouble, and no
   capture leaves its recorder running: for any readers, hubs and addresses, and
   any number of segments, moves, interrupts and disk errors. *)
EXTENDS CaptureSession, SequenceTheorems, FiniteSetTheorems, TLAPS

Starting == {"start", "swap_start", "rotate_start"}
Places   == Body \cup {"discover", "prompts", "finish", "summarize", "question", "done"}
Stopped  == {"discover", "prompts", "summarize", "question"} \cup Starting

\* A recorder that has not been stopped is held by the session, and where the
\* next one starts or the files are read there is none.
Held ==
  /\ pc \in Places /\ process \in BOOLEAN /\ cut \in BOOLEAN
  /\ life # None => process
  /\ pc \in Stopped => ~process
  /\ pc = "done" /\ ~cut => ~process
  /\ state = "finished" => pc \in {"question", "done"} /\ ~process

\* Trouble is a gap at once, except a lost recorder, which is one when it is
\* stopped.
Confessed ==
  /\ gap \in BOOLEAN
  /\ failure # None => gap
  /\ trouble # {} => gap \/ life = "lost" \/ (pc = "done" /\ state # "finished")
  /\ disk.state = "finished" => state = "finished"
  /\ disk.state = "finished" /\ ~disk.gap => trouble = {}

\* A second recorder follows a gap or a counted rotation.
OneEach ==
  /\ \E S : segments \in Seq(S)
  /\ rotations \in Nat
  /\ Len(segments) > 1 => gap \/ rotations > 0
  /\ pc \in {"discover", "prompts", "start"} => Len(segments) = 0
  /\ pc \in {"swap_stop", "swap_start"} => gap
  /\ pc = "rotate_start" => rotations > 0

LEMMA SessionInit == Init => Held /\ Confessed /\ OneEach
<1> SUFFICES ASSUME Init PROVE Held /\ Confessed /\ OneEach
  OBVIOUS
<1>1. segments \in Seq({}) /\ Len(segments) = 0
  BY EmptySeq DEF Init
<1>2. Held
  BY DEF Init, Held, None, Places, Stopped, Starting
<1>3. Confessed
  BY DEF Init, Confessed
<1>4. OneEach
  BY <1>1 DEF Init, OneEach
<1> QED BY <1>2, <1>3, <1>4

LEMMA StartedWhere == Started \subseteq {"restart", "loop", "targets"}
BY Zenon DEF Started

LEMMA HeldStep == Held /\ [Next]_vars => Held'
<1> SUFFICES ASSUME Held, [Next]_vars PROVE Held'
  OBVIOUS
<1> USE DEF Held, Stopped, Starting, Places, Body
<1>1. CASE Prepare
  BY <1>1 DEF Prepare, recVars, reportVars, envVars
<1>2. CASE SecureFails
  BY <1>2 DEF SecureFails, Raise, recVars, envVars
<1>3. CASE StartSegment
  BY <1>3, StartedWhere DEF StartSegment, Event, Raise, Forgotten, envVars, None
<1>4. CASE StopSegment
  BY <1>4 DEF StopSegment, Step, Event, Raise, recVars, envVars, None
<1>5. CASE Restart \/ Rediscover \/ Rotate
  <2>1. CASE Restart
    <3>1. pc' \in {"rediscover", "finish"} /\ pc = "restart"
      BY Zenon, <2>1 DEF Restart, Step, Raise
    <3>2. UNCHANGED <<process, life, state, cut>>
      BY <2>1 DEF Restart, recVars, envVars
    <3> QED BY <3>1, <3>2
  <2>2. CASE Rediscover \/ Rotate
    BY <2>2 DEF Rediscover, Rotate, Step, Event, Raise, recVars, envVars
  <2> QED BY <1>5, <2>1, <2>2
<1>6. CASE Loop \/ Poll \/ Observe \/ Targets \/ Size
  BY <1>6 DEF Loop, Poll, Observe, Targets, Size, Step, Event, Raise, recVars, envVars
<1>7. CASE FinishStop
  BY <1>7 DEF FinishStop, StopAlways, recVars, envVars, None
<1>8. CASE Summarize \/ Question
  BY <1>8 DEF Summarize, Question, recVars, reportVars, envVars
<1>9. CASE Lose \/ Move
  BY <1>9 DEF Lose, Move, recVars, reportVars, envVars, None
<1>10. CASE Interrupt
  <2>1. process' \in BOOLEAN /\ (process' => process) /\ (life' # None => process') /\ state' = state
    BY <1>10 DEF Interrupt
  <2>2. CASE pc \in Body
    <3>1. pc' = "finish" /\ state # "finished"
      BY <1>10, <2>2 DEF Interrupt, Raise, Body
    <3> QED BY <2>1, <3>1, <1>10 DEF Interrupt
  <2>3. CASE pc \notin Body
    <3>1. pc' = "done" \/ (pc = "question" /\ pc' = pc)
      BY <1>10, <2>3 DEF Interrupt, Body
    <3>2. cut' \in BOOLEAN /\ (pc \in {"swap_stop", "rotate_stop", "finish", "summarize", "question"} => cut')
      BY <1>10 DEF Interrupt
    <3>3. pc' = "done" /\ ~cut' => pc \in {"discover", "prompts"}
      BY <1>10, <2>3, <3>2 DEF Interrupt
    <3>4. pc = "question" => state' = state /\ ~process'
      BY <2>1
    <3>5. state = "finished" => ~process'
      BY <2>1
    <3>6. CASE pc' = "done"
      BY <2>1, <3>2, <3>3, <3>5, <3>6
    <3>7. CASE pc = "question" /\ pc' = pc
      BY <2>1, <3>2, <3>4, <3>7
    <3> QED BY <3>1, <3>6, <3>7
  <2> QED BY <2>2, <2>3
<1>11. CASE UNCHANGED vars
  BY <1>11 DEF vars, recVars, reportVars, envVars
<1> QED BY <1>1, <1>2, <1>3, <1>4, <1>5, <1>6, <1>7, <1>8, <1>9, <1>10, <1>11
        DEF Next, Program

\* The same of the manifest and of memory, for a step before the capture is
\* finished.
LEMMA NotYetFinished ==
  ASSUME Confessed, state # "finished", state' # "finished",
         Silent \/ Persisted \/ Unwritten,
         gap' \in BOOLEAN, failure' # None => gap',
         trouble' # {} => gap' \/ life' = "lost" \/ pc' = "done"
  PROVE  Confessed'
<1>1. disk' = disk \/ disk'.state = state'
  BY DEF Silent, Persisted, Unwritten
<1> QED BY <1>1 DEF Confessed

LEMMA ConfessedStep == Held /\ Confessed /\ [Next]_vars => Confessed'
<1> SUFFICES ASSUME Held, Confessed, [Next]_vars PROVE Confessed'
  OBVIOUS
<1>a. pc \notin {"question", "done"} => state # "finished"
  BY DEF Held
<1>1. CASE Prepare
  BY <1>1, <1>a DEF Prepare, recVars, reportVars, envVars, Confessed
<1>2. CASE SecureFails
  BY <1>2, <1>a, NotYetFinished DEF SecureFails, Raise, Silent
<1>3. CASE StartSegment
  <2>1. state' # "finished" /\ (life' = life \/ life # "lost")
    BY <1>3, <1>a DEF StartSegment, Held, Stopped, Starting, None
  <2>2. gap' \in BOOLEAN /\ (failure' # None => gap')
    <3>1. (\E next : Event(next, gap)) \/ Raise("start")
      BY <1>3 DEF StartSegment
    <3> QED BY <3>1 DEF Event, Raise, Confessed
  <2>3. trouble' # {} => gap' \/ life' = "lost" \/ pc' = "done"
    BY <1>3, <1>a, <2>1, <2>2 DEF StartSegment, Event, Raise, Confessed
  <2>4. Persisted \/ Unwritten
    BY <1>3 DEF StartSegment, Event
  <2> QED BY <1>3, <1>a, <2>1, <2>2, <2>3, <2>4, NotYetFinished DEF StartSegment
<1>4. CASE StopSegment
  <2>1. state' # "finished"
    BY <1>4, <1>a DEF StopSegment
  <2>2. CASE ~process
    BY <1>4, <1>a, <2>1, <2>2, NotYetFinished DEF StopSegment, Step, Silent, recVars, Confessed
  <2>3. ASSUME process, NEW kind \in StopReports \cup {"raised"}, NEW next,
               Event(next, gap \/ GapOfStop(kind)),
               trouble' = trouble \cup (IF failure' # None THEN {"error"} ELSE {})
                                  \cup (IF kind = "raised" THEN {"stop"} ELSE {})
        PROVE  Confessed'
    <3>1. gap' \in BOOLEAN /\ (gap => gap') /\ (failure' # None => gap')
      BY <2>3 DEF Event, Raise, Confessed, GapOfStop
    <3>2. life = "lost" \/ kind = "raised" => gap'
      BY <2>3 DEF Event, Raise, GapOfStop, StopReports
    <3>3. trouble' # {} => gap' \/ life' = "lost" \/ pc' = "done"
      BY <1>4, <1>a, <2>3, <3>1, <3>2 DEF StopSegment, Confessed
    <3>4. Persisted \/ Unwritten
      BY <2>3 DEF Event
    <3> QED BY <1>4, <1>a, <2>1, <3>1, <3>3, <3>4, NotYetFinished DEF StopSegment
  <2> QED BY <1>4, <2>2, <2>3 DEF StopSegment
<1>5. CASE Restart \/ Rediscover \/ Rotate \/ Loop \/ Poll \/ Observe \/ Targets \/ Size
  <2>1. state' = state /\ life' = life /\ pc \notin {"question", "done"}
    BY <1>5 DEF Restart, Rediscover, Rotate, Loop, Poll, Observe, Targets, Size, recVars
  <2>2. /\ gap' \in BOOLEAN /\ (gap => gap') /\ (failure' # None => gap')
        /\ trouble' # trouble => gap'
        /\ Silent \/ Persisted \/ Unwritten
    <3>1. CASE Restart
      BY <3>1 DEF Restart, Step, Raise, Confessed
    <3>2. CASE Rediscover \/ Rotate
      BY <3>2 DEF Rediscover, Rotate, Step, Event, Raise, Confessed
    <3>3. CASE Loop \/ Size \/ Targets
      BY <3>3 DEF Loop, Size, Targets, Step, Event, Raise, Confessed
    <3>4. CASE Poll
      BY <3>4 DEF Poll, Step, Event, Raise, Confessed
    <3>5. CASE Observe
      BY <3>5 DEF Observe, Step, Event, Raise, Confessed
    <3> QED BY <1>5, <3>1, <3>2, <3>3, <3>4, <3>5
  <2> QED BY <1>a, <2>1, <2>2, NotYetFinished DEF Confessed
<1>6. CASE FinishStop
  <2>1. pc = "finish" /\ state' = state /\ failure' = failure
    BY <1>6 DEF FinishStop
  <2>2. CASE ~process
    BY <1>6, <1>a, <2>1, <2>2, NotYetFinished DEF FinishStop, StopAlways, recVars, Confessed
  <2>3. CASE process
    <3>1. PICK kind \in StopReports \cup {"raised"} :
            /\ gap' = (gap \/ GapOfStop(kind))
            /\ trouble' = IF kind = "raised" THEN trouble \cup {"stop"} ELSE trouble
            /\ Persisted \/ Unwritten
      BY <1>6, <2>3 DEF FinishStop, StopAlways
    <3>2. life = "lost" \/ kind = "raised" => gap'
      BY <3>1 DEF GapOfStop, StopReports
    <3> QED BY <1>a, <2>1, <3>1, <3>2, NotYetFinished DEF Confessed
  <2> QED BY <2>2, <2>3, <1>6 DEF FinishStop, Held
<1>7. CASE Summarize
  <2>1. life # "lost" /\ life' = life /\ failure' = failure /\ state' = "finished" /\ state # "finished"
    BY <1>7, <1>a DEF Summarize, recVars, Held, Stopped, None
  <2>2. gap' \in BOOLEAN /\ (gap => gap') /\ (trouble' # {} => gap')
    BY <1>7, <2>1 DEF Summarize, Confessed
  <2>3. disk' = disk \/ disk' = [gap |-> gap', state |-> state']
    BY <1>7 DEF Summarize, Persisted, Unwritten
  <2> QED BY <2>1, <2>2, <2>3 DEF Confessed
<1>8. CASE Question
  <2>1. UNCHANGED <<gap, state, failure, trouble, life>> /\ life # "lost" /\ pc = "question"
    BY <1>8 DEF Question, recVars, reportVars, Held, Stopped, None
  <2>2. disk' = disk \/ disk' = [gap |-> gap', state |-> state']
    BY <1>8 DEF Question, Persisted, Unwritten, Silent
  <2> QED BY <2>1, <2>2 DEF Confessed
<1>9. CASE Lose \/ Move
  BY <1>9 DEF Lose, Move, recVars, reportVars, Confessed, Held, None
<1>10. CASE Interrupt
  <2>1. state' = state /\ disk' = disk
    BY <1>10 DEF Interrupt
  <2>2. CASE pc \in Body
    BY <1>10, <1>a, <2>1, <2>2 DEF Interrupt, Raise, Confessed, Body
  <2>3. CASE pc \notin Body
    <3>1. UNCHANGED <<failure, gap, trouble>> /\ (pc' = "done" \/ pc = "question")
      BY <1>10, <2>3 DEF Interrupt
    <3>2. state = "finished" \/ pc = "question" => life # "lost"
      BY DEF Held, Stopped, None
    <3> QED BY <2>1, <3>1, <3>2 DEF Confessed
  <2> QED BY <2>2, <2>3
<1>11. CASE UNCHANGED vars
  BY <1>11 DEF vars, recVars, reportVars, Confessed
<1> QED BY <1>1, <1>2, <1>3, <1>4, <1>5, <1>6, <1>7, <1>8, <1>9, <1>10, <1>11
        DEF Next, Program
-----------------------------------------------------------------------------
\* A segment is added or rewritten, never removed.
LEMMA Wider ==
  ASSUME NEW S, NEW T, NEW s \in Seq(S)
  PROVE  s \in Seq(S \cup T)
<1>1. Len(s) \in Nat /\ s \in [1..Len(s) -> S]
  BY LenProperties
<1>2. s \in [1..Len(s) -> S \cup T]
  BY <1>1
<1> QED BY <1>1, <1>2, SeqDef

LEMMA Rewritten ==
  ASSUME NEW S, NEW s \in Seq(S), NEW i, NEW e
  PROVE  \E T : [s EXCEPT ![i] = e] \in Seq(T) /\ Len([s EXCEPT ![i] = e]) = Len(s)
<1>1. CASE i \in 1..Len(s)
  <2>1. s \in Seq(S \cup {e})
    BY Wider
  <2>2. [s EXCEPT ![i] = e] \in Seq(S \cup {e}) /\ Len([s EXCEPT ![i] = e]) = Len(s)
    BY <1>1, <2>1, ExceptSeq
  <2> QED BY <2>2
<1>2. CASE i \notin 1..Len(s)
  <2>1. Len(s) \in Nat /\ DOMAIN s = 1..Len(s) /\ s = [j \in DOMAIN s |-> s[j]]
    BY LenProperties
  <2>2. [s EXCEPT ![i] = e] = s
    BY <1>2, <2>1
  <2> QED BY <2>2
<1> QED BY <1>1, <1>2

LEMMA Added ==
  ASSUME NEW S, NEW s \in Seq(S), NEW e
  PROVE  \E T : Append(s, e) \in Seq(T) /\ Len(Append(s, e)) = Len(s) + 1
<1>1. s \in Seq(S \cup {e})
  BY Wider
<1>2. Append(s, e) \in Seq(S \cup {e}) /\ Len(Append(s, e)) = Len(s) + 1
  BY <1>1, AppendProperties
<1> QED BY <1>2
Kept(n) == (\E T : segments' \in Seq(T)) /\ Len(segments') = n

LEMMA SegmentsKept ==
  ASSUME OneEach,
         segments' = segments \/ (\E kind : SetStop(kind)) \/ Targets
  PROVE  Kept(Len(segments))
<1>1. PICK S : segments \in Seq(S)
  BY DEF OneEach
<1>2. CASE segments' = segments
  BY <1>1, <1>2 DEF Kept
<1>3. CASE \E kind : SetStop(kind)
  <2>1. PICK e : segments' = [segments EXCEPT ![Len(segments)] = e]
    BY <1>3 DEF SetStop
  <2> QED BY <1>1, <2>1, Rewritten DEF Kept
<1>4. CASE Targets
  <2>1. PICK e : segments' = [segments EXCEPT ![Len(segments)] = e]
    BY <1>4 DEF Targets
  <2> QED BY <1>1, <2>1, Rewritten DEF Kept
<1> QED BY <1>2, <1>3, <1>4

LEMMA OneEachStep == Held /\ Confessed /\ OneEach /\ [Next]_vars => OneEach'
<1> SUFFICES ASSUME Held, Confessed, OneEach, [Next]_vars PROVE OneEach'
  OBVIOUS
<1>a. Len(segments) \in Nat
  BY LenProperties DEF OneEach
<1>1. CASE Prepare
  BY <1>1 DEF Prepare, recVars, reportVars, envVars, OneEach
<1>2. CASE StartSegment
  <2>1. PICK S : segments \in Seq(S)
    BY DEF OneEach
  <2>2. Kept(Len(segments) + 1)
    <3>1. PICK e : segments' = Append(segments, e)
      BY <1>2 DEF StartSegment
    <3> QED BY <2>1, <3>1, Added DEF Kept
  <2>3. rotations' = rotations /\ pc \in Starting /\ (gap => gap')
    BY <1>2 DEF StartSegment, Event, Raise, Starting
  <2>4. pc' \in {"restart", "loop", "targets", "finish"}
    BY <1>2, StartedWhere DEF StartSegment, Event, Raise
  <2> QED BY <1>a, <2>2, <2>3, <2>4 DEF Kept, OneEach, Starting
<1>3. CASE StopSegment
  <2>1. Kept(Len(segments))
    BY <1>3, SegmentsKept DEF StopSegment
  <2>2. pc \in {"swap_stop", "rotate_stop"} /\ (gap => gap')
    BY <1>3 DEF StopSegment, Step, Event, Raise
  <2>3. pc' \in {IF pc = "swap_stop" THEN "swap_start" ELSE "rotate_start", "finish"}
    BY <1>3 DEF StopSegment, Step, Event, Raise
  <2>4. rotations' = IF pc = "rotate_stop" /\ pc' = "rotate_start" THEN rotations + 1 ELSE rotations
    BY <1>3 DEF StopSegment, Counted
  <2>5. rotations' \in Nat /\ rotations' >= rotations /\ (pc' = "rotate_start" => rotations' > 0)
    BY <2>2, <2>3, <2>4 DEF OneEach
  <2> QED BY <1>a, <2>1, <2>2, <2>3, <2>5 DEF Kept, OneEach
<1>4. CASE SecureFails \/ Restart \/ Rediscover \/ Rotate \/ Loop \/ Poll \/ Observe \/ Targets \/ Size
  <2>1. Kept(Len(segments)) /\ rotations' = rotations
    BY <1>4, SegmentsKept DEF SecureFails, Restart, Rediscover, Rotate, Loop, Poll, Observe, Targets, Size
  <2>2. /\ gap => gap'
        /\ pc' \notin {"discover", "prompts", "start", "swap_start", "rotate_start"}
        /\ pc' = "swap_stop" => gap'
    <3>1. CASE SecureFails \/ Rediscover \/ Rotate
      BY <3>1 DEF SecureFails, Rediscover, Rotate, Step, Event, Raise
    <3>2. CASE Restart
      <4>1. (pc' = "rediscover" /\ gap' = gap) \/ (pc' = "finish" /\ gap' = TRUE)
        BY Zenon, <3>2 DEF Restart, Step, Raise
      <4> QED BY <4>1
    <3>3. CASE Loop \/ Size \/ Targets
      BY <3>3 DEF Loop, Size, Targets, Step, Event, Raise
    <3>4. CASE Poll
      BY <3>4 DEF Poll, Step, Event, Raise
    <3>5. CASE Observe
      BY <3>5 DEF Observe, Step, Event, Raise
    <3> QED BY <1>4, <3>1, <3>2, <3>3, <3>4, <3>5
  <2> QED BY <1>a, <2>1, <2>2 DEF Kept, OneEach
<1>5. CASE FinishStop \/ Summarize \/ Question
  <2>1. Kept(Len(segments)) /\ rotations' = rotations
    <3>1. CASE FinishStop
      BY <3>1, SegmentsKept DEF FinishStop
    <3>2. CASE Summarize \/ Question
      BY <3>2, SegmentsKept DEF Summarize, Question, reportVars
    <3> QED BY <1>5, <3>1, <3>2
  <2>2. (gap => gap') /\ pc' \in {"summarize", "question", "done"}
    <3>1. CASE FinishStop
      BY <3>1 DEF FinishStop
    <3>2. CASE Summarize
      BY <3>2 DEF Summarize
    <3>3. CASE Question
      BY <3>3 DEF Question, reportVars
    <3> QED BY <1>5, <3>1, <3>2, <3>3
  <2> QED BY <1>a, <2>1, <2>2 DEF Kept, OneEach
<1>6. CASE Lose \/ Move
  BY <1>6 DEF Lose, Move, reportVars, OneEach
<1>7. CASE Interrupt
  <2>1. segments' = segments /\ rotations' = rotations /\ (gap => gap')
        /\ (pc' \in {"finish", "done"} \/ pc' = pc)
    BY <1>7 DEF Interrupt, Raise
  <2> QED BY <2>1 DEF OneEach
<1>8. CASE UNCHANGED vars
  BY <1>8 DEF vars, recVars, reportVars, envVars, OneEach
<1> QED BY <1>1, <1>2, <1>3, <1>4, <1>5, <1>6, <1>7, <1>8 DEF Next, Program

\* "capture_gap" (goodix_capture_core.py:150, goodix_capture.py:264): the manifest,
\* and the exit code main() derives from it, never call a capture whole in which a recorder was lost, the reader was missing or moved, or a step
\* failed, nor continuous one of several recorders.
THEOREM NoHiddenGap == Spec => []NoGapNoTrouble
<1>1. Held /\ Confessed /\ OneEach => NoGapNoTrouble
  <2> SUFFICES ASSUME Held, Confessed, OneEach PROVE NoGapNoTrouble
    OBVIOUS
  <2>1. state = "finished" /\ ~gap => trouble = {}
    BY DEF Held, Confessed, None
  <2>2. Continuous => Len(segments) = 1
    <3> SUFFICES ASSUME Continuous PROVE Len(segments) = 1
      OBVIOUS
    <3>1. segments # <<>> => Len(segments) \in Nat \ {0}
      <4>1. PICK S : segments \in Seq(S)
        BY DEF OneEach
      <4> QED BY <4>1, LenProperties, EmptySeq
    <3>2. Len(segments) \in Nat \ {0}
      BY <3>1 DEF Continuous
    <3>3. ~(Len(segments) > 1)
      BY DEF Continuous, OneEach
    <3>4. \A n \in Nat \ {0} : ~(n > 1) => n = 1
      OBVIOUS
    <3> QED BY Zenon, <3>2, <3>3, <3>4
  <2>3. disk.state = "finished" /\ ~disk.gap => trouble = {}
    BY DEF Confessed
  <2> QED BY <2>1, <2>2, <2>3 DEF NoGapNoTrouble
<1> QED BY <1>1, SessionInit, HeldStep, ConfessedStep, OneEachStep, PTL DEF Spec

\* The finally of run_capture() stops the recorder whatever the body raised: none
\* outlives it unless Ctrl-C cuts a stop() or the finally itself.
THEOREM RecorderIsStopped == Spec => []NoRecorderLeft
<1>1. Held => NoRecorderLeft
  BY DEF Held, NoRecorderLeft
<1> QED BY <1>1, SessionInit, HeldStep, PTL DEF Spec

-----------------------------------------------------------------------------
\* finish() runs after the body's failure, and has no way to forget it.
Remembered ==
  /\ FirstFailureKept
  /\ pc \in Body \cup {"discover", "prompts"} => failure = None

LEMMA RememberedStep == Held /\ Remembered /\ [Next]_vars => Remembered'
<1> SUFFICES ASSUME Held, Remembered, [Next]_vars PROVE Remembered'
  OBVIOUS
<1> USE DEF Remembered, FirstFailureKept, Body, None
<1>1. CASE Prepare
  BY <1>1 DEF Prepare
<1>2. CASE SecureFails \/ StartSegment \/ StopSegment
  <2>1. pc' \in Places \ {"discover", "prompts", "done"} /\ (pc' \in Body => failure' = failure)
        /\ pc \in Body
    <3>1. CASE SecureFails
      BY <3>1 DEF SecureFails, Raise, Places
    <3>2. CASE StartSegment
      BY <3>2, StartedWhere DEF StartSegment, Event, Raise, Places
    <3>3. CASE StopSegment
      BY <3>3 DEF StopSegment, Step, Event, Raise, Places
    <3> QED BY <1>2, <3>1, <3>2, <3>3
  <2> QED BY <2>1
<1>3. CASE Restart \/ Rediscover \/ Rotate \/ Loop \/ Poll \/ Observe \/ Targets \/ Size
  <2>1. pc' \in Places \ {"discover", "prompts", "done"} /\ (pc' \in Body => failure' = failure)
        /\ pc \in Body
    <3>1. CASE Restart
      <4>1. (pc' = "rediscover" /\ failure' = failure) \/ pc' = "finish"
        BY Zenon, <3>1 DEF Restart, Step, Raise
      <4> QED BY <3>1, <4>1 DEF Restart, Places
    <3>2. CASE Rediscover \/ Rotate
      BY <3>2 DEF Rediscover, Rotate, Step, Event, Raise, Places
    <3>3. CASE Loop \/ Size \/ Targets
      BY <3>3 DEF Loop, Size, Targets, Step, Event, Raise, Places
    <3>4. CASE Poll
      BY <3>4 DEF Poll, Step, Event, Raise, Places
    <3>5. CASE Observe
      BY <3>5 DEF Observe, Step, Event, Raise, Places
    <3> QED BY <1>3, <3>1, <3>2, <3>3, <3>4, <3>5
  <2> QED BY <2>1
<1>4. CASE FinishStop \/ Summarize
  BY <1>4 DEF FinishStop, Summarize, EndingWith
<1>5. CASE Question
  BY <1>5 DEF Question
<1>6. CASE Lose \/ Move
  BY <1>6 DEF Lose, Move
<1>7. CASE Interrupt
  BY <1>7 DEF Interrupt, Raise
<1>8. CASE UNCHANGED vars
  BY <1>8 DEF vars
<1> QED BY <1>1, <1>2, <1>3, <1>4, <1>5, <1>6, <1>7, <1>8 DEF Next, Program

\* "READER RECOVERY FAILED", and any failure of the run, is what leaves
\* run_capture(): no error of stopping, summarising or writing the manifest takes
\* its place.
THEOREM FailureSurvives == Spec => []FirstFailureKept
<1>1. Init => Remembered
  BY DEF Init, Remembered, FirstFailureKept, Body
<1>2. Remembered => FirstFailureKept
  BY DEF Remembered
<1> QED BY <1>1, <1>2, SessionInit, HeldStep, RememberedStep, PTL DEF Spec

-----------------------------------------------------------------------------
\* Which reader a segment is of: identity is set with the first segment and
\* compared with each discovery before the next one is started.
Segment == [reader : Readers, iface : Interfaces, targets : SUBSET Addresses,
            stop : StopKinds, graceful : BOOLEAN]

Followed ==
  /\ where \in Reader /\ reader \subseteq Reader /\ \A r, s \in reader : r = s
  /\ pc \in Body \cup {"prompts"} => reader # {}
  /\ identity \in Readers \cup {None} /\ missing \in BOOLEAN
  /\ segments \in Seq(Segment) /\ Len(segments) <= MaxSegments
  /\ \A i \in DOMAIN segments : segments[i].reader = identity
  /\ pc \in {"discover", "prompts", "start"} => identity = None
  /\ identity = None => segments = <<>>
  /\ pc \in {"rotate_stop", "rotate_start", "swap_stop", "swap_start"} => SameReader
  /\ process => segments # <<>>
  /\ pc = "targets" => process /\ last.iface = target.iface
  /\ pc = "size" /\ ~missing => process /\ last.iface = target.iface /\ target.addr \in last.targets

LEMMA FollowedInit == Init => Followed
<1> SUFFICES ASSUME Init PROVE Followed
  OBVIOUS
<1>1. segments \in Seq(Segment) /\ Len(segments) = 0 /\ DOMAIN segments = {}
  BY EmptySeq DEF Init
<1>2. Len(segments) <= MaxSegments
  BY <1>1, SessionAssumption
<1>3. \A i \in DOMAIN segments : segments[i].reader = identity
  BY <1>1
<1>4. pc = "discover" /\ process = FALSE /\ identity = None /\ segments = <<>>
      /\ where \in Reader /\ reader = {} /\ missing = FALSE
  BY DEF Init
<1> HIDE DEF Init
<1> QED BY <1>1, <1>2, <1>3, <1>4 DEF Followed, Body

LEMMA TargetIsSeen ==
  ASSUME Followed, reader # {}
  PROVE  /\ reader = {target} /\ target \in Reader
         /\ target.id \in Readers /\ target.iface \in Interfaces /\ target.addr \in Addresses
         /\ target.id # None
<1>1. target \in reader
  BY DEF target
<1>2. target \in Reader /\ reader = {target}
  BY <1>1 DEF Followed
<1> QED BY <1>2, SessionAssumption DEF Reader

\* What stop_segment() and finish() write into the last segment is how it ended.
LEMMA StopKeepsReader ==
  ASSUME Followed, NEW kind \in StopKinds, SetStop(kind)
  PROVE  /\ segments' \in Seq(Segment) /\ Len(segments') = Len(segments)
         /\ DOMAIN segments' = DOMAIN segments
         /\ \A i \in DOMAIN segments : segments'[i].reader = segments[i].reader
         /\ segments # <<>> <=> segments' # <<>>
<1>1. segments \in Seq(Segment) /\ Len(segments) \in Nat /\ DOMAIN segments = 1..Len(segments)
  BY LenProperties DEF Followed
<1>2. PICK g \in BOOLEAN :
        segments' = [segments EXCEPT ![Len(segments)] = [@ EXCEPT !.stop = kind, !.graceful = g]]
  BY DEF SetStop
<1>3. CASE Len(segments) = 0
  <2>1. segments = <<>>
    BY <1>1, <1>3, EmptySeq
  <2>2. segments' = segments
    BY <1>1, <1>2, <1>3
  <2> QED BY <1>1, <2>1, <2>2
<1>4. CASE Len(segments) # 0
  <2> DEFINE n == Len(segments)
             e == [segments[n] EXCEPT !.stop = kind, !.graceful = g]
  <2>1. n \in 1..Len(segments) /\ segments[n] \in Segment
    BY <1>1, <1>4, ElementOfSeq
  <2>2. e \in Segment /\ e.reader = segments[n].reader
    BY <2>1 DEF Segment
  <2>3. segments' = [segments EXCEPT ![n] = e]
    BY <1>2
  <2> HIDE DEF e
  <2>4. /\ segments' \in Seq(Segment) /\ Len(segments') = Len(segments)
        /\ \A j \in 1..Len(segments) : segments'[j] = IF j = n THEN e ELSE segments[j]
    BY <1>1, <2>1, <2>2, <2>3, ExceptSeq
  <2>5. segments' # <<>> /\ segments # <<>>
    BY <1>4, <2>4, EmptySeq
  <2> QED BY <1>1, <2>2, <2>4, <2>5, LenProperties
<1> QED BY <1>3, <1>4

\* A new segment is of the reader in hand, which is the identity.
LEMMA AddKeepsReader ==
  ASSUME Followed, reader # {}, SameReader, NEW e \in Segment,
         e.reader = target.id, segments' = Append(segments, e),
         Len(segments) < MaxSegments, identity' = IF identity = None THEN target.id ELSE identity
  PROVE  /\ segments' \in Seq(Segment) /\ Len(segments') <= MaxSegments /\ segments' # <<>>
         /\ \A i \in DOMAIN segments' : segments'[i].reader = identity'
         /\ identity' \in Readers /\ identity' # None
         /\ segments'[Len(segments')] = e
<1>1. segments \in Seq(Segment) /\ Len(segments) \in Nat /\ DOMAIN segments = 1..Len(segments)
  BY LenProperties DEF Followed
<1>2. /\ segments' \in Seq(Segment) /\ segments' # <<>> /\ Len(segments') = Len(segments) + 1
      /\ \A i \in 1..Len(segments) : segments'[i] = segments[i]
      /\ segments'[Len(segments) + 1] = e
  BY <1>1, AppendProperties
<1>3. DOMAIN segments' = 1 .. Len(segments) + 1
  BY <1>2, LenProperties
<1>4. identity' = target.id /\ identity' \in Readers /\ identity' # None
  BY TargetIsSeen DEF SameReader
<1>5. \A i \in 1..Len(segments) : segments[i].reader = identity'
  BY <1>1, <1>4, EmptySeq DEF Followed, SameReader
<1>6. \A i \in 1 .. Len(segments) + 1 : i \in 1..Len(segments) \/ i = Len(segments) + 1
  BY <1>1
<1>7. \A i \in DOMAIN segments' : segments'[i].reader = identity'
  BY <1>2, <1>3, <1>4, <1>5, <1>6
<1>8. Len(segments') <= MaxSegments
  BY <1>1, <1>2, SessionAssumption
<1> QED BY <1>2, <1>4, <1>7, <1>8

LEMMA FollowedStep == Held /\ Followed /\ [Next]_vars => Followed'
<1> SUFFICES ASSUME Held, Followed, [Next]_vars PROVE Followed'
  OBVIOUS
<1>a. \A w : reader' = {w} => target' = w
  BY DEF target
<1>1. CASE Prepare
  <2>1. /\ UNCHANGED <<where, missing, identity, segments, process>>
        /\ (reader' = reader \/ reader' = {where}) /\ pc' \in {"prompts", "start", "done"}
        /\ pc' # "done" => reader' = {where}
        /\ pc \in {"discover", "prompts"}
    BY <1>1 DEF Prepare, recVars, reportVars, envVars
  <2> QED BY <2>1 DEF Followed, Body
<1>2. CASE SecureFails \/ Restart \/ Size
  <2>1. /\ UNCHANGED <<where, reader, missing, identity, segments, process>>
        /\ pc \in Body /\ pc' \in {"finish", "rediscover", "loop"}
    <3>1. CASE SecureFails
      BY <3>1 DEF SecureFails, Raise, Body, recVars, envVars
    <3>2. CASE Restart
      <4>1. pc' = "rediscover" \/ pc' = "finish"
        BY Zenon, <3>2 DEF Restart, Step, Raise
      <4> QED BY <3>2, <4>1 DEF Restart, Body, recVars, envVars
    <3>3. CASE Size
      BY <3>3 DEF Size, Step, Raise, Body, recVars, envVars
    <3> QED BY <1>2, <3>1, <3>2, <3>3
  <2> QED BY <2>1 DEF Followed, Body
<1>3. CASE StartSegment
  <2>1. /\ reader # {} /\ SameReader /\ UNCHANGED <<where, reader, missing, target>>
        /\ Len(segments) < MaxSegments /\ pc \in {"start", "swap_start", "rotate_start"}
        /\ identity' = IF identity = None THEN target.id ELSE identity
    BY <1>3 DEF StartSegment, Followed, SameReader, envVars, Body, target
  <2>2. target.id \in Readers /\ target.iface \in Interfaces /\ target.addr \in Addresses
    BY <2>1, TargetIsSeen
  <2>3. \A g \in BOOLEAN : [NewSegment EXCEPT !.graceful = g] \in Segment
                         /\ [NewSegment EXCEPT !.graceful = g].reader = target.id
    BY <2>2 DEF NewSegment, Segment, StopKinds
  <2>4. NewSegment \in Segment /\ NewSegment.reader = target.id /\ NewSegment.iface = target.iface
    BY <2>2 DEF NewSegment, Segment, StopKinds
  <2>5. CASE segments' = Append(segments, NewSegment) /\ process' = TRUE
             /\ \E next \in Started : Event(next, gap)
    <3>1. /\ segments' \in Seq(Segment) /\ Len(segments') <= MaxSegments /\ segments' # <<>>
          /\ \A i \in DOMAIN segments' : segments'[i].reader = identity'
          /\ identity' \in Readers /\ identity' # None /\ last' = NewSegment
      BY <2>1, <2>4, <2>5, AddKeepsReader DEF last
    <3>2. pc' \in {"restart", "loop", "targets", "finish"}
      BY <2>5, StartedWhere DEF Event, Raise
    <3> QED BY <2>1, <2>4, <2>5, <3>1, <3>2 DEF Followed, Body
  <2>6. CASE /\ \E g \in BOOLEAN : segments' = Append(segments, [NewSegment EXCEPT !.graceful = g])
             /\ process' = Forgotten /\ Raise("start")
    <3>1. /\ segments' \in Seq(Segment) /\ Len(segments') <= MaxSegments /\ segments' # <<>>
          /\ \A i \in DOMAIN segments' : segments'[i].reader = identity'
          /\ identity' \in Readers /\ identity' # None
      BY <2>1, <2>3, <2>6, AddKeepsReader
    <3> QED BY <2>1, <2>6, <3>1 DEF Followed, Body, Forgotten, Raise
  <2> QED BY <1>3, <2>5, <2>6 DEF StartSegment
<1>4. CASE StopSegment
  <2>1. /\ UNCHANGED <<where, reader, missing, identity, target>> /\ pc \in {"swap_stop", "rotate_stop"}
        /\ pc' \in {"swap_start", "rotate_start", "finish"} /\ process' \in {process, FALSE}
    BY <1>4 DEF StopSegment, Step, Event, Raise, recVars, envVars, target
  <2>2. segments' = segments \/ \E kind \in StopKinds : SetStop(kind)
    BY <1>4 DEF StopSegment, StopReports, StopKinds
  <2>3. /\ segments' \in Seq(Segment) /\ Len(segments') = Len(segments) /\ DOMAIN segments' = DOMAIN segments
        /\ \A i \in DOMAIN segments : segments'[i].reader = segments[i].reader
        /\ segments # <<>> <=> segments' # <<>>
    BY <2>2, StopKeepsReader DEF Followed
  <2>4. SameReader
    BY <2>1 DEF Followed
  <2>5. \A i \in DOMAIN segments' : segments'[i].reader = identity'
    BY <2>1, <2>3 DEF Followed
  <2>6. SameReader'
    BY <2>1, <2>4 DEF SameReader
  <2>7. process' => segments' # <<>>
    BY <2>1, <2>3 DEF Followed
  <2>8. identity' = None => segments' = <<>>
    BY <2>1, <2>3 DEF Followed
  <2>9. Len(segments') <= MaxSegments
    BY <2>3 DEF Followed
  <2> QED BY <2>1, <2>3, <2>5, <2>6, <2>7, <2>8, <2>9 DEF Followed, Body
<1>5. CASE Rediscover \/ Rotate \/ Loop
  <2>1. /\ UNCHANGED <<where, missing, identity, segments, process>> /\ (reader' = reader \/ reader' = {where})
        /\ pc' \in {"rotate", "loop", "finish", "poll", "rotate_stop"} /\ pc \in Body
        /\ pc' = "rotate_stop" => SameReader /\ reader' = reader
    BY <1>5 DEF Rediscover, Rotate, Loop, Step, Event, Raise, Body, recVars, envVars
  <2>2. pc' = "rotate_stop" => SameReader'
    BY <2>1 DEF SameReader, target
  <2> QED BY <2>1, <2>2 DEF Followed, Body
<1>6. CASE Poll
  <2>1. /\ UNCHANGED <<where, identity, segments, process>> /\ (reader' = reader \/ reader' = {where})
        /\ pc' \in {"observe", "size", "finish"} /\ pc \in Body
        /\ pc' = "size" => missing' = TRUE
        /\ missing' \in BOOLEAN
    BY <1>6 DEF Poll, Step, Event, Raise, Body, recVars, envVars
  <2> QED BY <2>1 DEF Followed, Body
<1>7. CASE Observe
  <2>1. /\ UNCHANGED <<where, identity, segments, process, reader, missing, target, last>>
        /\ pc' \in {"targets", "swap_stop", "finish"} /\ pc = "observe"
        /\ pc' = "swap_stop" => SameReader
        /\ pc' = "targets" => process /\ last.iface = target.iface
    BY <1>7 DEF Observe, Step, Event, Raise, recVars, envVars, target, last
  <2>2. pc' = "swap_stop" => SameReader'
    BY <2>1 DEF SameReader
  <2> QED BY <2>1, <2>2 DEF Followed, Body
<1>8. CASE Targets
  <2>1. /\ UNCHANGED <<where, identity, process, reader, missing, target>>
        /\ pc' \in {"size", "finish"} /\ pc = "targets" /\ process
        /\ segments' = [segments EXCEPT ![Len(segments)].targets = last.targets \cup {target.addr}]
    BY <1>8 DEF Targets, Step, Event, Raise, WithTarget, recVars, envVars, target, Followed
  <2> DEFINE n == Len(segments)
             e == [segments[n] EXCEPT !.targets = last.targets \cup {target.addr}]
  <2>2. /\ segments \in Seq(Segment) /\ n \in Nat /\ DOMAIN segments = 1..n
        /\ segments # <<>> /\ n \in 1..n /\ segments[n] \in Segment
    <3>1. segments \in Seq(Segment) /\ segments # <<>>
      BY <2>1 DEF Followed
    <3>2. n \in Nat \ {0} /\ DOMAIN segments = 1..n
      BY <3>1, LenProperties, EmptySeq
    <3> QED BY <3>1, <3>2, ElementOfSeq
  <2>3. target.addr \in Addresses
    BY <2>1, TargetIsSeen DEF Followed, Body
  <2>4. /\ e \in Segment /\ e.reader = segments[n].reader /\ e.iface = last.iface
        /\ target.addr \in e.targets
    BY <2>2, <2>3 DEF Segment, last
  <2>5. segments' = [segments EXCEPT ![n] = e]
    BY <2>1
  <2> HIDE DEF e
  <2>6. /\ segments' \in Seq(Segment) /\ Len(segments') = n
        /\ \A j \in 1..n : segments'[j] = IF j = n THEN e ELSE segments[j]
    BY <2>2, <2>4, <2>5, ExceptSeq
  <2>7. DOMAIN segments' = 1..n /\ segments' # <<>> /\ last' = e
    BY <2>2, <2>6, LenProperties, EmptySeq DEF last
  <2>8. \A i \in DOMAIN segments' : segments'[i].reader = identity'
    BY <2>1, <2>2, <2>4, <2>6, <2>7 DEF Followed
  <2>9. identity' # None /\ last'.iface = target'.iface /\ target'.addr \in last'.targets
    BY <2>1, <2>2, <2>4, <2>7 DEF Followed
  <2>10. Len(segments') <= MaxSegments
    BY <2>6 DEF Followed
  <2> QED BY <2>1, <2>6, <2>7, <2>8, <2>9, <2>10 DEF Followed, Body
<1>9. CASE FinishStop \/ Summarize \/ Question
  <2>1. /\ UNCHANGED <<where, reader, missing, identity>> /\ pc' \in {"summarize", "question", "done"}
        /\ process' \in {process, FALSE}
    <3>1. CASE FinishStop
      BY <3>1 DEF FinishStop, recVars, envVars
    <3>2. CASE Summarize
      BY <3>2 DEF Summarize, recVars, envVars
    <3>3. CASE Question
      BY <3>3 DEF Question, recVars, envVars
    <3> QED BY <1>9, <3>1, <3>2, <3>3
  <2>2. segments' = segments \/ \E kind \in StopKinds : SetStop(kind)
    <3>1. CASE FinishStop
      BY <3>1 DEF FinishStop, StopReports, StopKinds, StopAlways
    <3>2. CASE Summarize \/ Question
      BY <3>2 DEF Summarize, Question, reportVars
    <3> QED BY <1>9, <3>1, <3>2
  <2>3. /\ segments' \in Seq(Segment) /\ Len(segments') = Len(segments) /\ DOMAIN segments' = DOMAIN segments
        /\ \A i \in DOMAIN segments : segments'[i].reader = segments[i].reader
        /\ segments # <<>> <=> segments' # <<>>
    BY <2>2, StopKeepsReader DEF Followed
  <2>4. \A i \in DOMAIN segments' : segments'[i].reader = identity'
    BY <2>1, <2>3 DEF Followed
  <2>5. process' => segments' # <<>>
    BY <2>1, <2>3 DEF Followed
  <2>6. identity' = None => segments' = <<>>
    BY <2>1, <2>3 DEF Followed
  <2>7. Len(segments') <= MaxSegments
    BY <2>3 DEF Followed
  <2> QED BY <2>1, <2>3, <2>4, <2>5, <2>6, <2>7 DEF Followed, Body
<1>10. CASE Lose \/ Move
  <2>1. UNCHANGED <<pc, reader, missing, identity, segments, process>> /\ where' \in Reader
    BY <1>10 DEF Lose, Move, recVars, reportVars, envVars, Followed
  <2> QED BY <2>1 DEF Followed, target, last, SameReader
<1>11. CASE Interrupt
  <2>1. /\ UNCHANGED <<where, reader, missing, identity, segments>> /\ (process' => process)
        /\ pc' \in {"finish", "done"} \/ (pc = "question" /\ pc' = pc)
    BY <1>11 DEF Interrupt, Raise
  <2> QED BY <2>1 DEF Followed, Body
<1>12. CASE UNCHANGED vars
  BY <1>12 DEF vars, recVars, reportVars, envVars, Followed, target, last, SameReader
<1> QED BY <1>1, <1>2, <1>3, <1>4, <1>5, <1>6, <1>7, <1>8, <1>9, <1>10, <1>11, <1>12
        DEF Next, Program

\* A segment is a recording of the reader first identified, and once a discovery
\* has been looked at, of its hub and with its address: whatever moved between
\* the discoveries, and however often.
THEOREM SegmentsAreOfOneReader == Spec => []SegmentFollowsReader
<1>1. Followed => SegmentFollowsReader
  BY DEF Followed, SegmentFollowsReader
<1> QED BY <1>1, SessionInit, HeldStep, FollowedInit, FollowedStep, PTL DEF Spec

-----------------------------------------------------------------------------
States == {"prepared", "recording", "finished"}

Fields ==
  /\ life \in {None, "recording", "lost"} /\ (process => life # None)
  /\ state \in States
  /\ disk \in [gap : BOOLEAN, state : States]
  /\ moves \in 0..MaxMoves /\ faults \in 0..MaxFaults /\ interrupts \in 0..MaxInterrupts

LEMMA FieldsStep == Held /\ Confessed /\ Confessed' /\ Fields /\ [Next]_vars => Fields'
<1> SUFFICES ASSUME Held, Confessed, Confessed', Fields, [Next]_vars PROVE Fields'
  OBVIOUS
<1>a. /\ moves \in Nat /\ faults \in Nat /\ interrupts \in Nat
      /\ MaxMoves \in Nat /\ MaxFaults \in Nat /\ MaxInterrupts \in Nat
  BY SessionAssumption DEF Fields
<1>b. gap \in BOOLEAN /\ gap' \in BOOLEAN
  BY DEF Confessed
\* A write of the manifest is of the report as it is, or fails.
<1>c. ASSUME Persisted \/ Unwritten \/ Silent, state' \in States
      PROVE  disk' \in [gap : BOOLEAN, state : States] /\ faults' \in 0..MaxFaults
  BY <1>a, <1>b, <1>c DEF Persisted, Unwritten, Silent, Fields
<1>1. CASE StartSegment
  <2>1. UNCHANGED <<moves, interrupts>> /\ (Persisted \/ Unwritten) /\ state' \in States
        /\ (life' = life \/ life' = "recording") /\ (process' => life' = "recording")
    BY <1>1 DEF StartSegment, Event, Forgotten, envVars, Fields, States
  <2> QED BY <1>c, <2>1 DEF Fields, None
<1>2. CASE StopSegment
  <2>1. UNCHANGED <<moves, interrupts, state>> /\ (Persisted \/ Unwritten \/ Silent)
        /\ (UNCHANGED <<life, process>> \/ (life' = None /\ process' = FALSE))
    BY <1>2 DEF StopSegment, Event, Step, envVars, recVars
  <2> QED BY <1>c, <2>1 DEF Fields
<1>3. CASE SecureFails \/ Restart \/ Rediscover \/ Rotate \/ Loop \/ Poll \/ Observe \/ Targets \/ Size
  <2>1. UNCHANGED <<moves, interrupts, state, life, process>>
    BY <1>3 DEF SecureFails, Restart, Rediscover, Rotate, Loop, Poll, Observe, Targets, Size, envVars,
                recVars
  <2>2. Persisted \/ Unwritten \/ Silent
    <3>1. CASE SecureFails \/ Restart \/ Rediscover
      BY <3>1 DEF SecureFails, Restart, Rediscover, Event, Step
    <3>2. CASE Rotate \/ Loop \/ Size \/ Targets
      BY <3>2 DEF Rotate, Loop, Size, Targets, Event, Step
    <3>3. CASE Poll \/ Observe
      BY <3>3 DEF Poll, Observe, Event, Step
    <3> QED BY <1>3, <3>1, <3>2, <3>3
  <2> QED BY <1>c, <2>1, <2>2 DEF Fields
<1>4. CASE FinishStop
  <2>1. UNCHANGED <<moves, interrupts, state>> /\ (Persisted \/ Unwritten \/ Silent)
        /\ (UNCHANGED <<life, process>> \/ (life' = None /\ process' = FALSE))
    BY <1>4 DEF FinishStop, envVars, recVars
  <2> QED BY <1>c, <2>1 DEF Fields
<1>5. CASE Summarize \/ Question \/ Prepare
  <2>1. UNCHANGED <<moves, interrupts, life, process>> /\ (state' = state \/ state' = "finished")
        /\ (Persisted \/ Unwritten \/ Silent)
    <3>1. CASE Summarize
      BY <3>1 DEF Summarize, envVars, recVars
    <3>2. CASE Question
      BY <3>2 DEF Question, envVars, recVars, reportVars
    <3>3. CASE Prepare
      BY <3>3 DEF Prepare, envVars, recVars, reportVars, Silent
    <3> QED BY <1>5, <3>1, <3>2, <3>3
  <2> QED BY <1>c, <2>1 DEF Fields, States
<1>6. CASE Lose
  BY <1>6 DEF Lose, reportVars, envVars, Fields, None
<1>7. CASE Move
  <2>1. moves' \in 0..MaxMoves
    BY <1>a, <1>7 DEF Move
  <2> QED BY <1>7, <2>1 DEF Move, recVars, reportVars, Fields
<1>8. CASE Interrupt
  <2>1. interrupts' \in 0..MaxInterrupts
    BY <1>a, <1>8 DEF Interrupt
  <2>2. (process' => process) /\ life' = (IF process' THEN life ELSE None)
    BY <1>8 DEF Interrupt
  <2>3. UNCHANGED <<state, disk, faults, moves>>
    BY <1>8 DEF Interrupt
  <2> QED BY <2>1, <2>2, <2>3 DEF Fields
<1>9. CASE UNCHANGED vars
  BY <1>9 DEF vars, recVars, reportVars, envVars, Fields
<1> QED BY <1>1, <1>2, <1>3, <1>4, <1>5, <1>6, <1>7, <1>8, <1>9 DEF Next, Program

\* Every variable keeps to its type, and a recorder is recorded as the session's
\* exactly as long as the session holds it.
THEOREM SessionTypes == Spec => []TypeOK
<1>1. Init => Fields
  BY SessionAssumption DEF Init, Fields, States
<1>2. Held /\ Confessed /\ OneEach /\ Followed /\ Fields => TypeOK
  <2> SUFFICES ASSUME Held, Confessed, OneEach, Followed, Fields PROVE TypeOK
    OBVIOUS
  <2>1. Cardinality(reader) <= 1
    <3>1. CASE reader = {}
      BY <3>1, FS_EmptySet
    <3>2. ASSUME NEW r \in reader PROVE Cardinality(reader) <= 1
      <4>1. reader = {r}
        BY <3>2 DEF Followed
      <4>2. Cardinality({r}) = 1
        BY FS_Singleton
      <4> QED BY <4>1, <4>2
    <3> QED BY <3>1, <3>2
  <2>2. process <=> life # None
    BY DEF Held, Fields
  <2>3. segments \in Seq([reader : Readers, iface : Interfaces, targets : SUBSET Addresses,
                           stop : StopKinds, graceful : BOOLEAN])
    BY DEF Followed, Segment
  <2> QED BY <2>1, <2>2, <2>3 DEF TypeOK, Held, Confessed, OneEach, Followed, Fields, Places, States
<1> QED BY <1>1, <1>2, SessionInit, HeldStep, ConfessedStep, OneEachStep, FollowedInit, FollowedStep,
           FieldsStep, PTL DEF Spec
=============================================================================
