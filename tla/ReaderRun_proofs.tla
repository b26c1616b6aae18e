-------------------------- MODULE ReaderRun_proofs --------------------------
(* Theorems about ReaderRun, for every set of command lines, every bound and
   every content of the pipe, and about the send gate for any caller of it. *)
EXTENDS ReaderRun, TLAPS

-----------------------------------------------------------------------------
(* What the send gate of USBWire guarantees to any caller. *)

\* The flags keep their types, and no frame passes more often than its limit.
THEOREM GateTypes == GateSpec => []GateTypeOK
<1>1. GateInit => GateTypeOK
  BY DEF GateInit, GateTypeOK, Modes, ModeShape
<1>2. GateTypeOK /\ [GateNext]_gateVars => GateTypeOK'
  <2> SUFFICES ASSUME GateTypeOK, [GateNext]_gateVars PROVE GateTypeOK'
    OBVIOUS
  <2>1. ASSUME NEW c \in Gated, Arm(c) PROVE GateTypeOK'
    BY <2>1 DEF GateTypeOK, Arm
  <2>2. ASSUME NEW c \in Gated, Pass(c) PROVE GateTypeOK'
    <3>1. mode.queries \in 1..2
      BY DEF GateTypeOK, Modes, ModeShape
    <3>2. sent[c] < 2
      BY <2>2, <3>1 DEF GateTypeOK, Pass, MaySend, MayArm, QueryLeft, DownDue, ImageStageOk, WasSent
    <3> QED BY <2>2, <3>2 DEF GateTypeOK, Pass
  <2>3. CASE UNCHANGED gateVars
    BY <2>3 DEF gateVars, GateTypeOK
  <2> QED BY <2>1, <2>2, <2>3 DEF GateNext
<1> QED BY <1>1, <1>2, PTL DEF GateSpec

\* A frame that passes keeps the order of the gated frames (GateOrder).
LEMMA PassKeepsOrder ==
  ASSUME GateTypeOK, GateOrder, NEW c \in Gated, Pass(c)
  PROVE  GateOrder'
<1>1. /\ mode' = mode
      /\ MayArm(c)
      /\ sent'[c] = sent[c] + 1
      /\ \A d \in Gated : d # c => sent'[d] = sent[d]
      /\ \A d \in Gated : sent[d] \in Nat
      /\ mode.queries \in 1..2
  BY DEF Pass, MaySend, GateTypeOK, Modes, ModeShape
<1>2. Gated = {StateQuery, FdtManual, FdtDown, FdtUp, GetImage, SleepMode}
  BY DEF Gated
<1>3. ModeOk(mode)
  BY DEF GateTypeOK, Modes
<1>4. CASE c = StateQuery
  BY <1>1, <1>2, <1>4 DEF GateOrder, MayArm, QueryLeft, WasSent, StateQuery, FdtManual, FdtDown,
     FdtUp, GetImage, SleepMode
<1>5. CASE c = FdtManual
  BY <1>1, <1>2, <1>5 DEF GateOrder, MayArm, WasSent, StateQuery, FdtManual, FdtDown,
     FdtUp, GetImage, SleepMode
<1>6. CASE c = FdtDown
  BY <1>1, <1>2, <1>6 DEF GateOrder, MayArm, DownDue, WasSent, StateQuery, FdtManual, FdtDown,
     FdtUp, GetImage, SleepMode
<1>7. CASE c = FdtUp
  BY <1>1, <1>2, <1>7 DEF GateOrder, MayArm, WasSent, StateQuery, FdtManual, FdtDown,
     FdtUp, GetImage, SleepMode
<1>8. CASE c = GetImage
  BY <1>1, <1>2, <1>3, <1>8 DEF GateOrder, MayArm, ImageStageOk, ModeOk, WasSent, StateQuery,
     FdtManual, FdtDown, FdtUp, GetImage, SleepMode
<1>9. CASE c = SleepMode
  BY <1>1, <1>2, <1>9 DEF GateOrder, MayArm, WasSent, StateQuery, FdtManual, FdtDown,
     FdtUp, GetImage, SleepMode
<1> QED BY <1>2, <1>4, <1>5, <1>6, <1>7, <1>8, <1>9

\* For any caller: each frame in its mode only, once, and in order.
THEOREM GateOrders == GateSpec => []GateOrder
<1>1. GateInit => GateOrder
  BY DEF GateInit, GateOrder, Gated, WasSent, Modes, ModeShape, StateQuery, FdtManual, FdtDown,
     FdtUp, GetImage, SleepMode
<1>2. GateTypeOK /\ GateOrder /\ [GateNext]_gateVars => GateOrder'
  <2> SUFFICES ASSUME GateTypeOK, GateOrder, [GateNext]_gateVars PROVE GateOrder'
    OBVIOUS
  <2>1. CASE \E c \in Gated : Arm(c)
    BY <2>1 DEF Arm, GateOrder, WasSent
  <2>2. CASE \E c \in Gated : Pass(c)
    BY <2>2, PassKeepsOrder
  <2>3. CASE UNCHANGED gateVars
    BY <2>3 DEF gateVars, GateOrder, WasSent
  <2> QED BY <2>1, <2>2, <2>3 DEF GateNext
<1> QED BY <1>1, <1>2, GateTypes, PTL DEF GateSpec

\* After 6.0 no frame passes that could arm or image the reader again.
THEOREM SleepIsLast == GateSpec => NothingAfterSleep
<1>1. GateTypeOK /\ GateOrder /\ [GateNext]_gateVars =>
        [WasSent(SleepMode) =>
           \A c \in {FdtDown, FdtUp, GetImage, SleepMode} : sent'[c] = sent[c]]_gateVars
  <2> SUFFICES ASSUME GateTypeOK, GateOrder, WasSent(SleepMode),
                      NEW c \in Gated, Arm(c) \/ Pass(c),
                      NEW d \in {FdtDown, FdtUp, GetImage, SleepMode}
               PROVE  sent'[d] = sent[d]
    BY DEF GateNext
  <2>1. CASE Arm(c)
    BY <2>1 DEF Arm
  <2>2. CASE Pass(c)
    <3>1. c \notin {FdtDown, FdtUp, GetImage, SleepMode}
      BY <2>2 DEF Pass, MaySend, MayArm, DownDue, ImageStageOk, GateOrder, GateTypeOK, ModeOk,
         Modes, ModeShape, WasSent, StateQuery, FdtManual, FdtDown, FdtUp, GetImage, SleepMode
    <3> QED BY <2>2, <3>1 DEF Pass, GateTypeOK, Gated
  <2> QED BY <2>1, <2>2
<1> QED BY <1>1, GateTypes, GateOrders, PTL DEF GateSpec, NothingAfterSleep

-----------------------------------------------------------------------------
(* The gate as main() opens it. *)

\* main() never asks for a wire that USBWire.__init__ would refuse.
LEMMA ModeAccepted ==
  ASSUME NEW A, FlagsOk(A) PROVE ModeOf(A) \in Modes
<1> DEFINE m == ModeOf(A)
<1>1. m \in ModeShape
  BY DEF ModeOf, ModeShape
<1>2. /\ m.touch <=> "touch" \in A
      /\ m.down <=> "down" \in A
      /\ m.up <=> "up" \in A
      /\ m.image <=> "image" \in A
      /\ m.fdt <=> "manual" \in A
  BY DEF ModeOf
<1>3. m.queries = 1 \/ "manual" \in A \/ "pre" \in A
  BY DEF ModeOf
<1>4. ModeOk(m)
  BY <1>2, <1>3 DEF FlagsOk, ModeOk
<1> QED BY <1>1, <1>4 DEF Modes

-----------------------------------------------------------------------------
(* The run uses the wire only through its gate. *)

\* Every step of the program arms or passes one command, or leaves the gate alone.
LEMMA StepOfGate == ASSUME [Next]_vars PROVE [GateNext]_gateVars
<1>1. CASE ArmStep
  <2>1. CASE MayArm(cmd)
    <3>1. cmd \in Gated
      BY <2>1 DEF MayArm, Gated
    <3> QED BY <1>1, <2>1, <3>1 DEF ArmStep, GateNext
  <2>2. CASE ~MayArm(cmd)
    BY <1>1, <2>2 DEF ArmStep
  <2> QED BY <2>1, <2>2
<1>2. CASE GateStep
  <2>1. CASE cmd \notin Open /\ MaySend(cmd)
    <3>1. cmd \in Gated
      BY <2>1 DEF MaySend, MayArm, Gated
    <3> QED BY <1>2, <2>1, <3>1 DEF GateStep, GateNext
  <2>2. CASE cmd \in Open \/ ~MaySend(cmd)
    BY <1>2, <2>2 DEF GateStep
  <2> QED BY <2>1, <2>2
<1>3. CASE UNCHANGED vars
  BY <1>3 DEF vars
<1>4. CASE Interrupt \/ Tick \/ ReaderStep
  BY <1>4 DEF Interrupt, Tick, ReaderStep
<1>5. CASE Load \/ Enter \/ Leave \/ Report \/ Handle
  BY <1>5 DEF Load, Enter, Leave, Report, Handle
<1>6. CASE Begin \/ Write \/ EnterTry \/ WriteRefused \/ WriteError
  BY <1>6 DEF Begin, Write, EnterTry, WriteRefused, WriteError
<1>7. CASE Read \/ ReadRefused \/ ReadError \/ Timeout \/ OpenWindow \/ BadFrame
  BY <1>7 DEF Read, ReadRefused, ReadError, Timeout, OpenWindow, BadFrame
<1>8. CASE AckFrame \/ ReplyFrame \/ SleepFrame \/ TlsFrame \/ TlsLimit \/ ServerStep
  BY <1>8 DEF AckFrame, ReplyFrame, SleepFrame, TlsFrame, TlsLimit, ServerStep
<1>9. CASE SaveTry \/ SaveExcept \/ SaveStats
  BY <1>9 DEF SaveTry, SaveExcept, SaveStats
<1> QED BY <1>1, <1>2, <1>3, <1>4, <1>5, <1>6, <1>7, <1>8, <1>9 DEF Next, Program

\* The run implements the gate's specification, so what the gate guarantees to
\* any caller holds in every run.
THEOREM RunUsesGate == Spec => GateSpec
<1>1. Init => GateInit
  BY ModeAccepted, RequestsAssumption DEF Init, GateInit
<1>2. [Next]_vars => [GateNext]_gateVars
  BY StepOfGate
<1> QED BY <1>1, <1>2, PTL DEF Spec, GateSpec

COROLLARY RunKeepsGate == Spec => [](GateTypeOK /\ GateOrder) /\ NothingAfterSleep
BY RunUsesGate, GateTypes, GateOrders, SleepIsLast, PTL

-----------------------------------------------------------------------------
(* Which steps belong to which phase, and what the phase says of the report. *)

Replying == {"firmware", "pre_state", "state", "fdt_manual", "fdt_state", "image", "tls"}

\* The control state is one the program can be in; sleep_ack appears, and the
\* handler is active, only in disarm() or after it.
Shape ==
  /\ phase \in Phases /\ step \in Steps
  /\ step \in {"begin", "arm", "gate", "write"} => phase \in Sending
  /\ step = "ack" => phase \in Sending \ {"tls"}
  /\ step = "try" => phase = "fdt_down"
  /\ step = "window" => phase \in Windows \cup {"image"}
  /\ step = "reply" => phase \in Windows \cup Replying
  /\ step = "server" => phase = "tls"
  /\ step \in Keeping => phase = "image"
  /\ step = "load" => phase = "start"
  /\ step \in {"find", "claim", "mark"} => phase = "enter"
  /\ phase = "end" => step \in Leaving
  /\ sleepAck # "absent" => phase \in {"disarm", "end"}
  /\ handling => phase = "disarm" /\ step \in {"begin", "arm", "gate", "write", "ack"}
  /\ step = "handler" => ~handling
  /\ code # "-" => step = "done"

\* The sets of steps are expanded everywhere below.
USE DEF Keeping, Saving, Leaving

\* What Raise does to the control state.
LEMMA RaiseShape ==
  ASSUME Shape, NEW label, Raise(label), step \in {"begin", "arm", "gate", "write", "ack", "window", "reply", "server"},
         UNCHANGED code
  PROVE  Shape'
BY DEF Raise, Shape, Swallows, Protected, Steps

\* What moving on to the next phase does to it.
LEMMA ProceedShape ==
  ASSUME Shape, NEW e, Proceed(e), UNCHANGED code,
         phase \notin {"disarm", "end"}, step \notin {"handler", "done"}, phase \in Phases
  PROVE  Shape'
<1>1. phase' \in (Sending \cup Windows \cup {"end"})
  BY DEF Proceed, After, Sending, Windows
<1>2. step' = Entry(phase')
  BY DEF Proceed
<1>3. CASE phase' \in Windows
  BY <1>1, <1>2, <1>3 DEF Entry, Proceed, Shape, Phases, Sending, Windows, Steps
<1>4. CASE phase' = "tls"
  BY <1>1, <1>2, <1>4 DEF Entry, Proceed, Shape, Phases, Sending, Windows, Steps, Replying
<1>5. CASE phase' = "end"
  BY <1>1, <1>2, <1>5 DEF Entry, Proceed, Shape, Phases, Sending, Windows, Steps
<1>6. CASE phase' \in Sending \ {"tls"}
  BY <1>1, <1>2, <1>6 DEF Entry, Proceed, Shape, Phases, Sending, Windows, Steps
<1> QED BY <1>1, <1>3, <1>4, <1>5, <1>6
LEMMA ShapeStep == ASSUME Shape, [Next]_vars PROVE Shape'
<1> USE DEF useVars
<1>1. CASE Load \/ Enter
  BY <1>1 DEF Shape, Load, Enter, repVars, Phases, Windows, Sending, Steps
<1>2. CASE Leave \/ Report
  BY <1>2 DEF Shape, Leave, Report, Finally, repVars, Steps
<1>3. CASE Handle
  BY <1>3 DEF Shape, Handle, repVars, Phases, Sending, Steps
<1>4. CASE Begin
  <2>1. CASE RoutineOk
    BY <1>4, <2>1 DEF Begin, Shape, Steps, Sending
  <2>2. CASE ~RoutineOk
    BY <1>4, <2>2, RaiseShape DEF Begin
  <2> QED BY <2>1, <2>2
<1>5. CASE ArmStep
  <2>1. CASE MayArm(cmd)
    BY <1>5, <2>1 DEF ArmStep, Stay, Shape, Steps, Sending
  <2>2. CASE ~MayArm(cmd)
    BY <1>5, <2>2, RaiseShape DEF ArmStep
  <2> QED BY <2>1, <2>2
<1>6. CASE GateStep
  <2>1. CASE cmd \in Open \/ MaySend(cmd)
    BY <1>6, <2>1 DEF GateStep, Stay, Shape, Steps, Sending
  <2>2. CASE ~(cmd \in Open \/ MaySend(cmd))
    BY <1>6, <2>2, RaiseShape DEF GateStep
  <2> QED BY <2>1, <2>2
<1>7. CASE Write
  <2>1. CASE phase = "tls" /\ secure
    BY <1>7, <2>1, ProceedShape DEF Write, Shape
  <2>2. CASE ~(phase = "tls" /\ secure)
    <3>1. step' = Written /\ Stay /\ UNCHANGED code /\ phase \in Sending
      BY <1>7, <2>2 DEF Write, Shape
    <3> QED BY <3>1, <1>7 DEF Written, Write, Stay, Shape, Steps, Replying, Sending
  <2> QED BY <2>1, <2>2
<1>8. CASE EnterTry
  BY <1>8 DEF EnterTry, Shape, repVars, Steps, Sending
<1>9. CASE WriteRefused \/ WriteError \/ ReadRefused \/ ReadError \/ BadFrame \/ TlsLimit
  BY <1>9, RaiseShape DEF WriteRefused, WriteError, ReadRefused, ReadError, BadFrame, TlsLimit,
     Receiving
<1>10. CASE Read
  BY <1>10 DEF Read, Shape, ctlVars, repVars
<1>11. CASE Timeout
  <2>1. CASE NoReplyIsFine
    <3>1. phase \in Phases /\ phase \notin {"disarm", "end"} /\ step \in {"ack", "reply"}
      BY <1>11, <2>1 DEF Timeout, Receiving, NoReplyIsFine, Windowed, Windows, Shape
    <3> QED BY <1>11, <2>1, <3>1, ProceedShape DEF Timeout
  <2>2. CASE ~NoReplyIsFine
    BY <1>11, <2>2, RaiseShape DEF Timeout, Receiving
  <2> QED BY <2>1, <2>2
<1>12. CASE OpenWindow
  <2>1. CASE MayOpen /\ clock = "ample"
    BY <1>12, <2>1 DEF OpenWindow, Stay, Shape, Steps, Replying, Sending, Windows
  <2>2. CASE ~(MayOpen /\ clock = "ample")
    BY <1>12, <2>2, RaiseShape DEF OpenWindow
  <2> QED BY <2>1, <2>2
<1>13. CASE AckFrame
  <2>1. CASE Head(pipe) # Ack(cmd)
    BY <1>13, <2>1, RaiseShape DEF AckFrame
  <2>2. CASE Head(pipe) = Ack(cmd)
    <3>1. CASE phase \in {"firmware", "pre_state", "state", "fdt_manual", "fdt_state"}
      BY <1>13, <2>2, <3>1 DEF AckFrame, Stay, Shape, Steps, Replying
    <3>2. CASE phase = "image"
      BY <1>13, <2>2, <3>2 DEF AckFrame, Stay, Shape, Steps
    <3>3. CASE phase \notin {"firmware", "pre_state", "state", "fdt_manual", "fdt_state", "image"}
      <4>1. Proceed(downEvent) /\ UNCHANGED code /\ step = "ack" /\ phase # "disarm"
        BY <1>13, <2>2, <3>3 DEF AckFrame
      <4>2. phase \in Phases /\ phase # "end"
        BY <4>1 DEF Shape
      <4> QED BY <4>1, <4>2, ProceedShape
    <3> QED BY <3>1, <3>2, <3>3
  <2> QED BY <2>1, <2>2
<1>14. CASE ReplyFrame
  <2>1. phase \in Phases \ {"disarm", "end"} /\ step = "reply" /\ UNCHANGED code
    BY <1>14 DEF ReplyFrame, Shape, Windows, Replying
  <2>2. CASE Raise("reply")
    BY <2>1, <2>2, RaiseShape
  <2>3. CASE Proceed(IF phase = "down_event" THEN "yes" ELSE downEvent)
    BY <2>1, <2>3, ProceedShape
  <2>4. CASE phase = "image" /\ step' = "mkdir" /\ Stay
    BY <2>1, <2>4 DEF Stay, Shape, Steps
  <2> QED BY <1>14, <2>2, <2>3, <2>4 DEF ReplyFrame, WantsImage
<1>15. CASE SleepFrame
  <2>1. step = "ack" /\ phase = "disarm" /\ UNCHANGED code
    BY <1>15 DEF SleepFrame
  <2>2. CASE Raise("ack")
    BY <2>1, <2>2, RaiseShape
  <2>3. CASE Disarmed
    BY <2>1, <2>3 DEF Disarmed, Shape, Phases, Steps
  <2>4. CASE UNCHANGED <<ctlVars, sleepAck>>
    BY <2>1, <2>4 DEF Shape, ctlVars
  <2> QED BY <1>15, <2>2, <2>3, <2>4 DEF SleepFrame
<1>16. CASE TlsFrame
  <2>1. CASE Head(pipe) = Tls
    BY <1>16, <2>1 DEF TlsFrame, Stay, Shape, Steps
  <2>2. CASE Head(pipe) # Tls
    BY <1>16, <2>2, RaiseShape DEF TlsFrame
  <2> QED BY <2>1, <2>2
<1>17. CASE ServerStep
  <2>1. step = "server" /\ phase = "tls" /\ UNCHANGED code
    BY <1>17 DEF ServerStep, Shape
  <2>2. CASE Raise("tls")
    BY <2>1, <2>2, RaiseShape
  <2>3. CASE Proceed(downEvent)
    BY <2>1, <2>3, ProceedShape DEF Shape
  <2>4. CASE step' \in {"gate", "reply"} /\ Stay
    BY <2>1, <2>4 DEF Stay, Shape, Steps, Sending, Replying
  <2> QED BY <1>17, <2>2, <2>3, <2>4 DEF ServerStep
<1>18. CASE Interrupt
  <2>1. /\ UNCHANGED <<phase, sleepAck>> /\ step # "done"
        /\ handling' = FALSE
        /\ code' # "-" => step = "report" \/ code # "-"
    BY <1>18 DEF Interrupt, repVars
  <2>2. CASE step \in {"load", "report", "exit", "release", "dispose", "dispose_failing"}
    <3>1. step' \in Leaving /\ (step = "report" => step' = "done")
      BY <1>18, <2>2 DEF Interrupt, Finally, Cleaned
    <3> QED BY <2>1, <2>2, <3>1 DEF Shape, Steps
  <2>3. CASE step \notin {"load", "report", "exit", "release", "dispose", "dispose_failing"}
    <3>1. \/ step' = "exit" \/ (step' = "handler" /\ Protected)
          \/ step' = "unlink" /\ step \in Keeping
      BY <1>18, <2>3 DEF Interrupt, Cleaned
    <3> QED BY <2>1, <2>3, <3>1 DEF Shape, Steps, Protected
  <2> QED BY <2>2, <2>3
<1>19. CASE Tick \/ ReaderStep \/ UNCHANGED vars
  BY <1>19 DEF Tick, ReaderStep, vars, Shape, ctlVars, repVars
<1>20. CASE SaveTry \/ SaveExcept
  <2>1. /\ phase = "image" /\ UNCHANGED <<phase, sleepAck, handling, code>>
        /\ step \in Keeping /\ step' \in Keeping \cup {"handler", "exit"}
    BY <1>20 DEF SaveTry, SaveExcept, SaveGoes, SaveFails, Create, Note, Fill, Stay, repVars, Shape
  <2> QED BY <2>1 DEF Shape, Steps
<1>21. CASE SaveStats
  <2>1. phase = "image" /\ step = "stats" /\ UNCHANGED code /\ Proceed(downEvent)
    BY <1>21 DEF SaveStats, Shape
  <2> QED BY <2>1, ProceedShape DEF Phases, Sending
<1> QED BY <1>1, <1>2, <1>3, <1>4, <1>5, <1>6, <1>7, <1>8, <1>9, <1>10, <1>11, <1>12, <1>13, <1>14,
           <1>15, <1>16, <1>17, <1>18, <1>19, <1>20, <1>21 DEF Next, Program

LEMMA AlwaysShape == Spec => []Shape
<1>1. Init => Shape
  BY DEF Init, Shape, Phases, Steps
<1> QED BY <1>1, ShapeStep, PTL DEF Spec

-----------------------------------------------------------------------------
(* Why 6.0 follows 3.1. SleepAlwaysTried looks at the end of a run; what is
   inductive is where the program can be while 3.1 is out and 6.0 is not. *)

\* The 6.0 is still ahead: before the try, in it with no disarm begun, on the
\* way to the gate in disarm(), or in a handler that will call disarm().
SleepAhead ==
  \/ phase = "fdt_down" /\ step \in {"try", "ack"}
  \/ /\ phase \in {"down_event", "fdt_up", "up_event"} \/ (phase = "image" /\ "touch" \in args)
     /\ step \in Keeping \cup {"begin", "arm", "gate", "write", "ack", "window", "reply"}
  \/ phase = "disarm" /\ step = "begin" /\ sleepAck = "absent"
  \/ phase = "disarm" /\ step \in {"arm", "gate"}
  \/ step = "handler" /\ sleepAck = "absent"

SleepInv ==
  /\ seen \in [Command -> Nat]
  /\ step = "gate" /\ cmd \in Gated => armed[cmd]
  /\ step = "write" /\ cmd \in Gated => WasSent(cmd)
  /\ seen[FdtDown] > 0 => WasSent(FdtDown)
  /\ seen[FdtDown] > 0 /\ ~exposed /\ ~WasSent(SleepMode) => SleepAhead

\* An exception, other than in disarm() before its 6.0 has passed the gate,
\* keeps the 6.0 ahead: inside the try it leads to the handler.
LEMMA RaiseSleep ==
  ASSUME Shape, SleepInv, NEW label, Raise(label),
         step \in {"begin", "arm", "gate", "write", "ack", "window", "reply", "server"},
         phase = "disarm" => step \notin {"begin", "arm", "gate"},
         UNCHANGED <<args, gateVars, seen>>,
         exposed => exposed'
  PROVE  SleepInv'
<1>1. step' \in {"exit", "handler"} /\ phase' = phase
  BY DEF Raise, Swallows
<1>2. ASSUME seen[FdtDown] > 0, ~exposed, ~WasSent(SleepMode) PROVE SleepAhead'
  <2>1. SleepAhead
    BY <1>2 DEF SleepInv
  <2>2. Protected /\ phase # "disarm" /\ sleepAck = "absent" /\ ~handling
    BY <2>1 DEF SleepAhead, Shape, Protected
  <2>3. step' = "handler" /\ sleepAck' = sleepAck
    BY <2>2 DEF Raise, Swallows
  <2> QED BY <2>2, <2>3 DEF SleepAhead
<1> QED BY <1>1, <1>2 DEF SleepInv, gateVars, WasSent

\* So does moving on to the next phase.
LEMMA ProceedSleep ==
  ASSUME Shape, SleepInv, NEW e, Proceed(e),
         step \in {"write", "ack", "reply", "server", "stats"},
         phase \in Phases \ {"disarm", "end"},
         UNCHANGED <<args, gateVars, exposed, seen>>
  PROVE  SleepInv'
<1>1. step' = Entry(phase') /\ phase' = After(phase, e) /\ sleepAck' = sleepAck
  BY DEF Proceed
<1>2. step' \notin {"gate", "write"}
  BY <1>1 DEF Entry
<1>3. ASSUME seen[FdtDown] > 0, ~exposed, ~WasSent(SleepMode) PROVE SleepAhead'
  <2>1. phase \in {"fdt_down", "down_event", "fdt_up", "up_event"}
          \/ (phase = "image" /\ "touch" \in args)
    BY <1>3 DEF SleepInv, SleepAhead
  <2>2. phase' \in {"down_event", "fdt_up", "up_event", "disarm"}
          \/ (phase' = "image" /\ "touch" \in args)
    BY <1>1, <2>1 DEF After
  <2>3. step' \in {"window", "begin"}
    BY <1>1, <2>2 DEF Entry, Windows
  <2>4. sleepAck = "absent"
    BY <2>1 DEF Shape
  <2>5. phase' = "disarm" => step' = "begin"
    BY <1>1 DEF Entry, Windows
  <2> QED BY <1>1, <2>2, <2>3, <2>4, <2>5 DEF SleepAhead
<1> QED BY <1>2, <1>3 DEF SleepInv, gateVars, WasSent

\* send() and the write: 3.1 reaches the reader only after passing the gate, and
\* then the program is at the try, or an error has left fdt_down() uncaught.
LEMMA WriteSleep ==
  ASSUME Shape, SleepInv, Write \/ WriteError PROVE SleepInv'
<1>1. /\ step = "write" /\ phase \in Sending
      /\ UNCHANGED <<args, gateVars, code>>
  BY DEF Write, WriteError, Shape, useVars
<1>6. exposed => exposed'
  BY Zenon DEF Write, WriteError
<1>2. seen' = seen \/ (cmd \in Command /\ seen' = [seen EXCEPT ![cmd] = @ + 1])
  <2>1. cmd \in Command
    BY <1>1 DEF CommandOf, cmd, Sending, Command, Gated, Open
  <2> QED BY <2>1 DEF Write, WriteError, Take, sensorVars
<1>3. seen' \in [Command -> Nat]
  BY <1>2 DEF SleepInv
<1>4. CASE phase = "fdt_down"
  <2>1. cmd = FdtDown /\ WasSent(FdtDown)
    BY <1>1, <1>4 DEF SleepInv, cmd, CommandOf, Gated
  <2>2. CASE Write
    <3>1. step' = "try" /\ phase' = "fdt_down"
      BY <1>4, <2>2 DEF Write, Written, Stay
    <3> QED BY <1>1, <1>6, <1>3, <2>1, <3>1 DEF SleepInv, SleepAhead, gateVars, WasSent
  <2>3. CASE WriteError
    <3>1. exposed' /\ step' \notin {"gate", "write"}
      BY <1>4, <2>3 DEF WriteError, Raise
    <3> QED BY <1>1, <1>3, <2>1, <3>1 DEF SleepInv, gateVars, WasSent
  <2> QED BY <2>2, <2>3
<1>5. CASE phase # "fdt_down"
  <2>1. seen'[FdtDown] = seen[FdtDown]
    <3>1. cmd # FdtDown
      BY <1>1, <1>5 DEF cmd, CommandOf, Sending, StateQuery, FdtManual, FdtDown, FdtUp, GetImage,
         SleepMode
    <3>2. FdtDown \in Command
      BY DEF Command, Gated
    <3> QED BY <1>2, <3>1, <3>2 DEF SleepInv
  <2>2. ASSUME seen[FdtDown] > 0, ~exposed', ~WasSent(SleepMode) PROVE SleepAhead'
    <3>1. SleepAhead /\ step = "write"
      BY <1>1, <1>6, <2>2 DEF SleepInv
    <3>2. Protected /\ phase # "disarm" /\ sleepAck = "absent" /\ ~handling /\ phase # "tls"
      BY <1>5, <3>1 DEF SleepAhead, Shape, Protected
    <3>3. CASE Write
      <4>1. step' = "ack" /\ UNCHANGED <<phase, args>>
        BY <1>1, <1>5, <3>2, <3>3 DEF Write, Written, Stay
      <4> QED BY <1>5, <3>1, <3>2, <4>1 DEF SleepAhead
    <3>4. CASE WriteError
      <4>1. step' = "handler" /\ UNCHANGED sleepAck
        BY <3>2, <3>4 DEF WriteError, Raise, Swallows
      <4> QED BY <3>2, <4>1 DEF SleepAhead
    <3> QED BY <3>3, <3>4
  <2>3. step' \notin {"gate", "write"}
    <3>1. CASE Write
      <4>1. step' = Written \/ step' = Entry(phase')
        BY <3>1 DEF Write, Proceed
      <4> QED BY <4>1 DEF Written, Entry
    <3>2. CASE WriteError
      BY <3>2 DEF WriteError, Raise
    <3> QED BY <3>1, <3>2
  <2> QED BY <1>1, <1>3, <2>1, <2>2, <2>3 DEF SleepInv, gateVars, WasSent
<1> QED BY <1>4, <1>5

\* report.update, arm and send's flags. In disarm() none of them can refuse, for
\* 3.1 has been sent and 6.0 has not.
LEMMA GateSleep ==
  ASSUME GateTypeOK, Shape, SleepInv, Begin \/ ArmStep \/ GateStep PROVE SleepInv'
<1> USE DEF WasSent
<1>1. /\ step \in {"begin", "arm", "gate"} /\ phase \in Sending
      /\ UNCHANGED <<args, seen, exposed, code>>
  BY DEF Begin, ArmStep, GateStep, Shape, useVars, linkVars, sensorVars
<1>2. phase = "disarm" => cmd = SleepMode
  BY DEF cmd, CommandOf
<1>3. SleepMode \in Gated /\ FdtDown \in Gated /\ SleepMode \notin Open
  BY DEF Gated, Open, SleepMode
<1>4. CASE Begin
  <2>1. CASE RoutineOk
    <3>1. /\ step' \in {"arm", "gate"} /\ (cmd \in Gated => step' = "arm")
          /\ UNCHANGED <<phase, gateVars>>
      BY <1>4, <2>1 DEF Begin
    <3>2. cmd' = cmd
      BY <3>1 DEF cmd, CommandOf
    <3>3. step' = "gate" => cmd \notin Gated
      BY <3>1
    <3>4. SleepAhead => SleepAhead'
      BY <1>1, <3>1, <1>4 DEF SleepAhead, Begin
    <3> QED BY <1>1, <3>1, <3>2, <3>3, <3>4 DEF SleepInv, gateVars
  <2>2. CASE ~RoutineOk
    <3>1. phase # "disarm"
      BY <2>2 DEF RoutineOk
    <3> QED BY <1>1, <1>4, <2>2, <3>1, RaiseSleep DEF Begin
  <2> QED BY <2>1, <2>2
<1>5. CASE ArmStep
  <2>1. CASE MayArm(cmd)
    <3>1. cmd \in Gated
      BY <2>1 DEF MayArm, Gated
    <3>2. /\ step' = "gate" /\ UNCHANGED <<phase, sleepAck, sent>>
          /\ armed' = [armed EXCEPT ![cmd] = TRUE]
      BY <1>5, <2>1 DEF ArmStep, Arm, Stay
    <3>3. cmd' = cmd /\ armed'[cmd] = TRUE
      BY <3>1, <3>2 DEF cmd, CommandOf, GateTypeOK
    <3>4. SleepAhead => SleepAhead'
      BY <1>1, <1>5, <3>2 DEF SleepAhead, ArmStep
    <3> QED BY <1>1, <3>2, <3>3, <3>4 DEF SleepInv
  <2>2. CASE ~MayArm(cmd)
    <3>1. CASE phase = "disarm"
      <4>1. ~(seen[FdtDown] > 0 /\ ~WasSent(SleepMode))
        BY <1>2, <2>2, <3>1 DEF SleepInv, MayArm
      <4>2. step' \in {"exit", "handler"} /\ UNCHANGED gateVars
        BY <1>5, <2>2 DEF ArmStep, Raise
      <4> QED BY <1>1, <4>1, <4>2 DEF SleepInv, gateVars
    <3>2. CASE phase # "disarm"
      BY <1>1, <1>5, <2>2, <3>2, RaiseSleep DEF ArmStep
    <3> QED BY <3>1, <3>2
  <2> QED BY <2>1, <2>2
<1>6. CASE GateStep
  <2>1. CASE cmd \in Open
    <3>1. /\ step' = "write" /\ UNCHANGED <<phase, sleepAck, gateVars>> /\ phase # "disarm"
      BY <1>2, <1>3, <1>6, <2>1 DEF GateStep, Stay
    <3>2. cmd' = cmd /\ cmd \notin Gated
      BY <2>1, <3>1 DEF cmd, CommandOf, Open, Gated, StateQuery, FdtManual, FdtDown, FdtUp,
         GetImage, SleepMode
    <3>3. SleepAhead => SleepAhead'
      BY <1>1, <1>6, <3>1 DEF SleepAhead, GateStep
    <3> QED BY <1>1, <3>1, <3>2, <3>3 DEF SleepInv, gateVars
  <2>2. CASE cmd \notin Open /\ MaySend(cmd)
    <3>1. cmd \in Gated
      BY <2>2 DEF MaySend, MayArm, Gated
    <3>2. /\ step' = "write" /\ UNCHANGED <<phase, sleepAck>>
          /\ sent' = [sent EXCEPT ![cmd] = @ + 1]
      BY <1>6, <2>2 DEF GateStep, Pass, Stay
    <3>7. \A c \in Gated : sent'[c] >= sent[c] /\ {sent[c], sent'[c]} \subseteq Nat
      BY <3>1, <3>2 DEF GateTypeOK
    <3>3. cmd' = cmd
      BY <3>2 DEF cmd, CommandOf
    <3>4. sent'[cmd] > 0
      BY <3>1, <3>2 DEF GateTypeOK
    <3>5. SleepAhead /\ sent'[SleepMode] = 0 => SleepAhead'
      <4>1. phase = "disarm" => sent'[SleepMode] > 0
        BY <1>2, <3>4
      <4> QED BY <1>1, <1>6, <3>2, <4>1 DEF SleepAhead, GateStep
    <3>6. ~(sent'[SleepMode] > 0) => sent'[SleepMode] = 0 /\ ~(sent[SleepMode] > 0)
      BY <1>3, <3>7
    <3> QED BY <1>1, <1>3, <3>2, <3>3, <3>4, <3>5, <3>6, <3>7 DEF SleepInv
  <2>3. CASE cmd \notin Open /\ ~MaySend(cmd)
    <3>1. CASE phase = "disarm"
      <4>1. ~(seen[FdtDown] > 0 /\ ~WasSent(SleepMode))
        BY <1>2, <1>3, <1>6, <2>3, <3>1 DEF SleepInv, MaySend, MayArm, GateStep
      <4>2. step' \in {"exit", "handler"} /\ UNCHANGED gateVars
        BY <1>6, <2>3 DEF GateStep, Raise
      <4> QED BY <1>1, <4>1, <4>2 DEF SleepInv, gateVars
    <3>2. CASE phase # "disarm"
      BY <1>1, <1>6, <2>3, <3>2, RaiseSleep DEF GateStep
    <3> QED BY <3>1, <3>2
  <2> QED BY <2>1, <2>2, <2>3
<1> QED BY <1>4, <1>5, <1>6

\* Ctrl-C: the places where it leaves past the handler are those PastHandler names.
LEMMA InterruptSleep == ASSUME Shape, SleepInv, Interrupt PROVE SleepInv'
<1>1. /\ UNCHANGED <<args, phase, sleepAck, gateVars, seen>>
      /\ step' \notin {"gate", "write"}
  BY DEF Interrupt, repVars, linkVars, sensorVars, Finally
<1>2. exposed' <=> exposed \/ PastHandler
  BY Zenon DEF Interrupt
<1>3. ASSUME seen[FdtDown] > 0, ~exposed', ~WasSent(SleepMode) PROVE SleepAhead'
  <2>1. SleepAhead /\ ~PastHandler
    BY <1>2, <1>3 DEF SleepInv
  <2>2. Protected /\ ~handling /\ step # "handler" /\ sleepAck = "absent"
    BY <2>1 DEF SleepAhead, PastHandler, Protected, Shape
  <2>4. CASE step \in Cleaned
    <3>1. step' = "unlink" /\ step \in Keeping
      BY <2>4 DEF Interrupt, Cleaned
    <3> QED BY <1>1, <2>1, <3>1 DEF SleepAhead, Shape
  <2>3. ASSUME step \notin Cleaned PROVE step' = "handler"
    <3>1. step \notin {"report", "load", "dispose", "dispose_failing", "exit", "release"}
      BY <2>1 DEF SleepAhead
    <3> QED BY <2>2, <2>3, <3>1 DEF Interrupt
  <2> QED BY <1>1, <2>2, <2>3, <2>4 DEF SleepAhead
<1>4. exposed => exposed'
  BY <1>2
<1> QED BY <1>1, <1>3, <1>4 DEF SleepInv, gateVars, WasSent

\* A step that leaves phase, sleep_ack and the gate alone, and at most turns try
\* or ack into another step inside the try.
LEMMA QuietSleep ==
  ASSUME SleepInv, UNCHANGED <<args, phase, sleepAck, gateVars, seen, exposed>>,
         step' \notin {"gate", "write"} \/ step' = step,
         SleepAhead => SleepAhead'
  PROVE  SleepInv'
<1>1. cmd' = cmd
  BY DEF cmd, CommandOf
<1> QED BY <1>1 DEF SleepInv, gateVars, WasSent

LEMMA SleepStep == ASSUME GateTypeOK, Shape, SleepInv, [Next]_vars PROVE SleepInv'
<1>1. CASE Load \/ Enter \/ Leave \/ Report
  <2>1. /\ UNCHANGED <<args, sleepAck, gateVars, seen, exposed>>
        /\ step' \notin {"gate", "write"}
    BY <1>1 DEF Load, Enter, Leave, Report, Finally, repVars, linkVars, sensorVars, histVars
  <2>2. ~SleepAhead
    BY <1>1 DEF Load, Enter, Leave, Report, SleepAhead
  <2> QED BY <2>1, <2>2 DEF SleepInv, gateVars, WasSent
<1>2. CASE Handle
  <2>1. /\ UNCHANGED <<args, sleepAck, gateVars, seen, exposed>>
        /\ step' \notin {"gate", "write"}
    BY <1>2 DEF Handle, repVars, histVars, sensorVars
  <2>2. SleepAhead => SleepAhead'
    BY <1>2, <2>1 DEF Handle, SleepAhead
  <2> QED BY <2>1, <2>2 DEF SleepInv, gateVars, WasSent
<1>3. CASE Begin \/ ArmStep \/ GateStep
  BY <1>3, GateSleep
<1>4. CASE Write \/ WriteError
  BY <1>4, WriteSleep
<1>5. CASE EnterTry
  <2>1. UNCHANGED <<args, phase, sleepAck, gateVars, seen, exposed>> /\ step' = "ack"
    BY <1>5 DEF EnterTry, repVars, histVars, linkVars, sensorVars
  <2>2. SleepAhead => SleepAhead'
    BY <1>5, <2>1 DEF SleepAhead, EnterTry
  <2> QED BY <2>1, <2>2, QuietSleep
<1>6. CASE WriteRefused \/ ReadRefused \/ ReadError \/ BadFrame \/ TlsLimit
  BY <1>6, RaiseSleep DEF WriteRefused, ReadRefused, ReadError, BadFrame, TlsLimit, Receiving,
     linkVars, sensorVars
<1>7. CASE Read
  BY <1>7, QuietSleep DEF Read, ctlVars, repVars, histVars, sensorVars, SleepAhead
<1>8. CASE Timeout
  <2>1. UNCHANGED <<args, gateVars, seen, exposed, code>> /\ step \in {"ack", "reply"}
    BY <1>8 DEF Timeout, Receiving, linkVars, sensorVars, useVars
  <2>2. CASE NoReplyIsFine
    <3>1. phase \in Phases \ {"disarm", "end"}
      BY <2>1, <2>2 DEF NoReplyIsFine, Windowed, Windows, Shape
    <3> QED BY <1>8, <2>1, <2>2, <3>1, ProceedSleep DEF Timeout
  <2>3. CASE ~NoReplyIsFine
    BY <1>8, <2>1, <2>3, RaiseSleep DEF Timeout
  <2> QED BY <2>2, <2>3
<1>9. CASE OpenWindow
  <2>1. UNCHANGED <<args, gateVars, seen, exposed>> /\ step = "window"
    BY <1>9 DEF OpenWindow, linkVars, sensorVars
  <2>2. CASE MayOpen /\ clock = "ample"
    <3>1. step' = "reply" /\ UNCHANGED <<phase, sleepAck>>
      BY <1>9, <2>2 DEF OpenWindow, Stay
    <3> QED BY <2>1, <3>1, QuietSleep DEF SleepAhead
  <2>3. CASE ~(MayOpen /\ clock = "ample")
    BY <1>9, <2>1, <2>3, RaiseSleep DEF OpenWindow
  <2> QED BY <2>2, <2>3
<1>10. CASE AckFrame
  <2>1. UNCHANGED <<args, gateVars, seen, exposed>> /\ step = "ack" /\ phase # "disarm"
    BY <1>10 DEF AckFrame, sensorVars
  <2>2. CASE Raise("ack")
    BY <2>1, <2>2, RaiseSleep
  <2>3. CASE /\ step' \in {"reply", "window"} /\ Stay
             /\ phase \in {"firmware", "pre_state", "state", "fdt_manual", "fdt_state", "image"}
    <3>1. UNCHANGED <<phase, sleepAck>>
      BY <2>3 DEF Stay
    <3>2. SleepAhead => SleepAhead'
      BY <2>1, <2>3, <3>1 DEF SleepAhead
    <3> QED BY <2>1, <2>3, <3>1, <3>2, QuietSleep
  <2>4. CASE Proceed(downEvent)
    BY <2>1, <2>4, ProceedSleep DEF Shape
  <2> QED BY <1>10, <2>2, <2>3, <2>4 DEF AckFrame
<1>11. CASE ReplyFrame
  <2>1. UNCHANGED <<args, gateVars, seen, exposed>> /\ step = "reply"
    BY <1>11 DEF ReplyFrame, sensorVars
  <2>2. phase \in Phases \ {"disarm", "end"}
    BY <2>1 DEF Shape, Windows, Replying
  <2>3. CASE Raise("reply")
    BY <2>1, <2>3, RaiseSleep
  <2>4. CASE Proceed(IF phase = "down_event" THEN "yes" ELSE downEvent)
    BY <2>1, <2>2, <2>4, ProceedSleep
  <2>5. CASE phase = "image" /\ step' = "mkdir" /\ Stay
    <3>1. UNCHANGED <<phase, sleepAck>>
      BY <2>5 DEF Stay
    <3> QED BY <2>1, <2>5, <3>1, QuietSleep DEF SleepAhead
  <2> QED BY <1>11, <2>3, <2>4, <2>5 DEF ReplyFrame, WantsImage
<1>12. CASE SleepFrame
  <2>1. UNCHANGED <<args, gateVars, seen, exposed>> /\ step = "ack" /\ phase = "disarm"
    BY <1>12 DEF SleepFrame, sensorVars
  <2>2. CASE Raise("ack")
    BY <2>1, <2>2, RaiseSleep
  <2>3. CASE step' = "exit" \/ UNCHANGED ctlVars
    <3>1. ~SleepAhead
      BY <2>1 DEF SleepAhead
    <3>2. step' \notin {"gate", "write"}
      BY <2>1, <2>3 DEF ctlVars
    <3> QED BY <2>1, <3>1, <3>2 DEF SleepInv, gateVars, WasSent
  <2> QED BY <1>12, <2>2, <2>3 DEF SleepFrame, Disarmed
<1>13. CASE TlsFrame \/ ServerStep
  <2>1. UNCHANGED <<args, gateVars, seen, exposed>> /\ phase = "tls" /\ step \in {"reply", "server"}
    BY <1>13 DEF TlsFrame, ServerStep, Shape, linkVars, sensorVars
  <2>2. ~SleepAhead
    BY <2>1 DEF SleepAhead
  <2>3. CASE Raise("reply") \/ Raise("tls")
    BY <2>1, <2>3, RaiseSleep
  <2>4. CASE Proceed(downEvent)
    BY <2>1, <2>4, ProceedSleep DEF Phases, Sending
  <2>5. CASE Stay
    <3>1. cmd' = "TLS"
      BY <2>1, <2>5 DEF Stay, cmd, CommandOf
    <3>2. "TLS" \notin Gated
      BY DEF Gated, StateQuery, FdtManual, FdtDown, FdtUp, GetImage, SleepMode
    <3> QED BY <2>1, <2>2, <3>1, <3>2 DEF SleepInv, gateVars, WasSent
  <2> QED BY <1>13, <2>3, <2>4, <2>5 DEF TlsFrame, ServerStep
<1>14. CASE Interrupt
  BY <1>14, InterruptSleep
<1>15. CASE Tick \/ ReaderStep \/ UNCHANGED vars
  <2>1. UNCHANGED <<args, phase, step, sleepAck, gateVars, seen, exposed>>
    BY <1>15 DEF Tick, ReaderStep, Reader, Finger, Misdeliver, vars, ctlVars, repVars, histVars,
       linkVars, sensorVars
  <2> QED BY <2>1, QuietSleep DEF SleepAhead
<1>16. CASE SaveTry \/ SaveExcept
  <2>1. /\ UNCHANGED <<args, gateVars, seen, exposed, phase, sleepAck>>
        /\ step' \notin {"gate", "write"}
    BY <1>16 DEF SaveTry, SaveExcept, SaveGoes, SaveFails, Create, Note, Fill, Stay, repVars,
       histVars, linkVars, sensorVars
  <2>2. ASSUME SleepAhead PROVE SleepAhead'
    <3>1. phase = "image" /\ "touch" \in args /\ sleepAck = "absent"
      BY <1>16, <2>2 DEF SleepAhead, SaveTry, SaveExcept, Shape
    <3>2. step' \in Keeping \cup {"handler"}
      BY <1>16, <3>1 DEF SaveTry, SaveExcept, SaveGoes, SaveFails, Create, Note, Fill, Protected
    <3> QED BY <2>1, <3>1, <3>2 DEF SleepAhead
  <2> QED BY <2>1, <2>2, QuietSleep
<1>17. CASE SaveStats
  <2>1. /\ UNCHANGED <<args, gateVars, seen, exposed>> /\ step = "stats"
        /\ phase = "image" /\ Proceed(downEvent)
    BY <1>17 DEF SaveStats, linkVars, sensorVars, Shape
  <2> QED BY <2>1, ProceedSleep DEF Phases, Sending
<1> QED BY <1>1, <1>2, <1>3, <1>4, <1>5, <1>6, <1>7, <1>8, <1>9, <1>10, <1>11, <1>12, <1>13, <1>14,
           <1>15, <1>16, <1>17 DEF Next, Program

LEMMA AlwaysSleep == Spec => []SleepInv
<1>1. Init => SleepInv
  <2>1. FdtDown \in Command
    BY DEF Command, Gated
  <2> QED BY <2>1 DEF Init, SleepInv, LinkInit
<1>2. GateTypeOK /\ Shape /\ SleepInv /\ [Next]_vars => SleepInv'
  BY SleepStep
<1> QED BY <1>1, <1>2, AlwaysShape, RunKeepsGate, PTL DEF Spec

\* Once 3.1 has reached the reader, every run that ends has sent its 6.0, unless
\* an exception left where PastHandler and the write of 3.1 say it can.
THEOREM SleepIsTried == Spec => []SleepAlwaysTried
<1>1. Shape /\ SleepInv => SleepAlwaysTried
  BY DEF Shape, SleepInv, SleepAlwaysTried, SleepAhead
<1> QED BY <1>1, AlwaysShape, AlwaysSleep, PTL

-----------------------------------------------------------------------------
(* What the report of a run is worth: the interface, the files, the first error
   and the exit code, for every number of faults and interrupts. *)

USE DEF Keeping, Saving, Leaving

Before  == {"load", "find", "claim", "mark"}
Working == {"begin", "arm", "gate", "write", "ack", "window", "reply", "server"}

-----------------------------------------------------------------------------
(* Where the actions lead. *)

LEMMA RaiseLeads ==
  ASSUME NEW label, Raise(label)
  PROVE  step' \in {"exit", "handler"} /\ phase' = phase
BY DEF Raise

LEMMA ProceedLeads ==
  ASSUME NEW e, Proceed(e) PROVE step' \in {"window", "reply", "exit", "begin"}
BY DEF Proceed, Entry

\* The steps between __enter__ and __exit__, which leave the interface alone.
Inside == /\ step \notin Before \cup Leaving
          /\ step' \notin Before \cup (Leaving \ {"exit"})

LEMMA InBetween ==
  ASSUME Shape, [Next]_vars, ~(Load \/ Enter \/ Leave \/ Report \/ Interrupt)
  PROVE  UNCHANGED <<useVars, interrupts>> /\ (step' = step \/ Inside)
<1> USE DEF Before
<1>1. CASE Handle
  BY <1>1 DEF Handle, envVars, Inside, useVars
<1>2. CASE Begin \/ ArmStep \/ GateStep \/ WriteRefused \/ WriteError \/ ReadRefused \/ ReadError
           \/ BadFrame \/ TlsLimit \/ OpenWindow
  <2>1. UNCHANGED <<useVars, interrupts>> /\ step \in Working
    BY <1>2 DEF Begin, ArmStep, GateStep, WriteRefused, WriteError, ReadRefused, ReadError, BadFrame,
       TlsLimit, OpenWindow, Receiving, envVars, Working
  <2>2. step' \in {"exit", "handler", "arm", "gate", "write", "reply"}
    BY <1>2, RaiseLeads DEF Begin, ArmStep, GateStep, WriteRefused, WriteError, ReadRefused, ReadError,
       BadFrame, TlsLimit, OpenWindow
  <2> QED BY <2>1, <2>2 DEF Inside, Working
<1>3. CASE Write \/ Timeout \/ AckFrame \/ ReplyFrame \/ ServerStep \/ SaveStats
  <2>1. UNCHANGED <<useVars, interrupts>> /\ step \in Working \cup {"stats"}
    BY <1>3 DEF Write, Timeout, AckFrame, ReplyFrame, ServerStep, SaveStats, Receiving, envVars, Working
  <2>2. step' \in {"exit", "handler", "window", "reply", "begin", "try", "ack", "mkdir", "gate"}
    BY <1>3, RaiseLeads, ProceedLeads DEF Write, Written, Timeout, AckFrame, ReplyFrame, ServerStep, SaveStats
  <2> QED BY <2>1, <2>2 DEF Inside, Working
<1>4. CASE EnterTry \/ SleepFrame \/ TlsFrame
  <2>1. UNCHANGED <<useVars, interrupts>> /\ step \in {"try", "ack", "reply"}
    BY <1>4 DEF EnterTry, SleepFrame, TlsFrame, envVars
  <2>2. step' \in {"exit", "handler", "ack", "server"} \/ step' = step
    BY <1>4, RaiseLeads DEF EnterTry, SleepFrame, TlsFrame, Disarmed, ctlVars
  <2> QED BY <2>1, <2>2 DEF Inside
<1>5. CASE SaveTry \/ SaveExcept
  <2>1. UNCHANGED <<useVars, interrupts>> /\ step \in Keeping
    BY <1>5 DEF SaveTry, SaveExcept
  <2>2. step' \in Keeping \cup {"exit", "handler"}
    BY <1>5 DEF SaveTry, SaveExcept, SaveGoes, SaveFails, Create, Note, Fill
  <2> QED BY <2>1, <2>2 DEF Inside
<1>6. CASE Read \/ Tick \/ ReaderStep \/ UNCHANGED vars
  BY <1>6 DEF Read, Tick, ReaderStep, vars, ctlVars, envVars
<1> QED BY <1>1, <1>2, <1>3, <1>4, <1>5, <1>6 DEF Next, Program

-----------------------------------------------------------------------------
(* The interface. *)

\* Only dispose() confirms the clean-up, and only an interrupt gets past both
\* release and dispose.
Interface ==
  /\ interrupts \in Nat
  /\ cleaned => ~held /\ step \in {"report", "done"}
  /\ interrupts = 0 /\ step \in {"load", "report", "done"} => ~held

LEMMA InterfaceStep == Shape /\ Interface /\ [Next]_vars => Interface'
<1> SUFFICES ASSUME Shape, Interface, [Next]_vars PROVE Interface'
  OBVIOUS
<1>1. CASE Load
  BY <1>1 DEF Load, Interface, useVars, envVars
<1>2. CASE Enter
  BY <1>2 DEF Enter, Interface, envVars
<1>3. CASE Leave \/ Report
  BY <1>3 DEF Leave, Report, Interface, Finally, envVars
<1>4. CASE Interrupt
  <2>1. interrupts' = interrupts + 1 /\ UNCHANGED <<held, cleaned>>
        /\ (step = "report" => step' = "done") /\ step # "done"
    BY <1>4 DEF Interrupt
  <2> QED BY <2>1 DEF Interface
<1>5. CASE ~(Load \/ Enter \/ Leave \/ Report \/ Interrupt)
  BY <1>5, InBetween DEF Interface, useVars, Before, Inside
<1> QED BY <1>1, <1>2, <1>3, <1>4, <1>5

LEMMA AlwaysInterface == Spec => []Interface
<1>1. Init => Interface
  BY DEF Init, Interface
<1> QED BY <1>1, InterfaceStep, AlwaysShape, PTL DEF Spec

\* usb_released is reported only of an interface given back, and without an
\* interrupt it always is.
THEOREM ReleaseIsTrue == Spec => []ReleaseTruth
<1>1. Shape /\ Interface => ReleaseTruth
  BY DEF Shape, Interface, ReleaseTruth
<1> QED BY <1>1, AlwaysInterface, AlwaysShape, PTL

-----------------------------------------------------------------------------
(* The image files. *)

\* The image is behind the program: no save will begin any more.
Past == step \in Leaving \cup {"handler"} \/ phase \in {"disarm", "end"}

Untouched == /\ files["raw"] = "none" /\ files["pgm"] = "none"
             /\ written = {} /\ imageSaved # "yes" /\ ~leaked

\* save_image() writes .raw, then .pgm; a file is noted before it is filled.
\* What the except block finds noted is of this run, and what is not noted is
\* an older file, or one created as Ctrl-C came.
WithRaw(r, p) == files["raw"] = r /\ files["pgm"] = p
Mine == {"part", "whole"}
Saved ==
  /\ phase = "image" /\ imageSaved = "no"
  /\ step = "unlink" \/ ~leaked
  /\ \/ step = "mkdir" /\ written = {} /\ WithRaw("none", "none")
     \/ step = "open" /\ written = {} /\ WithRaw("none", "none")
     \/ step = "open" /\ written = {"raw"} /\ WithRaw("whole", "none")
     \/ step = "note" /\ written = {} /\ WithRaw("part", "none")
     \/ step = "note" /\ written = {"raw"} /\ WithRaw("whole", "part")
     \/ step = "fill" /\ written = {"raw"} /\ WithRaw("part", "none")
     \/ step = "fill" /\ written = Images /\ WithRaw("whole", "part")
     \/ step = "stats" /\ written = Images /\ WithRaw("whole", "whole")
     \/ /\ step = "unlink"
        /\ \A f \in Images : IF f \in written THEN files[f] \in Mine
                            ELSE files[f] \in {"none", "old"} \/ (leaked /\ files[f] = "part")

\* After it both files are there or none of this run is, unless something leaked.
Settled ==
  /\ files["raw"] # "lost" /\ files["pgm"] # "lost"
  /\ \/ leaked
     \/ {files["raw"], files["pgm"]} \subseteq {"none", "old"}
     \/ WithRaw("whole", "whole")
  /\ imageSaved = "yes" => WithRaw("whole", "whole")

FilesInv ==
  /\ DOMAIN files = Images
  /\ \/ Untouched /\ step \notin Keeping
     \/ Saved
     \/ Settled /\ Past /\ step \notin Keeping

LEMMA PastStays ==
  ASSUME Shape, [Next]_vars, Past PROVE Past'
<1> USE DEF Past
<1>1. CASE Load \/ Enter \/ Leave \/ Report \/ Interrupt
  BY <1>1 DEF Load, Enter, Leave, Report, Interrupt, Shape, Finally, repVars, Cleaned
<1>2. CASE Handle
  BY <1>2 DEF Handle
<1>3. CASE Begin \/ ArmStep \/ GateStep \/ WriteRefused \/ WriteError \/ ReadRefused \/ ReadError
           \/ BadFrame \/ TlsLimit \/ OpenWindow
  <2>1. phase' = phase
    BY <1>3, RaiseLeads DEF Begin, ArmStep, GateStep, WriteRefused, WriteError, ReadRefused, ReadError,
       BadFrame, TlsLimit, OpenWindow, Stay
  <2>2. step \in Working
    BY <1>3 DEF Begin, ArmStep, GateStep, WriteRefused, WriteError, ReadRefused, ReadError, BadFrame,
       TlsLimit, OpenWindow, Receiving, Working
  <2> QED BY <2>1, <2>2 DEF Working
<1>4. CASE Write \/ Timeout \/ AckFrame \/ ReplyFrame \/ ServerStep \/ SaveStats
  <2>1. step \in Working \cup {"stats"}
    BY <1>4 DEF Write, Timeout, AckFrame, ReplyFrame, ServerStep, SaveStats, Receiving, Working
  <2>2. phase' = phase \/ \E e : Proceed(e)
    BY <1>4, RaiseLeads DEF Write, Timeout, AckFrame, ReplyFrame, ServerStep, SaveStats, Stay
  <2>3. ASSUME NEW e, Proceed(e), phase \in {"disarm", "end"} PROVE phase' = "end"
    BY <2>3 DEF Proceed, After
  <2> QED BY <2>1, <2>2, <2>3 DEF Working
<1>5. CASE EnterTry \/ SleepFrame \/ TlsFrame
  BY <1>5, RaiseLeads DEF EnterTry, SleepFrame, TlsFrame, Disarmed, Stay, ctlVars
<1>6. CASE SaveTry \/ SaveExcept
  <2>1. step \in Keeping /\ phase = "image"
    BY <1>6 DEF SaveTry, SaveExcept, Shape
  <2> QED BY <2>1
<1>7. CASE Read \/ Tick \/ ReaderStep \/ UNCHANGED vars
  BY <1>7 DEF Read, Tick, ReaderStep, vars, ctlVars
<1> QED BY <1>1, <1>2, <1>3, <1>4, <1>5, <1>6, <1>7 DEF Next, Program

\* The steps of save_image(), one by one.
LEMMA SavingKeeps == ASSUME Shape, FilesInv, Saved, SaveTry PROVE FilesInv'
<1> USE DEF Images, WithRaw
<1>1. /\ UNCHANGED <<phase, imageSaved, leaked>> /\ phase = "image" /\ ~leaked
      /\ DOMAIN files = Images /\ step \in Saving
  BY DEF SaveTry, SaveGoes, SaveFails, Create, Note, Fill, Stay, Saved, FilesInv
<1>2. ASSUME step' = "unlink" PROVE step \in {"mkdir", "open", "fill"}
  BY <1>2 DEF SaveTry, SaveGoes, SaveFails, Create, Note, Fill
<1>3. CASE step = "mkdir"
  <2>1. UNCHANGED <<files, written>> /\ step' \in {"open", "unlink"}
    BY <1>3 DEF SaveTry, SaveGoes, SaveFails
  <2>2. Saved'
    BY <1>1, <1>3, <2>1 DEF Saved
  <2> QED BY <1>1, <2>1, <2>2 DEF FilesInv
<1>4. CASE step = "open"
  <2>1. /\ UNCHANGED written
        /\ \/ step' = "note" /\ files' = [files EXCEPT ![ToOpen] = "part"]
           \/ step' = "unlink" /\ files' \in {files, [files EXCEPT ![ToOpen] = "old"]}
    BY <1>4 DEF SaveTry, SaveGoes, SaveFails, Create
  <2>2. ToOpen = IF written = {} THEN "raw" ELSE "pgm"
    BY <1>4 DEF Saved, ToOpen
  <2>3. DOMAIN files' = Images
    BY <1>1, <2>1
  <2>4. Saved'
    BY <1>1, <1>4, <2>1, <2>2 DEF Saved, Mine
  <2> QED BY <2>3, <2>4 DEF FilesInv
<1>5. CASE step = "note"
  <2>1. UNCHANGED files /\ step' = "fill" /\ written' = written \cup {ToOpen}
    BY <1>5 DEF SaveTry, SaveGoes, Note
  <2>2. written' = IF written = {} THEN {"raw"} ELSE Images
    BY <1>5, <2>1 DEF Saved, ToOpen
  <2>3. Saved'
    BY <1>1, <1>5, <2>1, <2>2 DEF Saved
  <2> QED BY <1>1, <2>1, <2>3 DEF FilesInv
<1>6. CASE step = "fill"
  <2>1. /\ UNCHANGED written
        /\ \/ /\ step' = IF written = Images THEN "stats" ELSE "open"
              /\ files' = [files EXCEPT ![ToFill] = "whole"]
           \/ step' = "unlink" /\ files' \in {files, [files EXCEPT ![ToFill] = "whole"]}
    BY <1>6 DEF SaveTry, SaveGoes, SaveFails, Fill
  <2>2. ToFill = IF written = Images THEN "pgm" ELSE "raw"
    BY <1>6 DEF Saved, ToFill
  <2>3. DOMAIN files' = Images
    BY <1>1, <2>1
  <2>4. written = Images \/ written = {"raw"}
    BY <1>6 DEF Saved
  <2>5. Saved'
    BY <1>1, <1>6, <2>1, <2>2, <2>4 DEF Saved, Mine
  <2> QED BY <2>3, <2>5 DEF FilesInv
<1> QED BY <1>1, <1>3, <1>4, <1>5, <1>6

\* The except block.
LEMMA ExceptKeeps == ASSUME Shape, FilesInv, Saved, SaveExcept PROVE FilesInv'
<1> USE DEF Images
<1>1. step = "unlink" /\ step' \in {"handler", "exit"} /\ UNCHANGED <<imageSaved, written>>
  BY DEF SaveExcept
<1>2. PICK failing \in SUBSET written : CleanUp(failing)
  BY DEF SaveExcept
<1>3. \A f \in Images : IF f \in written THEN files[f] \in Mine
                            ELSE files[f] \in {"none", "old"} \/ (leaked /\ files[f] = "part")
  BY <1>1 DEF Saved
<1>4. \A f \in Images : /\ f \in written \ failing => files'[f] = "none"
                        /\ f \notin written \ failing => files'[f] = files[f]
  BY <1>2, <1>3 DEF CleanUp, Removed, Mine
<1>5. DOMAIN files' = Images /\ (leaked' <=> leaked \/ failing # {})
  BY <1>2 DEF CleanUp
<1>6. ASSUME NEW f \in Images
      PROVE  files'[f] # "lost" /\ (leaked' \/ files'[f] \in {"none", "old"})
  <2>1. CASE f \in written \ failing
    BY <1>4, <2>1
  <2>2. CASE f \notin written \ failing
    <3>1. CASE f \in written
      BY <1>3, <1>4, <1>5, <2>2, <3>1 DEF Mine
    <3>2. CASE f \notin written
      BY <1>3, <1>4, <1>5, <2>2, <3>2
    <3> QED BY <3>1, <3>2
  <2> QED BY <2>1, <2>2
<1>7. Settled'
  BY <1>1, <1>6 DEF Settled, Saved
<1> QED BY <1>1, <1>5, <1>7 DEF FilesInv, Past

\* Every other step leaves the files alone, and only get_image() starts a save.
LEMMA ElsewhereKeeps ==
  ASSUME Shape, [Next]_vars, ~(SaveTry \/ SaveExcept \/ SaveStats \/ ReplyFrame \/ Interrupt)
  PROVE  /\ UNCHANGED imageVars
         /\ \/ step' = step /\ phase' = phase
            \/ step \notin Keeping /\ step' \notin Keeping
<1>1. CASE Load \/ Enter \/ Leave \/ Report \/ Handle
  BY <1>1 DEF Load, Enter, Leave, Report, Handle, Finally
<1>2. CASE Begin \/ ArmStep \/ GateStep \/ WriteRefused \/ WriteError \/ ReadRefused \/ ReadError
           \/ BadFrame \/ TlsLimit \/ OpenWindow
  <2>1. UNCHANGED imageVars /\ step \in Working
    BY <1>2 DEF Begin, ArmStep, GateStep, WriteRefused, WriteError, ReadRefused, ReadError, BadFrame,
       TlsLimit, OpenWindow, Receiving, Working
  <2>2. step' \in {"exit", "handler", "arm", "gate", "write", "reply"}
    BY <1>2, RaiseLeads DEF Begin, ArmStep, GateStep, WriteRefused, WriteError, ReadRefused, ReadError,
       BadFrame, TlsLimit, OpenWindow
  <2> QED BY <2>1, <2>2 DEF Working
<1>3. CASE Write \/ Timeout \/ AckFrame \/ ServerStep
  <2>1. UNCHANGED imageVars /\ step \in Working
    BY <1>3 DEF Write, Timeout, AckFrame, ServerStep, Receiving, Working
  <2>2. step' \in {"exit", "handler", "window", "reply", "begin", "try", "ack", "gate"}
    BY <1>3, RaiseLeads, ProceedLeads DEF Write, Written, Timeout, AckFrame, ServerStep
  <2> QED BY <2>1, <2>2 DEF Working
<1>4. CASE EnterTry \/ SleepFrame \/ TlsFrame
  <2>1. UNCHANGED imageVars /\ step \in {"try", "ack", "reply"}
    BY <1>4 DEF EnterTry, SleepFrame, TlsFrame
  <2>2. step' \in {"exit", "handler", "ack", "server"} \/ step' = step
    BY <1>4, RaiseLeads DEF EnterTry, SleepFrame, TlsFrame, Disarmed, ctlVars
  <2> QED BY <2>1, <2>2
<1>5. CASE Read \/ Tick \/ ReaderStep \/ UNCHANGED vars
  BY <1>5 DEF Read, Tick, ReaderStep, vars, ctlVars
<1> QED BY <1>1, <1>2, <1>3, <1>4, <1>5 DEF Next, Program

\* What moving on from the image phase leaves: its saving is over.
LEMMA ImageOver ==
  ASSUME phase = "image", NEW e, Proceed(e) PROVE Past' /\ step' \notin Keeping
<1>1. phase' \in {"disarm", "end"}
  BY DEF Proceed, After
<1>2. step' \notin Keeping
  BY DEF Proceed, Entry
<1> QED BY <1>1, <1>2 DEF Past

LEMMA FilesStep == ASSUME Shape, FilesInv, [Next]_vars PROVE FilesInv'
<1>1. CASE SaveTry
  <2>1. step \in Saving
    BY <1>1 DEF SaveTry
  <2>2. Saved
    BY <2>1 DEF FilesInv
  <2> QED BY <1>1, <2>2, SavingKeeps
<1>2. CASE SaveExcept
  <2>1. step = "unlink"
    BY <1>2 DEF SaveExcept
  <2>2. Saved
    BY <2>1 DEF FilesInv
  <2> QED BY <1>2, <2>2, ExceptKeeps
<1>3. CASE SaveStats
  <2>1. /\ step = "stats" /\ imageSaved' = "yes" /\ UNCHANGED <<files, written, leaked>>
        /\ Proceed(downEvent)
    BY <1>3 DEF SaveStats
  <2>2. Saved
    BY <2>1 DEF FilesInv
  <2>3. phase = "image" /\ WithRaw("whole", "whole")
    BY <2>1, <2>2 DEF Saved
  <2>4. Past' /\ step' \notin Keeping
    BY <2>1, <2>3, ImageOver
  <2> QED BY <2>1, <2>3, <2>4 DEF FilesInv, Settled, WithRaw
<1>4. CASE ReplyFrame
  <2>1. step = "reply" /\ UNCHANGED <<files, written, leaked>>
    BY <1>4 DEF ReplyFrame
  <2>2. CASE Untouched
    <3>1. CASE step' = "mkdir" /\ phase' = phase /\ imageSaved' = "no" /\ WantsImage
      BY <2>1, <2>2, <3>1 DEF FilesInv, Untouched, Saved, WithRaw, WantsImage
    <3>2. CASE step' \notin Keeping /\ imageSaved' \in {imageSaved, "skipped"}
      BY <2>1, <2>2, <3>2 DEF FilesInv, Untouched
    <3>3. ReplyFrame => \/ step' = "mkdir" /\ phase' = phase /\ imageSaved' = "no" /\ WantsImage
                        \/ step' \notin Keeping /\ imageSaved' \in {imageSaved, "skipped"}
      BY RaiseLeads, ProceedLeads DEF ReplyFrame, Stay
    <3> QED BY <1>4, <3>1, <3>2, <3>3
  <2>3. CASE Settled /\ Past
    <3>1. phase \in {"disarm", "end"}
      BY <2>1, <2>3 DEF Past
    <3> QED BY <2>1, <3>1 DEF Shape, Windows, Replying
  <2> QED BY <2>1, <2>2, <2>3 DEF FilesInv, Saved
<1>5. CASE Interrupt
  <2>1. /\ UNCHANGED <<phase, files, written, imageSaved>>
        /\ leaked' <=> leaked \/ step \in {"note", "unlink"}
        /\ step \in Saving => step' = "unlink"
        /\ step \notin Saving => step' \in Leaving \cup {"handler"}
    BY <1>5 DEF Interrupt, Cleaned, Finally
  <2>2. CASE Untouched /\ step \notin Keeping
    BY <2>1, <2>2 DEF FilesInv, Untouched
  <2>3. CASE Saved
    <3>1. CASE step \in Saving
      BY <2>1, <2>3, <3>1 DEF FilesInv, Saved, WithRaw, Mine, Images
    <3>2. CASE step \in {"stats", "unlink"}
      <4>1. Settled'
        BY <2>1, <2>3, <3>2 DEF Saved, Settled, WithRaw, Images, Mine
      <4> QED BY <2>1, <3>2, <4>1 DEF FilesInv, Past
    <3> QED BY <2>3, <3>1, <3>2 DEF Saved
  <2>4. CASE Settled /\ Past /\ step \notin Keeping
    <3>1. Past'
      BY <2>4, PastStays
    <3> QED BY <2>1, <2>4, <3>1 DEF FilesInv, Settled, WithRaw
  <2> QED BY <2>2, <2>3, <2>4 DEF FilesInv
<1>6. CASE ~(SaveTry \/ SaveExcept \/ SaveStats \/ ReplyFrame \/ Interrupt)
  <2>1. UNCHANGED imageVars
    BY <1>6, ElsewhereKeeps
  <2>2. \/ step' = step /\ phase' = phase
        \/ step \notin Keeping /\ step' \notin Keeping
    BY <1>6, ElsewhereKeeps
  <2>3. Past => Past'
    BY PastStays
  <2> QED BY <2>1, <2>2, <2>3 DEF FilesInv, Untouched, Saved, Settled, WithRaw, imageVars
<1> QED BY <1>1, <1>2, <1>3, <1>4, <1>5, <1>6

\* save_image() leaves both files or neither, whichever call fails and wherever
\* Ctrl-C falls, and never costs an older file.
THEOREM FilesWholeOrNone == Spec => []NoHalfImage
<1>1. Init => FilesInv
  BY DEF Init, ImageInit, FilesInv, Untouched, Images
<1>2. Shape /\ FilesInv => NoHalfImage
  BY DEF Shape, FilesInv, Untouched, Saved, Settled, NoHalfImage, WithRaw, Images, Mine
<1> QED BY <1>1, <1>2, FilesStep, AlwaysShape, PTL DEF Spec

-----------------------------------------------------------------------------
(* The first error. *)

\* An error is noted on its way out: from the except blocks to the report, and
\* while the handler's own disarm() runs.
OnItsWayOut == step \in {"handler", "unlink"} \cup Leaving \/ handling

Labelled ==
  /\ first[1] = "interrupt" => interrupts >= 1
  /\ interrupts = 0 => first[2] = IF handling THEN saved ELSE stage
  /\ \/ exc = first[1] \/ exc = "usb"
     \/ interrupts > (IF first[1] = "interrupt" THEN 1 ELSE 0)

ErrInv ==
  /\ interrupts \in Nat
  /\ exc = None => first = None
  /\ exc # None => OnItsWayOut /\ Labelled
  /\ step \in {"handler", "unlink"} \/ handling => exc # None
  /\ exc = None /\ step \in Leaving => stage = "complete"

\* An exception: the first one notes itself, one in the handler gives way to it.
LEMMA RaiseErr ==
  ASSUME Shape, ErrInv, NEW label, label \notin {None, "interrupt"}, Raise(label), step \in Working,
         UNCHANGED interrupts
  PROVE  ErrInv'
<1> USE DEF Working
<1>1. CASE handling
  <2>1. /\ step' = "exit" /\ ~handling' /\ stage' = saved
        /\ UNCHANGED <<exc, first, interrupts>>
    BY <1>1 DEF Raise, Swallows, StageBack
  <2>2. exc # None /\ Labelled
    BY <1>1 DEF ErrInv
  <2>3. Labelled'
    BY <1>1, <2>1, <2>2 DEF Labelled
  <2> QED BY <2>1, <2>2, <2>3 DEF ErrInv, OnItsWayOut
<1>2. CASE ~handling
  <2>1. exc = None /\ first = None
    BY <1>2 DEF ErrInv, OnItsWayOut
  <2>2. /\ step' \in {"exit", "handler"} /\ ~handling' /\ UNCHANGED <<stage, interrupts>>
        /\ exc' = label /\ first' = <<label, stage>>
    BY <1>2, <2>1 DEF Raise, Swallows
  <2>3. interrupts \in Nat
    BY DEF ErrInv
  <2> QED BY <2>2, <2>3 DEF ErrInv, OnItsWayOut, Labelled
<1> QED BY <1>1, <1>2

\* A routine that returns has no error behind it, and the last one has set the
\* stage to complete.
LEMMA ProceedErr ==
  ASSUME Shape, ErrInv, NEW e, Proceed(e), UNCHANGED interrupts,
         step \in Working \cup {"stats"}, phase \in Phases \ {"start", "enter", "disarm", "end"}
  PROVE  ErrInv'
<1>1. /\ UNCHANGED <<handling, exc, first, interrupts>> /\ ~handling
      /\ step' \in {"window", "reply", "exit", "begin"}
  BY ProceedLeads DEF Proceed, Shape
<1>2. exc = None
  BY <1>1 DEF ErrInv, OnItsWayOut, Working
<1>3. ASSUME step' = "exit" PROVE stage' = "complete"
  <2>1. phase' = "end"
    BY <1>3 DEF Proceed, Entry
  <2>2. Completes(phase)
    BY <2>1 DEF Proceed, After, Completes, Phases, Sending, Windows
  <2> QED BY <2>1, <2>2 DEF Proceed
<1> QED BY <1>1, <1>2, <1>3 DEF ErrInv

\* A step on the way, in or out of the handler's disarm().
LEMMA StayErr ==
  ASSUME ErrInv, UNCHANGED <<saved, exc, first, handling, interrupts>>,
         step \notin {"handler", "unlink"} \cup Leaving,
         step' \notin {"handler", "unlink"} \cup Leaving,
         stage' = stage \/ handling \/ step = "begin"
  PROVE  ErrInv'
<1>1. CASE handling
  BY <1>1 DEF ErrInv, OnItsWayOut, Labelled
<1>2. CASE ~handling
  BY <1>2 DEF ErrInv, OnItsWayOut, Labelled
<1> QED BY <1>1, <1>2

LEMMA ErrStep == ASSUME Shape, ErrInv, [Next]_vars PROVE ErrInv'
<1> USE DEF Working, None
<1>1. CASE Load \/ Enter
  <2>1. /\ UNCHANGED <<handling, saved, interrupts>> /\ ~handling
        /\ step \in Before /\ exc = None
    BY <1>1 DEF Load, Enter, Shape, ErrInv, OnItsWayOut, envVars, Before
  <2>2. CASE step' \notin Leaving /\ UNCHANGED <<exc, first>>
    <3>1. step' \in {"find", "claim", "mark", "window"}
      BY <1>1, <2>2 DEF Load, Enter
    <3> QED BY <2>1, <2>2, <3>1 DEF ErrInv
  <2>3. CASE step' \in {"report", "exit"} /\ exc' = "preflight" /\ first' = <<"preflight", stage>>
             /\ UNCHANGED stage
    BY <2>1, <2>3 DEF ErrInv, OnItsWayOut, Labelled
  <2> QED BY <1>1, <2>2, <2>3 DEF Load, Enter, repVars
<1>2. CASE Leave
  <2>1. /\ UNCHANGED <<handling, saved, stage, interrupts>> /\ ~handling
        /\ step \in Leaving /\ step' \in Leaving
    BY <1>2 DEF Leave, Finally, repVars, Shape
  <2>2. CASE UNCHANGED <<exc, first>>
    BY <2>1, <2>2 DEF ErrInv, OnItsWayOut, Labelled
  <2>3. CASE exc' = "usb" /\ first' = (IF first = None THEN <<"usb", stage>> ELSE first)
    <3>1. exc # None => Labelled
      BY DEF ErrInv
    <3>2. CASE first = None
      BY <2>1, <2>3, <3>2 DEF ErrInv, OnItsWayOut, Labelled
    <3>3. CASE first # None
      BY <2>1, <2>3, <3>1, <3>3 DEF ErrInv, OnItsWayOut, Labelled
    <3> QED BY <3>2, <3>3
  <2> QED BY <1>2, <2>2, <2>3 DEF Leave
<1>3. CASE Report
  <2>1. UNCHANGED <<handling, saved, stage, interrupts, exc, first>> /\ step \in Leaving /\ step' \in Leaving
    BY <1>3 DEF Report, repVars, histVars, envVars
  <2> QED BY <2>1 DEF ErrInv, OnItsWayOut, Labelled
<1>4. CASE Handle
  <2>1. /\ UNCHANGED <<stage, interrupts, exc, first>> /\ step = "handler" /\ ~handling
        /\ \/ step' = "exit" /\ UNCHANGED <<saved, handling>>
           \/ handling' = TRUE /\ saved' = stage
    BY <1>4 DEF Handle, repVars, histVars, envVars, Shape
  <2> QED BY <2>1 DEF ErrInv, OnItsWayOut, Labelled
<1>5. CASE Begin
  <2>1. CASE RoutineOk
    <3>1. /\ UNCHANGED <<saved, exc, first, handling, interrupts>> /\ step = "begin"
          /\ step' \in {"arm", "gate"}
      BY <1>5, <2>1 DEF Begin, envVars
    <3> QED BY <3>1, StayErr
  <2>2. CASE ~RoutineOk
    BY <1>5, <2>2, RaiseErr DEF Begin, envVars
  <2> QED BY <2>1, <2>2
<1>6. CASE ArmStep \/ GateStep \/ OpenWindow
  <2>1. step \in {"arm", "gate", "window"} /\ UNCHANGED interrupts
    BY <1>6 DEF ArmStep, GateStep, OpenWindow, envVars
  <2>2. CASE Stay /\ step' \in {"gate", "write", "reply"}
    BY <2>1, <2>2, StayErr DEF Stay
  <2>3. CASE Raise("refused") \/ Raise("budget")
    BY <2>1, <2>3, RaiseErr
  <2> QED BY <1>6, <2>2, <2>3 DEF ArmStep, GateStep, OpenWindow
<1>7. CASE Write
  <2>1. step = "write" /\ UNCHANGED interrupts
    BY <1>7 DEF Write, envVars
  <2>2. CASE phase = "tls" /\ secure
    BY <1>7, <2>1, <2>2, ProceedErr DEF Write, Phases, Sending
  <2>3. CASE ~(phase = "tls" /\ secure)
    <3>1. Stay /\ step' \in {"try", "reply", "ack"}
      BY <1>7, <2>3 DEF Write, Written
    <3> QED BY <2>1, <3>1, StayErr DEF Stay
  <2> QED BY <2>2, <2>3
<1>8. CASE WriteRefused \/ WriteError \/ ReadRefused \/ ReadError \/ BadFrame \/ TlsLimit
  BY <1>8, RaiseErr DEF WriteRefused, WriteError, ReadRefused, ReadError, BadFrame, TlsLimit, Receiving,
     envVars
<1>9. CASE EnterTry
  BY <1>9, StayErr DEF EnterTry, repVars, histVars, envVars
<1>10. CASE Timeout
  <2>1. UNCHANGED interrupts /\ step \in {"ack", "reply"}
    BY <1>10 DEF Timeout, Receiving, envVars
  <2>2. CASE NoReplyIsFine
    <3>1. phase \in Phases \ {"start", "enter", "disarm", "end"}
      BY <2>1, <2>2 DEF NoReplyIsFine, Windowed, Windows, Shape
    <3> QED BY <1>10, <2>1, <2>2, <3>1, ProceedErr DEF Timeout
  <2>3. CASE ~NoReplyIsFine
    BY <1>10, <2>1, <2>3, RaiseErr DEF Timeout
  <2> QED BY <2>2, <2>3
<1>11. CASE AckFrame
  <2>1. UNCHANGED interrupts /\ step = "ack" /\ phase # "disarm"
    BY <1>11 DEF AckFrame, envVars
  <2>2. CASE Raise("ack")
    BY <2>1, <2>2, RaiseErr
  <2>3. CASE step' \in {"reply", "window"} /\ Stay
    BY <2>1, <2>3, StayErr DEF Stay
  <2>4. CASE Proceed(downEvent)
    BY <2>1, <2>4, ProceedErr DEF Shape, Sending
  <2> QED BY <1>11, <2>2, <2>3, <2>4 DEF AckFrame
<1>12. CASE ReplyFrame
  <2>1. UNCHANGED interrupts /\ step = "reply"
    BY <1>12 DEF ReplyFrame, envVars
  <2>2. phase \in Phases \ {"start", "enter", "disarm", "end"}
    BY <2>1 DEF Shape, Windows, Replying
  <2>3. CASE Raise("reply")
    BY <2>1, <2>3, RaiseErr
  <2>4. CASE Proceed(IF phase = "down_event" THEN "yes" ELSE downEvent)
    BY <2>1, <2>2, <2>4, ProceedErr
  <2>5. CASE step' = "mkdir" /\ Stay
    BY <2>1, <2>5, StayErr DEF Stay
  <2> QED BY <1>12, <2>3, <2>4, <2>5 DEF ReplyFrame
<1>13. CASE SleepFrame
  <2>1. UNCHANGED interrupts /\ step = "ack"
    BY <1>13 DEF SleepFrame, envVars
  <2>2. CASE Raise("ack")
    BY <2>1, <2>2, RaiseErr
  <2>3. CASE Disarmed
    BY <2>1, <2>3 DEF Disarmed, ErrInv, OnItsWayOut, Labelled
  <2>4. CASE UNCHANGED <<ctlVars, stage, sleepAck, downEvent, exc, first>>
    BY <2>1, <2>4 DEF ctlVars, ErrInv, OnItsWayOut, Labelled
  <2> QED BY <1>13, <2>2, <2>3, <2>4 DEF SleepFrame
<1>14. CASE TlsFrame \/ ServerStep
  <2>1. UNCHANGED interrupts /\ step \in {"reply", "server"} /\ phase = "tls"
    BY <1>14 DEF TlsFrame, ServerStep, envVars, Shape
  <2>2. CASE Raise("reply") \/ Raise("tls")
    BY <2>1, <2>2, RaiseErr
  <2>3. CASE Proceed(downEvent)
    BY <2>1, <2>3, ProceedErr DEF Phases, Sending
  <2>4. CASE Stay /\ step' \in {"server", "gate", "reply"}
    BY <2>1, <2>4, StayErr DEF Stay
  <2> QED BY <1>14, <2>2, <2>3, <2>4 DEF TlsFrame, ServerStep
<1>15. CASE SaveTry
  <2>1. /\ UNCHANGED <<interrupts, stage, saved, handling>> /\ ~handling /\ step \in Saving
    BY <1>15 DEF SaveTry, SaveGoes, SaveFails, Create, Note, Fill, Stay, Shape
  <2>2. exc = None /\ first = None
    BY <2>1 DEF ErrInv, OnItsWayOut
  <2>3. \/ UNCHANGED <<exc, first>> /\ step' \in {"open", "note", "fill", "stats"}
        \/ exc' = "save" /\ first' = <<"save", stage>> /\ step' = "unlink"
    BY <1>15, <2>2 DEF SaveTry, SaveGoes, SaveFails, Create, Note, Fill, Stay
  <2> QED BY <2>1, <2>2, <2>3 DEF ErrInv, OnItsWayOut, Labelled
<1>16. CASE SaveExcept
  <2>1. /\ UNCHANGED <<interrupts, stage, saved, handling, exc, first>> /\ ~handling
        /\ step = "unlink" /\ step' \in {"handler", "exit"}
    BY <1>16 DEF SaveExcept, repVars, histVars, Shape
  <2> QED BY <2>1 DEF ErrInv, OnItsWayOut, Labelled
<1>17. CASE SaveStats
  <2>1. UNCHANGED interrupts /\ step = "stats" /\ phase = "image" /\ Proceed(downEvent)
    BY <1>17 DEF SaveStats, envVars, Shape
  <2> QED BY <2>1, ProceedErr DEF Phases, Sending
<1>18. CASE Interrupt
  <2>1. /\ interrupts' = interrupts + 1 /\ exc' = "interrupt" /\ ~handling'
        /\ first' = IF first = None THEN <<"interrupt", stage>> ELSE first
        /\ step' \in {"handler", "unlink"} \cup Leaving
    BY <1>18 DEF Interrupt, Finally
  <2>2. exc # None => Labelled
    BY DEF ErrInv
  <2>3. CASE first = None
    BY <2>1, <2>3 DEF ErrInv, OnItsWayOut, Labelled
  <2>4. CASE first # None
    BY <2>1, <2>2, <2>4 DEF ErrInv, OnItsWayOut, Labelled
  <2> QED BY <2>3, <2>4
<1>19. CASE Read \/ Tick \/ ReaderStep \/ UNCHANGED vars
  <2>1. UNCHANGED <<step, interrupts, stage, saved, handling, exc, first>>
    BY <1>19 DEF Read, Tick, ReaderStep, vars, ctlVars, repVars, histVars, envVars
  <2> QED BY <2>1 DEF ErrInv, OnItsWayOut, Labelled
<1> QED BY <1>1, <1>2, <1>3, <1>4, <1>5, <1>6, <1>7, <1>8, <1>9, <1>10, <1>11, <1>12, <1>13, <1>14,
           <1>15, <1>16, <1>17, <1>18, <1>19 DEF Next, Program

\* The run is over when it has its exit code.
LEMMA DoneIsOver == ASSUME step = "done", [Next]_vars PROVE UNCHANGED vars
<1>1. ~(Load \/ Enter \/ Leave \/ Report \/ Handle)
  BY DEF Load, Enter, Leave, Report, Handle
<1>2. ~(Begin \/ ArmStep \/ GateStep \/ Write \/ EnterTry \/ WriteRefused \/ WriteError)
  BY DEF Begin, ArmStep, GateStep, Write, EnterTry, WriteRefused, WriteError
<1>3. ~(Read \/ ReadRefused \/ ReadError \/ Timeout \/ OpenWindow \/ BadFrame)
  BY DEF Read, ReadRefused, ReadError, Timeout, OpenWindow, BadFrame, Receiving
<1>4. ~(AckFrame \/ ReplyFrame \/ SleepFrame \/ TlsFrame \/ TlsLimit \/ ServerStep)
  BY DEF AckFrame, ReplyFrame, SleepFrame, TlsFrame, TlsLimit, ServerStep
<1>5. ~(SaveTry \/ SaveExcept \/ SaveStats \/ Interrupt \/ Tick \/ ReaderStep)
  BY DEF SaveTry, SaveExcept, SaveStats, Interrupt, Tick, ReaderStep
<1> QED BY <1>1, <1>2, <1>3, <1>4, <1>5 DEF Next, Program

Verdict == /\ code = "2" => exc # None
           /\ code = "0" => exc = None /\ stage = "complete"

LEMMA VerdictStep == Shape /\ ErrInv /\ Verdict /\ [Next]_vars => Verdict'
<1> SUFFICES ASSUME Shape, ErrInv, Verdict, [Next]_vars PROVE Verdict'
  OBVIOUS
<1>1. CASE step = "done"
  BY <1>1, DoneIsOver DEF vars, Verdict, useVars, histVars, repVars
<1>2. CASE step # "done"
  <2>1. code = "-"
    BY <1>2 DEF Shape
  <2>2. CASE Report
    <3>1. UNCHANGED <<exc, stage>> /\ step \in Leaving /\ code' = IF ExitOk THEN "0" ELSE "2"
      BY <2>2 DEF Report, histVars, repVars
    <3> QED BY <3>1 DEF Verdict, ExitOk, ErrInv
  <2>3. CASE Interrupt
    BY <2>1, <2>3 DEF Interrupt, Verdict
  <2>4. CASE Load \/ Enter \/ Leave
    BY <2>1, <2>4 DEF Load, Enter, Leave, Verdict, useVars
  <2>5. CASE ~(Load \/ Enter \/ Leave \/ Report \/ Interrupt)
    BY <2>1, <2>5, InBetween DEF Verdict, useVars
  <2> QED BY <2>2, <2>3, <2>4, <2>5
<1> QED BY <1>1, <1>2

LEMMA AlwaysErr == Spec => [](ErrInv /\ Verdict)
<1>1. Init => ErrInv /\ Verdict
  BY DEF Init, ErrInv, Verdict
<1> QED BY <1>1, ErrStep, VerdictStep, AlwaysShape, PTL DEF Spec

\* An error keeps its label and its stage through the clean-up.
THEOREM FirstErrorIsKept == Spec => []FirstErrorWins
<1>1. Shape /\ ErrInv /\ Verdict => FirstErrorWins
  BY DEF Shape, ErrInv, Verdict, Labelled, FirstErrorWins
<1> QED BY <1>1, AlwaysErr, AlwaysShape, PTL DEF Spec

-----------------------------------------------------------------------------
(* The script. As long as nothing has gone wrong, where the program is says what
   it has been asked, what has been acknowledged and what has passed the gate. *)

Opening  == {"start", "enter", "stale", "nop", "firmware"}
Securing == Opening \cup {"pre_state", "request_tls", "tls"}
Linking  == Securing \cup {"confirm"}
Manual   == {"fdt_manual", "fdt_state"}
Touching == {"fdt_down", "down_event", "fdt_up", "up_event", "disarm"}
TouchImage == phase = "image" /\ "touch" \in args

Asked ==
  /\ phase = "pre_state" => "pre" \in args
  /\ phase \in {"state", "image"} \cup Manual \cup Touching => "query" \in args
  /\ phase \in Manual \cup Touching => "manual" \in args
  /\ phase \in Touching => "down" \in args
  /\ phase \in {"fdt_up", "up_event"} => "up" \in args
  /\ phase = "image" => "image" \in args \/ "touch" \in args

Acks ==
  /\ step \in {"reply", "window"} \cup Keeping /\ phase \in Replying \ {"tls"} => phase \in acked
  /\ phase \notin Opening => "firmware" \in acked
  /\ "pre" \in args /\ phase \notin Opening \cup {"pre_state"} => "pre_state" \in acked
  /\ phase \notin Opening \cup {"pre_state", "request_tls"} => "request_tls" \in acked
  /\ phase \notin Securing => secure
  /\ phase \notin Linking => "confirm" \in acked
  /\ "query" \in args /\ phase \notin Linking \cup {"state"} => "state" \in acked
  /\ "manual" \in args /\ phase \notin Linking \cup {"state", "fdt_manual"} => "fdt_manual" \in acked
  /\ "manual" \in args /\ phase \notin Linking \cup {"state"} \cup Manual => "fdt_state" \in acked
  /\ "image" \in args /\ phase = "end" => "image" \in acked
  /\ "down" \in args /\ phase \notin Linking \cup {"state", "fdt_down"} \cup Manual => "fdt_down" \in acked
  /\ "down" \in args /\ phase = "end" => "disarm" \in acked

Event ==
  /\ "down" \in args /\ phase \notin Linking \cup {"state", "fdt_down", "down_event"} \cup Manual
       => downEvent # "absent"
  /\ phase \in {"fdt_up", "up_event"} \/ TouchImage => downEvent = "yes"
  /\ "image" \in acked => phase \in {"image", "disarm", "end"}
  /\ "fdt_up" \in acked => phase \in {"up_event", "disarm", "end"}
  /\ "image" \in acked /\ "touch" \in args => downEvent = "yes"
  /\ "fdt_up" \in acked => downEvent = "yes"
  /\ "touch" \in args /\ phase \in {"disarm", "end"} /\ downEvent = "yes" => "image" \in acked
  /\ "up" \in args /\ phase \in {"up_event", "disarm", "end"} /\ downEvent = "yes" => "fdt_up" \in acked
  /\ "save" \in args /\ "image" \in acked /\ phase # "image" => imageSaved \in {"yes", "skipped"}

\* The phases whose frame is gated.
Arming == {"pre_state", "state", "fdt_state", "fdt_manual", "image", "fdt_down", "fdt_up", "disarm"}

Stages ==
  /\ step = "begin" /\ (phase \in {"state", "fdt_manual", "fdt_down"} \/ (phase = "image" /\ "touch" \notin args))
       => stage = "complete"
  /\ step \in Leaving => phase = "end" /\ step # "dispose_failing"
  /\ step \in {"report", "done"} => cleaned
  /\ step = "arm" => phase \in Arming

\* send() has let the frame of this phase through.
Passed == step \notin {"begin", "arm", "gate"}

Queries ==
  /\ phase \in Opening \/ (phase = "pre_state" /\ ~Passed) => sent[StateQuery] = 0
  /\ phase = "pre_state" /\ Passed => sent[StateQuery] = 1
  /\ phase \in {"request_tls", "tls", "confirm"} \/ (phase = "state" /\ ~Passed)
       => sent[StateQuery] = IF "pre" \in args THEN 1 ELSE 0
  /\ phase = "state" /\ Passed => sent[StateQuery] = IF "pre" \in args THEN 2 ELSE 1
  /\ phase = "fdt_manual" \/ (phase = "fdt_state" /\ ~Passed) \/ (phase = "image" /\ "touch" \notin args)
       => sent[StateQuery] = 1

Passes ==
  /\ WasSent(FdtManual) => phase \in {"fdt_state", "image", "end"} \cup Touching \/ (phase = "fdt_manual" /\ Passed)
  /\ phase \in {"fdt_state"} \cup Touching \/ (phase = "fdt_manual" /\ Passed) \/ TouchImage => WasSent(FdtManual)
  /\ WasSent(FdtDown) => phase \in {"image", "end"} \cup Touching /\ (phase = "fdt_down" => Passed)
  /\ phase \in Touching \ {"fdt_down"} \/ (phase = "fdt_down" /\ Passed) \/ TouchImage => WasSent(FdtDown)
  /\ WasSent(FdtUp) => phase \in {"up_event", "disarm", "end"} \/ (phase = "fdt_up" /\ Passed)
  /\ WasSent(GetImage) => phase \in {"disarm", "end"} \/ (phase = "image" /\ Passed)
  /\ phase = "image" /\ Passed => WasSent(GetImage)
  /\ WasSent(SleepMode) => phase = "end" \/ (phase = "disarm" /\ Passed)

OnScript == /\ args \in Requests /\ mode = ModeOf(args)
            /\ exc = None => Asked /\ Acks /\ Event /\ Stages /\ Queries /\ Passes
NotRefused == first # None => first[1] # "refused"

\* What main() has made of the flags.
LEMMA Flagged ==
  ASSUME OnScript
  PROVE  /\ "pre" \in args => "query" \in args /\ "manual" \notin args /\ "image" \notin args
         /\ "manual" \in args => "query" \in args /\ "image" \notin args
         /\ "down" \in args => "manual" \in args
         /\ "up" \in args => "down" \in args /\ "touch" \notin args
         /\ "touch" \in args => "down" \in args /\ "image" \notin args
         /\ "image" \in args => "query" \in args
<1>1. FlagsOk(args)
  BY RequestsAssumption DEF OnScript
<1> QED BY <1>1 DEF FlagsOk

\* The script's edges.
Edge(e) ==
  \/ phase = "stale" /\ phase' = "nop"
  \/ phase = "nop" /\ phase' = "firmware"
  \/ phase = "firmware" /\ phase' = "pre_state" /\ "pre" \in args
  \/ phase = "firmware" /\ phase' = "request_tls" /\ "pre" \notin args
  \/ phase = "pre_state" /\ phase' = "request_tls"
  \/ phase = "request_tls" /\ phase' = "tls"
  \/ phase = "tls" /\ phase' = "confirm"
  \/ phase = "confirm" /\ phase' = "state" /\ "query" \in args
  \/ phase = "confirm" /\ phase' = "end" /\ "query" \notin args
  \/ phase = "state" /\ phase' = "fdt_manual" /\ "manual" \in args
  \/ phase = "state" /\ phase' = "image" /\ "manual" \notin args /\ "image" \in args
  \/ phase = "state" /\ phase' = "end" /\ "manual" \notin args /\ "image" \notin args
  \/ phase = "fdt_manual" /\ phase' = "fdt_state"
  \/ phase = "fdt_state" /\ phase' = "fdt_down" /\ "down" \in args
  \/ phase = "fdt_state" /\ phase' = "end" /\ "down" \notin args
  \/ phase = "fdt_down" /\ phase' = "down_event"
  \/ phase = "down_event" /\ phase' = "image" /\ e = "yes" /\ "touch" \in args
  \/ phase = "down_event" /\ phase' = "fdt_up" /\ e = "yes" /\ "touch" \notin args /\ "up" \in args
  \/ phase = "down_event" /\ phase' = "disarm" /\ (e = "yes" => "touch" \notin args /\ "up" \notin args)
  \/ phase = "fdt_up" /\ phase' = "up_event"
  \/ phase = "up_event" /\ phase' = "disarm"
  \/ phase = "image" /\ phase' = "disarm" /\ "touch" \in args
  \/ phase = "image" /\ phase' = "end" /\ "touch" \notin args

LEMMA Edges ==
  ASSUME NEW e, Proceed(e), phase \in Phases \ {"start", "enter", "disarm", "end"}
  PROVE  Edge(e)
<1>1. phase' = After(phase, e)
  BY DEF Proceed
<1>2. CASE phase \in {"stale", "nop", "firmware", "pre_state", "request_tls", "tls"}
  BY <1>1, <1>2 DEF After, Edge
<1>3. CASE phase \in {"confirm", "state"}
  BY <1>1, <1>3 DEF After, Edge
<1>4. CASE phase \in {"fdt_manual", "fdt_state", "fdt_down", "fdt_up", "up_event", "image"}
  BY <1>1, <1>4 DEF After, Edge
<1>5. CASE phase = "down_event"
  BY <1>1, <1>5 DEF After, Edge, Touched
<1> QED BY <1>2, <1>3, <1>4, <1>5 DEF Phases, Sending, Windows

\* The program has what it wanted of this phase.
Finished(e) ==
  /\ acked \subseteq acked' /\ acked' \subseteq acked \cup {phase}
  /\ phase \in Sending \ {"nop", "tls"} => phase \in acked'
  /\ IF phase = "tls" THEN secure' ELSE secure' = secure
  /\ IF phase = "down_event" THEN e \in {"yes", "no"} ELSE e = downEvent
  /\ IF phase = "image" THEN "save" \in args => imageSaved' \in {"yes", "skipped"}
     ELSE imageSaved' = imageSaved

LEMMA ProceedScript ==
  ASSUME Shape, OnScript, exc = None, NEW e, Proceed(e), Finished(e),
         phase \in Phases \ {"start", "enter", "disarm", "end"},
         step \in Working \cup {"stats"}, Passed, UNCHANGED <<args, gateVars, cleaned>>
  PROVE  OnScript'
<1>1. /\ Edge(e) /\ downEvent' = e /\ exc' = None
      /\ Asked /\ Acks /\ Event /\ Stages /\ Queries /\ Passes
      /\ UNCHANGED <<args, mode, armed, sent>>
  BY Edges DEF Proceed, OnScript, gateVars
<1>2. step' = IF phase' \in Windows THEN "window" ELSE IF phase' = "tls" THEN "reply"
              ELSE IF phase' = "end" THEN "exit" ELSE "begin"
  <2>1. step' = Entry(phase')
    BY DEF Proceed
  <2>2. CASE phase' \in Windows
    BY <2>1, <2>2 DEF Entry, Windows
  <2>3. CASE phase' \in {"tls", "end"}
    BY <2>1, <2>3 DEF Entry, Windows
  <2>4. CASE phase' \notin Windows \cup {"tls", "end"}
    BY <2>1, <2>4 DEF Entry
  <2> QED BY <2>2, <2>3, <2>4
<1>3. Passed' <=> phase' \in Windows \cup {"tls", "end"}
  BY <1>2 DEF Passed
<1>4. Asked'
  BY <1>1, Flagged DEF Asked, Edge, Manual, Touching
<1>5. Acks'
  BY <1>1, <1>2, Flagged DEF Acks, Asked, Finished, Edge, Opening, Securing, Linking, Manual, Replying,
     Sending, Windows
<1>6. Event'
  BY <1>1, Flagged DEF Event, Asked, Finished, Edge, Linking, Securing, Opening, Manual, Touching,
     TouchImage, Sending
<1>7. Stages'
  <2>1. step' \in Leaving => phase' = "end" /\ step' = "exit"
    BY <1>2
  <2>4. step' # "arm"
    BY <1>2
  <2>2. step' = "begin" /\ (phase' \in {"state", "fdt_manual", "fdt_down"}
                              \/ (phase' = "image" /\ "touch" \notin args))
          => Completes(phase) /\ phase' # "tls"
    BY <1>1 DEF Edge, Completes
  <2>3. stage' = IF phase' = "tls" THEN phase' ELSE IF Completes(phase) THEN "complete" ELSE stage
    BY DEF Proceed
  <2> QED BY <1>1, <2>1, <2>2, <2>3, <2>4 DEF Stages
<1>8. Queries'
  <2> DEFINE n == sent[StateQuery]
  <2>1. n' = n
    BY <1>1
  <2>2. CASE phase \in Opening \cup {"pre_state", "request_tls", "tls"}
    BY <1>1, <1>3, <2>1, <2>2 DEF Queries, Asked, Edge, Opening, Windows
  <2>3. CASE phase \in {"confirm", "state"}
    BY <1>1, <1>3, <2>1, <2>3, Flagged DEF Queries, Asked, Edge, Opening, Windows
  <2>4. CASE phase \in Manual \cup Touching \cup {"image"}
    BY <1>1, <1>3, <2>1, <2>4, Flagged DEF Queries, Asked, Edge, Opening, Windows, Manual, Touching
  <2> QED BY <2>2, <2>3, <2>4 DEF Phases, Sending, Windows, Manual, Touching, Opening
<1>9. Passes'
  <2>1. /\ WasSent(FdtManual)' <=> WasSent(FdtManual)
        /\ WasSent(FdtDown)' <=> WasSent(FdtDown)
        /\ WasSent(FdtUp)' <=> WasSent(FdtUp)
        /\ WasSent(GetImage)' <=> WasSent(GetImage)
        /\ WasSent(SleepMode)' <=> WasSent(SleepMode)
    BY <1>1 DEF WasSent
  <2> USE DEF Edge, Passes, Asked, Windows, Touching, TouchImage, Manual
  <2>2. WasSent(FdtManual)' => phase' \in {"fdt_state", "image", "end"} \cup Touching
                               \/ (phase' = "fdt_manual" /\ Passed')
    BY <1>1, <2>1
  <2>3. \/ phase' \in {"fdt_state"} \cup Touching \/ (phase' = "fdt_manual" /\ Passed')
        \/ phase' = "image" /\ "touch" \in args'
        => WasSent(FdtManual)'
    BY <1>1, <1>3, <2>1, Flagged
  <2>4. WasSent(FdtDown)' => phase' \in {"image", "end"} \cup Touching /\ (phase' = "fdt_down" => Passed')
    BY <1>1, <2>1
  <2>5. \/ phase' \in Touching \ {"fdt_down"} \/ (phase' = "fdt_down" /\ Passed')
        \/ phase' = "image" /\ "touch" \in args'
        => WasSent(FdtDown)'
    BY <1>1, <1>3, <2>1, Flagged
  <2>6. WasSent(FdtUp)' => phase' \in {"up_event", "disarm", "end"} \/ (phase' = "fdt_up" /\ Passed')
    BY <1>1, <2>1
  <2>7. WasSent(GetImage)' => phase' \in {"disarm", "end"} \/ (phase' = "image" /\ Passed')
    BY <1>1, <2>1
  <2>8. ~(phase' = "image" /\ Passed')
    BY <1>3
  <2>9. ~WasSent(SleepMode)'
    BY <1>1, <2>1
  <2> QED BY <2>2, <2>3, <2>4, <2>5, <2>6, <2>7, <2>8, <2>9
<1> QED BY <1>1, <1>4, <1>5, <1>6, <1>7, <1>8, <1>9 DEF OnScript

-----------------------------------------------------------------------------
(* None of the guards ever ends a run. *)

\* The command of each gated phase.
LEMMA Commands ==
  ASSUME phase \in Sending
  PROVE  /\ phase \notin Arming => cmd \in Open
         /\ phase \in {"pre_state", "state", "fdt_state"} => cmd = StateQuery
         /\ phase = "fdt_manual" => cmd = FdtManual
         /\ phase = "image" => cmd = GetImage
         /\ phase = "fdt_down" => cmd = FdtDown
         /\ phase = "fdt_up" => cmd = FdtUp
         /\ phase = "disarm" => cmd = SleepMode
         /\ phase \in Arming => cmd \in Gated
BY DEF Arming, Sending, cmd, CommandOf, Open, Gated

\* At arm and at the gate the script is where image_stage_ok(), the limits and
\* the order of the arm_* methods want it.
LEMMA GateAgrees ==
  ASSUME Shape, OnScript, GateTypeOK, exc = None, step \in {"arm", "gate"}, phase \in Arming
  PROVE  MayArm(cmd)
<1>1. /\ Asked /\ Queries /\ Passes /\ ~Passed /\ mode = ModeOf(args)
      /\ phase \in Sending
  BY DEF OnScript, Passed, Shape
<1>2. /\ mode.queries = IF "manual" \in args \/ "pre" \in args THEN 2 ELSE 1
      /\ mode.fdt <=> "manual" \in args
      /\ mode.down <=> "down" \in args
      /\ mode.up <=> "up" \in args
      /\ mode.image <=> "image" \in args
      /\ mode.touch <=> "touch" \in args
  BY <1>1 DEF ModeOf
<1>3. CASE phase \in {"pre_state", "state", "fdt_state"}
  <2>1. sent[StateQuery] < mode.queries
    BY <1>1, <1>2, <1>3, Flagged DEF Asked, Queries, Opening, Manual, Touching
  <2> QED BY <1>1, <1>3, <2>1, Commands DEF MayArm, QueryLeft
<1>4. CASE phase = "fdt_manual"
  <2>1. mode.fdt /\ ~WasSent(FdtManual)
    BY <1>1, <1>2, <1>4 DEF Asked, Passes, Manual, Touching
  <2> QED BY <1>1, <1>4, <2>1, Commands DEF MayArm
<1>5. CASE phase = "fdt_down"
  <2>1. mode.down /\ WasSent(FdtManual) /\ ~WasSent(FdtDown)
    BY <1>1, <1>2, <1>5 DEF Asked, Passes, Touching
  <2> QED BY <1>1, <1>5, <2>1, Commands DEF MayArm, DownDue
<1>6. CASE phase = "fdt_up"
  <2>1. mode.up /\ WasSent(FdtDown) /\ ~WasSent(FdtUp) /\ ~WasSent(SleepMode)
    BY <1>1, <1>2, <1>6 DEF Asked, Passes, Touching
  <2> QED BY <1>1, <1>6, <2>1, Commands DEF MayArm
<1>7. CASE phase = "image"
  <2>1. ~WasSent(GetImage) /\ ~WasSent(SleepMode)
    BY <1>1, <1>7 DEF Passes
  <2>2. "touch" \in args => WasSent(FdtDown)
    BY <1>1, <1>7 DEF Passes, TouchImage
  <2>3. "touch" \notin args => mode.image /\ sent[StateQuery] = 1
    BY <1>1, <1>2, <1>7 DEF Asked, Queries
  <2>4. ImageStageOk
    BY <1>2, <2>1, <2>2, <2>3 DEF ImageStageOk
  <2> QED BY <1>1, <1>7, <2>4, Commands DEF MayArm
<1>8. CASE phase = "disarm"
  <2>1. WasSent(FdtDown) /\ ~WasSent(SleepMode)
    BY <1>1, <1>8 DEF Passes, Touching
  <2> QED BY <1>1, <1>8, <2>1, Commands DEF MayArm
<1> QED BY <1>3, <1>4, <1>5, <1>6, <1>7, <1>8 DEF Arming

\* So do the routines and the windows.
LEMMA RoutinesAgree ==
  ASSUME Shape, OnScript, exc = None
  PROVE  /\ step = "begin" => RoutineOk
         /\ step = "window" => MayOpen
<1>1. Asked /\ Acks /\ Stages /\ Passes
  BY DEF OnScript
<1>2. ASSUME step = "begin" PROVE RoutineOk
  <2>1. phase \in {"state", "fdt_manual", "fdt_down"} \/ (phase = "image" /\ "touch" \notin args)
          => stage = "complete" /\ secure
    BY <1>1, <1>2 DEF Stages, Acks, Securing, Opening
  <2>2. phase = "fdt_manual" \/ (phase = "image" /\ "touch" \notin args) => "state" \in acked
    BY <1>1 DEF Acks, Asked, Manual, Linking, Securing, Opening
  <2>3. phase = "fdt_down" => {"fdt_manual", "fdt_state"} \subseteq acked
    BY <1>1 DEF Acks, Asked, Manual, Touching, Linking, Securing, Opening
  <2> QED BY <2>1, <2>2, <2>3 DEF RoutineOk
<1>3. ASSUME step = "window" PROVE MayOpen
  BY <1>1, <1>3 DEF MayOpen, Passes, Passed, Touching
<1> QED BY <1>2, <1>3

\* The command line and the wire's mode never change.
LEMMA ArgsFixed == ASSUME [Next]_vars PROVE UNCHANGED <<args, mode>>
<1>1. [GateNext]_gateVars
  BY StepOfGate
<1>2. mode' = mode
  BY <1>1 DEF GateNext, Arm, Pass, gateVars
<1>3. args' = args
  <2>1. CASE Load \/ Enter \/ Leave \/ Report \/ Handle \/ Begin \/ ArmStep \/ GateStep \/ Write
    BY <2>1 DEF Load, Enter, Leave, Report, Handle, Begin, ArmStep, GateStep, Write
  <2>2. CASE EnterTry \/ WriteRefused \/ WriteError \/ Read \/ ReadRefused \/ ReadError \/ Timeout
    BY <2>2 DEF EnterTry, WriteRefused, WriteError, Read, ReadRefused, ReadError, Timeout
  <2>3. CASE OpenWindow \/ BadFrame \/ AckFrame \/ ReplyFrame \/ SleepFrame \/ TlsFrame \/ TlsLimit
    BY <2>3 DEF OpenWindow, BadFrame, AckFrame, ReplyFrame, SleepFrame, TlsFrame, TlsLimit
  <2>4. CASE ServerStep \/ SaveTry \/ SaveExcept \/ SaveStats \/ Interrupt \/ Tick \/ ReaderStep
    BY <2>4 DEF ServerStep, SaveTry, SaveExcept, SaveStats, Interrupt, Tick, ReaderStep
  <2> QED BY <2>1, <2>2, <2>3, <2>4 DEF Next, Program, vars
<1> QED BY <1>2, <1>3

\* Without an error behind it, an exception is one.
LEMMA RaiseIsError ==
  ASSUME ErrInv, exc = None, NEW label, Raise(label) PROVE exc' = label
BY DEF ErrInv, Raise, Swallows

\* A step that stays in its phase: a frame through the gate or acknowledged is
\* the phase's own.
Stays ==
  /\ UNCHANGED <<phase, downEvent, exc, cleaned>>
  /\ step \notin Leaving /\ step' \notin Leaving \cup {"begin", "arm"}
  /\ secure' = secure \/ phase = "tls"
  /\ imageSaved' = imageSaved \/ phase = "image"
  /\ acked' = acked \/ (acked' = acked \cup {phase} /\ phase \in Replying)
  /\ step' \in {"reply", "window"} \cup Keeping /\ phase \in Replying \ {"tls"}
       => phase \in acked'

LEMMA StaysScript ==
  ASSUME Shape, OnScript, exc = None, Stays, UNCHANGED <<args, gateVars>>, Passed' <=> Passed
  PROVE  OnScript'
<1>1. /\ Asked /\ Acks /\ Event /\ Stages /\ Queries /\ Passes
      /\ UNCHANGED <<args, mode, armed, sent>>
  BY DEF OnScript, gateVars
<1>2. Asked'
  BY <1>1 DEF Asked, Stays
<1>3. Acks'
  BY <1>1 DEF Acks, Stays, Securing
<1>4. Event'
  BY <1>1 DEF Event, Stays, TouchImage, Replying
<1>5. Stages'
  BY <1>1 DEF Stages, Stays
<1>6. Queries'
  BY <1>1 DEF Queries, Stays
<1>7. Passes'
  BY <1>1 DEF Passes, Stays, TouchImage, WasSent
<1> QED BY <1>1, <1>2, <1>3, <1>4, <1>5, <1>6, <1>7 DEF OnScript, Stays

\* The gate.
LEMMA GateScript ==
  ASSUME Shape, ErrInv, GateTypeOK, SleepInv, OnScript, exc = None, exc' = None,
         Begin \/ ArmStep \/ GateStep
  PROVE  OnScript'
<1>1. /\ Asked /\ Acks /\ Event /\ Stages /\ Queries /\ Passes
      /\ phase \in Sending /\ step \in {"begin", "arm", "gate"}
  BY DEF OnScript, Shape, Begin, ArmStep, GateStep
<1>2. UNCHANGED <<args, mode, acked, secure, downEvent, cleaned, imageSaved>>
  <2>1. UNCHANGED <<args, acked, secure, cleaned, imageSaved>>
    BY DEF Begin, ArmStep, GateStep, imageVars, tlsVars, useVars
  <2>2. downEvent' = downEvent
    BY DEF Begin, ArmStep, GateStep, Stay, Raise
  <2>3. mode' = mode
    BY DEF Begin, ArmStep, GateStep, Arm, Pass, gateVars
  <2> QED BY <2>1, <2>2, <2>3
<1>3. ~Raise("refused")
  BY RaiseIsError DEF None
<1>4. phase' = phase
  BY <1>3 DEF Begin, ArmStep, GateStep, Stay
<1>5. Asked' /\ Event'
  BY <1>1, <1>2, <1>4 DEF Asked, Event, TouchImage
<1>6. CASE Begin
  <2>1. step' = (IF cmd \in Gated THEN "arm" ELSE "gate") /\ UNCHANGED <<armed, sent>>
    BY <1>3, <1>6 DEF Begin, gateVars
  <2>2. cmd \in Gated => phase \in Arming
    BY <1>1, Commands DEF Gated, Open, StateQuery, FdtManual, FdtDown, FdtUp, GetImage, SleepMode
  <2>3. step = "begin"
    BY <1>6 DEF Begin
  <2>4. Acks' /\ Stages'
    BY <1>1, <1>2, <1>4, <2>1, <2>2, <2>3 DEF Acks, Stages
  <2>5. Queries'
    BY <1>1, <1>2, <1>4, <2>1, <2>3 DEF Queries, Passed
  <2>6. Passes'
    BY <1>1, <1>2, <1>4, <2>1, <2>3 DEF Passes, Passed, TouchImage, WasSent
  <2> QED BY <1>2, <1>5, <2>4, <2>5, <2>6 DEF OnScript
<1>7. CASE ArmStep
  <2>1. step = "arm" /\ step' = "gate" /\ UNCHANGED sent
    BY <1>3, <1>7 DEF ArmStep, Arm
  <2>4. Acks' /\ Stages'
    BY <1>1, <1>2, <1>4, <2>1 DEF Acks, Stages
  <2>5. Queries'
    BY <1>1, <1>2, <1>4, <2>1 DEF Queries, Passed
  <2>6. Passes'
    BY <1>1, <1>2, <1>4, <2>1 DEF Passes, Passed, TouchImage, WasSent
  <2> QED BY <1>2, <1>5, <2>4, <2>5, <2>6 DEF OnScript
<1>8. CASE GateStep
  <2>1. step = "gate" /\ step' = "write" /\ Passed' /\ ~Passed
    BY <1>3, <1>8 DEF GateStep, Passed
  <2>2. Acks' /\ Stages'
    BY <1>1, <1>2, <1>4, <2>1 DEF Acks, Stages
  <2>3. CASE phase \notin Arming
    <3>1. UNCHANGED sent
      BY <1>1, <1>3, <1>8, <2>3, Commands DEF GateStep, gateVars
    <3>2. Queries' /\ Passes'
      BY <1>1, <1>2, <1>4, <2>1, <2>3, <3>1 DEF Queries, Passes, TouchImage, WasSent, Arming
    <3> QED BY <1>2, <1>5, <2>2, <3>2 DEF OnScript
  <2>4. CASE phase \in Arming
    <3>1. cmd \in Gated /\ cmd \notin Open
      BY <1>1, <2>4, Commands DEF Gated, Open, StateQuery, FdtManual, FdtDown, FdtUp, GetImage, SleepMode
    <3>2. sent' = [sent EXCEPT ![cmd] = @ + 1]
      BY <1>3, <1>8, <3>1 DEF GateStep, Pass
    <3>3. /\ \A c \in Gated : sent[c] \in Nat /\ (c # cmd => sent'[c] = sent[c])
          /\ sent'[cmd] = sent[cmd] + 1
      BY <3>1, <3>2 DEF GateTypeOK
    <3>4. Queries'
      <4> DEFINE n == sent[StateQuery]
      <4>1. n \in Nat /\ n' = IF cmd = StateQuery THEN n + 1 ELSE n
        BY <3>3 DEF Gated
      <4>2. CASE phase \in {"pre_state", "state", "fdt_state"}
        <5>1. n' = n + 1
          BY <1>1, <2>4, <4>1, <4>2, Commands
        <5> QED BY <1>1, <1>2, <1>4, <2>1, <4>1, <4>2, <5>1 DEF Queries, Opening
      <4>3. CASE phase \notin {"pre_state", "state", "fdt_state"}
        <5>1. cmd # StateQuery
          BY <1>1, <2>4, <4>3, Commands DEF Arming, StateQuery, FdtManual, FdtDown, FdtUp, GetImage, SleepMode
        <5>2. n' = n
          BY <4>1, <5>1
        <5> QED BY <1>1, <1>2, <1>4, <2>1, <4>3, <5>2 DEF Queries
      <4> QED BY <4>2, <4>3
    <3>5. Passes'
      <4>1. ASSUME NEW c \in Gated PROVE WasSent(c)' <=> WasSent(c) \/ c = cmd
        BY <3>3 DEF WasSent
      <4>2. /\ WasSent(FdtManual)' <=> WasSent(FdtManual) \/ cmd = FdtManual
            /\ WasSent(FdtDown)' <=> WasSent(FdtDown) \/ cmd = FdtDown
            /\ WasSent(FdtUp)' <=> WasSent(FdtUp) \/ cmd = FdtUp
            /\ WasSent(GetImage)' <=> WasSent(GetImage) \/ cmd = GetImage
            /\ WasSent(SleepMode)' <=> WasSent(SleepMode) \/ cmd = SleepMode
        BY <4>1 DEF Gated
      <4>3. /\ cmd = FdtManual <=> phase = "fdt_manual"
            /\ cmd = FdtDown <=> phase = "fdt_down"
            /\ cmd = FdtUp <=> phase = "fdt_up"
            /\ cmd = GetImage <=> phase = "image"
            /\ cmd = SleepMode <=> phase = "disarm"
        BY <1>1, <2>4, Commands DEF Arming, StateQuery, FdtManual, FdtDown, FdtUp, GetImage, SleepMode
      <4> QED BY <1>1, <1>2, <1>4, <2>1, <4>2, <4>3 DEF Passes, TouchImage, Touching
    <3> QED BY <1>2, <1>5, <2>2, <3>4, <3>5 DEF OnScript
  <2> QED BY <2>3, <2>4
<1> QED BY <1>6, <1>7, <1>8

\* __enter__ and __exit__.
LEMMA UseScript ==
  ASSUME Shape, ErrInv, OnScript, exc = None, exc' = None, UNCHANGED <<args, mode>>,
         Load \/ Enter \/ Leave \/ Report
  PROVE  OnScript'
<1>1. /\ Asked /\ Acks /\ Event /\ Stages /\ Queries /\ Passes
      /\ UNCHANGED <<args, mode, sent, acked, secure, downEvent, imageSaved>>
  BY DEF OnScript, Load, Enter, Leave, Report, repVars, tlsVars, imageVars, gateVars
<1>2. CASE Load \/ Enter
  <2>1. /\ phase \in {"start", "enter"} /\ phase' \in {"enter", "stale"}
        /\ step \in Before /\ step' \in {"find", "claim", "mark", "window"}
    BY <1>2 DEF Load, Enter, Shape, None, Before
  <2>2. Asked' /\ Acks' /\ Event'
    BY <1>1, <2>1 DEF Asked, Acks, Event, TouchImage, Manual, Touching, Replying, Opening, Linking, Securing
  <2>3. Stages' /\ Queries' /\ Passes'
    BY <1>1, <2>1 DEF Stages, Queries, Passes, Passed, TouchImage, Manual, Touching, Opening, WasSent, Before
  <2> QED BY <1>1, <2>2, <2>3 DEF OnScript
<1>3. CASE Leave \/ Report
  <2>1. phase' = phase /\ step \in Leaving /\ step' \in Leaving /\ phase = "end"
    BY <1>1, <1>3 DEF Leave, Report, Finally, Stages
  <2>2. step' # "dispose_failing" /\ (step' \in {"report", "done"} => cleaned')
    BY <1>1, <1>3 DEF Leave, Report, Finally, Stages, None
  <2>3. Asked' /\ Acks' /\ Event'
    BY <1>1, <2>1 DEF Asked, Acks, Event, TouchImage, Replying
  <2>4. Stages'
    BY <2>1, <2>2 DEF Stages
  <2>5. Queries' /\ Passes'
    BY <1>1, <2>1 DEF Queries, Passes, TouchImage, Manual, Touching, Opening, WasSent
  <2> QED BY <1>1, <2>3, <2>4, <2>5 DEF OnScript
<1> QED BY <1>2, <1>3

\* The frames, the windows and the save.
LEMMA ScriptStep ==
  ASSUME Shape, ErrInv, GateTypeOK, SleepInv, OnScript, exc = None, exc' = None, [Next]_vars
  PROVE  OnScript'
<1> USE DEF None, Working
<1>1. UNCHANGED <<args, mode>> /\ ~handling
  BY ArgsFixed DEF ErrInv
<1>2. \A l \in {"refused", "budget", "usb", "timeout", "frame", "ack", "reply", "tls"} : ~Raise(l)
  BY RaiseIsError
<1>3. CASE Load \/ Enter \/ Leave \/ Report
  BY <1>1, <1>3, UseScript
<1>4. CASE Begin \/ ArmStep \/ GateStep
  BY <1>4, GateScript
<1>5. CASE Handle \/ SaveExcept \/ Interrupt
  BY <1>5 DEF Handle, SaveExcept, Interrupt, ErrInv
<1>6. CASE WriteRefused \/ WriteError \/ ReadRefused \/ ReadError \/ BadFrame \/ TlsLimit
  BY <1>2, <1>6 DEF WriteRefused, WriteError, ReadRefused, ReadError, BadFrame, TlsLimit
<1>7. CASE Write
  <2>1. /\ step = "write" /\ Passed /\ phase \in Sending
        /\ UNCHANGED <<gateVars, cleaned, acked, secure, imageSaved>>
    BY <1>7 DEF Write, Passed, Shape, useVars, tlsVars, imageVars
  <2>2. CASE phase = "tls" /\ secure
    <3>1. Proceed(downEvent) /\ Finished(downEvent) /\ phase \in Phases \ {"start", "enter", "disarm", "end"}
      BY <1>7, <2>1, <2>2 DEF Write, Finished, Phases, Sending
    <3> QED BY <1>1, <2>1, <3>1, ProceedScript
  <2>3. CASE ~(phase = "tls" /\ secure)
    <3>1. Stay /\ step' = Written
      BY <1>7, <2>3 DEF Write
    <3>2. step' \in {"try", "ack"} \/ (phase = "tls" /\ step' = "reply")
      BY <3>1 DEF Written
    <3>3. Stays /\ Passed'
      BY <2>1, <3>1, <3>2 DEF Stays, Stay, Passed
    <3> QED BY <1>1, <2>1, <3>3, StaysScript
  <2> QED BY <2>2, <2>3
<1>8. CASE EnterTry
  <2>1. Stays /\ Passed /\ Passed' /\ UNCHANGED gateVars
    BY <1>8 DEF EnterTry, Stays, Passed, useVars, tlsVars, imageVars, repVars, histVars
  <2> QED BY <1>1, <2>1, StaysScript
<1>9. CASE Timeout
  <2>1. /\ step \in {"ack", "reply"} /\ Passed /\ NoReplyIsFine
        /\ UNCHANGED <<gateVars, cleaned, acked, secure, imageSaved>>
        /\ Proceed(IF phase = "down_event" THEN "no" ELSE downEvent)
    BY <1>2, <1>9 DEF Timeout, Receiving, Passed, useVars, tlsVars, imageVars
  <2>2. phase \in Windows \cup {"nop"}
    BY <2>1 DEF NoReplyIsFine, Windowed
  <2>3. Finished(IF phase = "down_event" THEN "no" ELSE downEvent)
    BY <2>1, <2>2 DEF Finished, Windows, Sending
  <2> QED BY <1>1, <2>1, <2>2, <2>3, ProceedScript DEF Windows, Phases, Sending
<1>10. CASE OpenWindow
  <2>1. step = "window" /\ step' = "reply" /\ Stay /\ UNCHANGED <<gateVars, cleaned, acked, secure, imageSaved>>
    BY <1>2, <1>10 DEF OpenWindow, useVars, tlsVars, imageVars
  <2>2. phase \in Replying \ {"tls"} => phase \in acked
    BY <2>1 DEF OnScript, Acks
  <2>3. Stays /\ Passed /\ Passed'
    BY <2>1, <2>2 DEF Stays, Stay, Passed
  <2> QED BY <1>1, <2>1, <2>3, StaysScript
<1>11. CASE AckFrame
  <2>1. /\ step = "ack" /\ Passed /\ acked' = acked \cup {phase} /\ phase \in Sending \ {"tls", "disarm"}
        /\ UNCHANGED <<gateVars, cleaned, secure, imageSaved>>
    BY <1>2, <1>11 DEF AckFrame, Passed, Shape, useVars, tlsVars, imageVars
  <2>2. CASE step' \in {"reply", "window"} /\ Stay /\ phase \in Replying
    <3>1. Stays /\ Passed'
      BY <2>1, <2>2 DEF Stays, Stay, Passed
    <3> QED BY <1>1, <2>1, <3>1, StaysScript
  <2>3. CASE Proceed(downEvent) /\ phase # "image"
    <3>1. Finished(downEvent)
      BY <2>1, <2>3 DEF Finished, Sending
    <3> QED BY <1>1, <2>1, <2>3, <3>1, ProceedScript DEF Phases, Sending
  <2>4. \/ step' \in {"reply", "window"} /\ Stay /\ phase \in Replying
        \/ Proceed(downEvent) /\ phase # "image"
    <3>1. CASE phase \in {"firmware", "pre_state", "state", "fdt_manual", "fdt_state"}
      BY <1>2, <1>11, <3>1 DEF AckFrame, Replying
    <3>2. CASE phase = "image"
      BY <1>2, <1>11, <3>2 DEF AckFrame, Replying
    <3>3. CASE phase \notin {"firmware", "pre_state", "state", "fdt_manual", "fdt_state", "image"}
      BY <1>2, <1>11, <3>3 DEF AckFrame
    <3> QED BY <3>1, <3>2, <3>3
  <2> QED BY <2>2, <2>3, <2>4
<1>12. CASE ReplyFrame
  <2>1. /\ step = "reply" /\ Passed /\ UNCHANGED <<gateVars, cleaned, secure, acked>>
        /\ phase \in (Windows \cup Replying) \ {"tls"}
    BY <1>12 DEF ReplyFrame, Passed, Shape, useVars, tlsVars
  <2>2. phase \in Phases \ {"start", "enter", "disarm", "end"} /\ (phase \in Sending => phase \in acked)
    BY <2>1 DEF Windows, Replying, Phases, Sending, OnScript, Acks
  <2>3. CASE /\ imageSaved' = IF WantsImage THEN "skipped" ELSE imageSaved
             /\ Proceed(IF phase = "down_event" THEN "yes" ELSE downEvent)
    <3>1. Finished(IF phase = "down_event" THEN "yes" ELSE downEvent)
      BY <2>1, <2>2, <2>3 DEF Finished, WantsImage
    <3> QED BY <1>1, <2>1, <2>2, <2>3, <3>1, ProceedScript
  <2>4. CASE phase = "image" /\ imageSaved' = "no" /\ step' = "mkdir" /\ Stay
    <3>1. Stays /\ Passed'
      BY <2>1, <2>2, <2>4 DEF Stays, Stay, Passed, Sending
    <3> QED BY <1>1, <2>1, <3>1, StaysScript
  <2> QED BY <1>2, <1>12, <2>3, <2>4 DEF ReplyFrame, WantsImage
<1>13. CASE SleepFrame
  <2>1. /\ step = "ack" /\ phase = "disarm" /\ Passed /\ UNCHANGED <<gateVars, cleaned, secure, imageSaved>>
    BY <1>13 DEF SleepFrame, Passed, useVars, tlsVars, imageVars
  <2>2. CASE UNCHANGED <<ctlVars, downEvent, acked>>
    <3>1. Stays /\ Passed'
      BY <2>1, <2>2 DEF Stays, ctlVars, Passed
    <3> QED BY <1>1, <2>1, <3>1, StaysScript
  <2>3. CASE Disarmed /\ acked' = acked \cup {phase}
    <3>1. step' = "exit" /\ phase' = "end" /\ downEvent' = downEvent
      BY <1>1, <2>3 DEF Disarmed
    <3>2. /\ Asked /\ Acks /\ Event /\ Stages /\ Queries /\ Passes
          /\ UNCHANGED <<args, mode, sent>>
      BY <1>1, <2>1 DEF OnScript, gateVars
    <3>3. Asked'
      BY <3>1 DEF Asked, Manual, Touching
    <3>4. Acks'
      BY <1>1, <2>1, <2>3, <3>1, <3>2, Flagged DEF Acks, Asked, Touching, Opening, Securing, Linking, Manual
    <3>5. Event'
      BY <1>1, <2>1, <2>3, <3>1, <3>2 DEF Event, TouchImage, Opening, Securing, Linking, Manual
    <3>6. Stages'
      BY <3>1 DEF Stages
    <3>7. Queries' /\ Passes'
      BY <3>1, <3>2 DEF Queries, Passes, TouchImage, Manual, Touching, Opening
    <3> QED BY <1>1, <3>2, <3>3, <3>4, <3>5, <3>6, <3>7 DEF OnScript
  <2> QED BY <1>2, <1>13, <2>2, <2>3 DEF SleepFrame
<1>14. CASE TlsFrame
  <2>1. Stays /\ Passed /\ Passed' /\ UNCHANGED gateVars
    BY <1>2, <1>14 DEF TlsFrame, Stays, Stay, Passed, useVars, imageVars
  <2> QED BY <1>1, <2>1, StaysScript
<1>15. CASE ServerStep
  <2>1. /\ step = "server" /\ phase = "tls" /\ Passed /\ UNCHANGED <<gateVars, cleaned, acked, imageSaved>>
    BY <1>15 DEF ServerStep, Shape, Passed, useVars, imageVars
  <2>2. CASE secure' /\ Proceed(downEvent)
    <3>1. Finished(downEvent)
      BY <2>1, <2>2 DEF Finished, Sending
    <3> QED BY <1>1, <2>1, <2>2, <3>1, ProceedScript DEF Phases, Sending
  <2>3. CASE step' = "reply" /\ Stay
    <3>1. Stays /\ Passed'
      BY <2>1, <2>3 DEF Stays, Stay, Passed
    <3> QED BY <1>1, <2>1, <3>1, StaysScript
  <2>4. CASE step' = "gate" /\ Stay
    <3>1. /\ Asked /\ Acks /\ Event /\ Stages /\ Queries /\ Passes
          /\ UNCHANGED <<args, mode, sent, phase, downEvent>>
      BY <1>1, <2>1, <2>4 DEF OnScript, gateVars, Stay
    <3>2. Asked' /\ Acks' /\ Event' /\ Stages'
      BY <2>1, <2>4, <3>1 DEF Asked, Acks, Event, Stages, TouchImage, Securing
    <3>3. Queries' /\ Passes'
      BY <2>1, <2>4, <3>1 DEF Queries, Passes, TouchImage, WasSent, Opening, Touching, Manual
    <3> QED BY <1>1, <3>1, <3>2, <3>3 DEF OnScript
  <2> QED BY <1>2, <1>15, <2>2, <2>3, <2>4 DEF ServerStep
<1>16. CASE SaveTry
  <2>1. /\ phase = "image" /\ UNCHANGED <<gateVars, cleaned, secure, acked, imageSaved>> /\ step \in Saving
        /\ Stay /\ step' \in {"open", "note", "fill", "stats"}
    BY <1>16 DEF SaveTry, SaveGoes, SaveFails, Create, Note, Fill, Shape, useVars, tlsVars
  <2>2. Stays /\ Passed /\ Passed'
    BY <2>1 DEF Stays, Stay, Passed, OnScript, Acks, Replying
  <2> QED BY <1>1, <2>1, <2>2, StaysScript
<1>17. CASE SaveStats
  <2>1. /\ phase = "image" /\ UNCHANGED <<gateVars, cleaned, secure, acked>> /\ step = "stats" /\ Passed
        /\ Proceed(downEvent) /\ imageSaved' = "yes"
    BY <1>17 DEF SaveStats, Shape, useVars, tlsVars, Passed
  <2>2. Finished(downEvent)
    BY <2>1 DEF Finished, OnScript, Acks, Replying
  <2> QED BY <1>1, <2>1, <2>2, ProceedScript DEF Phases, Sending
<1>18. CASE Read \/ Tick \/ ReaderStep \/ UNCHANGED vars
  <2>1. UNCHANGED <<args, phase, step, stage, acked, downEvent, secure, exc, cleaned, imageSaved, gateVars>>
    BY <1>18 DEF Read, Tick, ReaderStep, vars, ctlVars, repVars, histVars, useVars, tlsVars, imageVars
  <2> QED BY <1>1, <2>1 DEF OnScript, Asked, Acks, Event, Stages, Queries, Passes, Passed, TouchImage, WasSent,
     gateVars
<1> QED BY <1>3, <1>4, <1>5, <1>6, <1>7, <1>8, <1>9, <1>10, <1>11, <1>12, <1>13, <1>14, <1>15, <1>16, <1>17,
           <1>18 DEF Next, Program

\* No refusal becomes the error of a run: without an error none happens, and
\* after one only the handler's disarm() sends, where it is swallowed.
LEMMA LabelIsNot ==
  ASSUME NotRefused, NEW label, Raise(label), label # "refused" \/ handling
  PROVE  NotRefused'
BY DEF NotRefused, Raise, Swallows

LEMMA RefusedStep ==
  ASSUME Shape, ErrInv, GateTypeOK, SleepInv, OnScript, NotRefused, [Next]_vars
  PROVE  NotRefused'
<1> USE DEF None
<1>1. ASSUME first' = first PROVE NotRefused'
  BY <1>1 DEF NotRefused
<1>2. CASE Load \/ Enter \/ Leave \/ Report \/ Interrupt
  BY <1>1, <1>2 DEF Load, Enter, Leave, Report, Interrupt, NotRefused, histVars
<1>3. CASE Begin \/ ArmStep \/ GateStep \/ OpenWindow
  <2>1. CASE handling
    BY <1>1, <1>3, <2>1, LabelIsNot DEF Begin, ArmStep, GateStep, OpenWindow, Stay
  <2>2. CASE ~handling
    <3>1. exc = None /\ phase \in Sending \cup Windows
      BY <1>3, <2>2 DEF Begin, ArmStep, GateStep, OpenWindow, ErrInv, OnItsWayOut, Shape, Sending
    <3>2. CASE Begin
      BY <1>1, <3>1, <3>2, RoutinesAgree DEF Begin
    <3>3. CASE ArmStep
      <4>1. phase \in Arming /\ step = "arm"
        BY <3>1, <3>3 DEF ArmStep, OnScript, Stages
      <4>2. MayArm(cmd)
        BY <3>1, <4>1, GateAgrees
      <4> QED BY <1>1, <3>3, <4>2 DEF ArmStep, Stay
    <3>4. CASE GateStep
      <4>1. step = "gate" /\ phase \in Sending
        BY <3>4 DEF GateStep, Shape
      <4>2. cmd \in Open \/ MaySend(cmd)
        <5>1. CASE phase \notin Arming
          BY <4>1, <5>1, Commands
        <5>2. CASE phase \in Arming
          BY <3>1, <4>1, <5>2, GateAgrees, Commands DEF MaySend, SleepInv
        <5> QED BY <5>1, <5>2
      <4> QED BY <1>1, <3>4, <4>2 DEF GateStep, Stay
    <3>5. CASE OpenWindow
      BY <1>1, <3>1, <3>5, RoutinesAgree, LabelIsNot DEF OpenWindow, Stay
    <3> QED BY <1>3, <3>2, <3>3, <3>4, <3>5
  <2> QED BY <2>1, <2>2
<1>4. CASE Write \/ EnterTry \/ WriteRefused \/ WriteError \/ Read \/ ReadRefused \/ ReadError
  BY <1>1, <1>4, LabelIsNot DEF Write, EnterTry, WriteRefused, WriteError, Read, ReadRefused, ReadError, Stay,
     Proceed, histVars
<1>5. CASE Timeout \/ BadFrame \/ AckFrame \/ ReplyFrame \/ SleepFrame \/ TlsFrame \/ TlsLimit \/ ServerStep
  BY <1>1, <1>5, LabelIsNot DEF Timeout, BadFrame, AckFrame, ReplyFrame, SleepFrame, TlsFrame, TlsLimit,
     ServerStep, Stay, Proceed, Disarmed
<1>6. CASE SaveTry \/ SaveExcept \/ SaveStats
  BY <1>1, <1>6 DEF SaveTry, SaveExcept, SaveStats, SaveGoes, SaveFails, Create, Note, Fill, Stay, Proceed,
     NotRefused, histVars
<1>7. CASE Handle \/ Tick \/ ReaderStep \/ UNCHANGED vars
  BY <1>1, <1>7 DEF Handle, Tick, ReaderStep, vars, histVars
<1> QED BY <1>2, <1>3, <1>4, <1>5, <1>6, <1>7 DEF Next, Program

\* An error is never forgotten.
LEMMA ErrorStays == ASSUME Shape, exc # None, [Next]_vars PROVE exc' # None
<1> USE DEF None
<1>1. \A l \in {"refused", "budget", "usb", "timeout", "frame", "ack", "reply", "tls"} :
        Raise(l) => exc' # None
  BY DEF Raise
<1>2. ASSUME NEW e, Proceed(e) PROVE exc' = exc
  BY <1>2 DEF Proceed
<1>3. CASE Load \/ Enter \/ Leave \/ Report \/ Interrupt
  BY <1>3 DEF Load, Enter, Leave, Report, Interrupt, histVars
<1>4. CASE Begin \/ ArmStep \/ GateStep \/ OpenWindow
  BY <1>1, <1>4 DEF Begin, ArmStep, GateStep, OpenWindow, Stay
<1>5. CASE Write \/ EnterTry \/ WriteRefused \/ WriteError \/ Read \/ ReadRefused \/ ReadError
  BY <1>1, <1>2, <1>5 DEF Write, EnterTry, WriteRefused, WriteError, Read, ReadRefused, ReadError, Stay,
     histVars
<1>6. CASE Timeout \/ BadFrame \/ AckFrame \/ ReplyFrame \/ SleepFrame \/ TlsFrame \/ TlsLimit \/ ServerStep
  BY <1>1, <1>2, <1>6 DEF Timeout, BadFrame, AckFrame, ReplyFrame, SleepFrame, TlsFrame, TlsLimit,
     ServerStep, Stay, Disarmed
<1>7. CASE SaveTry \/ SaveExcept \/ SaveStats
  BY <1>2, <1>7 DEF SaveTry, SaveExcept, SaveStats, SaveGoes, SaveFails, Create, Note, Fill, Stay, histVars
<1>8. CASE Handle \/ Tick \/ ReaderStep \/ UNCHANGED vars
  BY <1>8 DEF Handle, Tick, ReaderStep, vars, histVars
<1> QED BY <1>3, <1>4, <1>5, <1>6, <1>7, <1>8 DEF Next, Program

LEMMA AlwaysOnScript == Spec => [](OnScript /\ NotRefused)
<1>1. Init => OnScript /\ NotRefused
  <2>1. Init => \A c \in Gated : sent[c] = 0
    BY DEF Init
  <2>2. Init => /\ sent[StateQuery] = 0 /\ ~WasSent(FdtManual) /\ ~WasSent(FdtDown) /\ ~WasSent(FdtUp)
                /\ ~WasSent(GetImage) /\ ~WasSent(SleepMode)
    BY <2>1 DEF Gated, WasSent
  <2>3. Init => Asked /\ Acks /\ Event /\ Stages /\ args \in Requests /\ mode = ModeOf(args) /\ NotRefused
    BY DEF Init, Asked, Acks, Event, Stages, NotRefused, TouchImage, Manual, Touching, Opening, Securing, Linking
  <2>4. Init => Queries /\ Passes
    BY <2>2 DEF Init, Queries, Passes, TouchImage, Manual, Touching, Opening
  <2> QED BY <2>3, <2>4 DEF OnScript
<1>2. Shape /\ ErrInv /\ GateTypeOK /\ SleepInv /\ OnScript /\ [Next]_vars => OnScript'
  <2> SUFFICES ASSUME Shape, ErrInv, GateTypeOK, SleepInv, OnScript, [Next]_vars PROVE OnScript'
    OBVIOUS
  <2>1. CASE exc' # None
    BY <2>1, ArgsFixed DEF OnScript
  <2>2. CASE exc' = None
    BY <2>2, ErrorStays, ScriptStep
  <2> QED BY <2>1, <2>2
<1>3. Shape /\ ErrInv /\ GateTypeOK /\ SleepInv /\ OnScript /\ NotRefused /\ [Next]_vars => NotRefused'
  BY RefusedStep
<1> QED BY <1>1, <1>2, <1>3, AlwaysShape, AlwaysErr, AlwaysSleep, RunKeepsGate, PTL DEF Spec

\* What the routines, the arm_* methods, send() and the windows insist on is the
\* order of the script: none of them ever ends a run.
THEOREM NoGuardRefuses == Spec => []GuardsAgree
<1>1. NotRefused => GuardsAgree
  BY DEF NotRefused, GuardsAgree
<1> QED BY <1>1, AlwaysOnScript, PTL

\* Exit 0 means that the whole requested script was acknowledged.
THEOREM ExitZeroIsEarned == Spec => []ExitZeroMeansAll
<1>1. Shape /\ Verdict /\ Interface /\ OnScript => ExitZeroMeansAll
  <2> SUFFICES ASSUME Shape, Verdict, Interface, OnScript, code = "0" PROVE ExitZeroMeansAll
    BY DEF ExitZeroMeansAll
  <2>1. exc = None /\ step = "done"
    BY DEF Verdict, Shape
  <2>2. phase = "end" /\ cleaned /\ ~held
    BY <2>1 DEF OnScript, Stages, Interface
  <2>3. Acks /\ Event
    BY <2>1 DEF OnScript
  <2>4. /\ secure
        /\ {"firmware", "request_tls", "confirm"} \subseteq acked
        /\ "pre" \in args => "pre_state" \in acked
        /\ "query" \in args => "state" \in acked
        /\ "manual" \in args => {"fdt_manual", "fdt_state"} \subseteq acked
        /\ "image" \in args => "image" \in acked
        /\ "down" \in args => {"fdt_down", "disarm"} \subseteq acked
    BY <2>2, <2>3 DEF Acks, Opening, Securing, Linking, Manual
  <2>5. /\ "save" \in args /\ "image" \in acked => imageSaved \in {"yes", "skipped"}
        /\ "down" \in args => downEvent # "absent"
        /\ "touch" \in args => ("image" \in acked <=> downEvent = "yes")
        /\ "up" \in args => ("fdt_up" \in acked <=> downEvent = "yes")
    BY <2>2, <2>3 DEF Event, Opening, Securing, Linking, Manual
  <2> QED BY <2>2, <2>4, <2>5 DEF ExitZeroMeansAll
<1> QED BY <1>1, AlwaysShape, AlwaysErr, AlwaysInterface, AlwaysOnScript, PTL
=============================================================================
