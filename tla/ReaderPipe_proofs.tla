-------------------------- MODULE ReaderPipe_proofs --------------------------
(* What the reader's answers, in the order they come and however they are cut,
   lost or late, can make a run believe: for every content of the pipe. *)
EXTENDS ReaderRun_proofs, SequenceTheorems

-----------------------------------------------------------------------------
(* The pipe. *)

\* Some frames are gone and some have become junk; the rest keep their order.
From(i, cut, n) == IF i <= cut THEN i ELSE i + n
ThinsBy(cut, n) ==
  /\ Len(pipe') = Len(pipe) - n
  /\ \A i \in 1..Len(pipe') : pipe'[i] \in {Odd, Bad} \/ pipe'[i] = pipe[From(i, cut, n)]
Thins == /\ pipe' \in Seq(Frame)
         /\ \E cut \in Nat, n \in 0..Len(pipe) : ThinsBy(cut, n)

LEMMA JunkIsFrame == Odd \in Frame /\ Bad \in Frame /\ Tls \in Frame /\ Data \in Frame
BY DEF Odd, Bad, Tls, Data, Frame

LEMMA FrameOf == ASSUME NEW c \in Command PROVE Ack(c) \in Frame /\ Reply(c) \in Frame
BY DEF Ack, Reply, Frame

LEMMA KeepsThin == ASSUME pipe \in Seq(Frame), pipe' = pipe PROVE Thins
<1>1. ThinsBy(0, 0)
  BY DEF ThinsBy, From
<1> QED BY <1>1 DEF Thins

LEMMA Replaced ==
  ASSUME NEW S, NEW q \in Seq(S), NEW k \in 1..Len(q), NEW f \in S
  PROVE  /\ [q EXCEPT ![k] = f] \in Seq(S)
         /\ Len([q EXCEPT ![k] = f]) = Len(q)
         /\ \A i \in 1..Len(q) : [q EXCEPT ![k] = f][i] = IF i = k THEN f ELSE q[i]
OBVIOUS

\* What is left of the pipe behind its first n frames, split or not.
LEMMA RestThins ==
  ASSUME pipe \in Seq(Frame), NEW n \in 0..Len(pipe), NEW s \in BOOLEAN, s => n < Len(pipe),
         pipe' = IF s THEN [SubSeq(pipe, n + 1, Len(pipe)) EXCEPT ![1] = Bad]
                 ELSE SubSeq(pipe, n + 1, Len(pipe))
  PROVE  Thins /\ Len(pipe') = Len(pipe) - n
<1> DEFINE rest == SubSeq(pipe, n + 1, Len(pipe))
<1>1. /\ rest \in Seq(Frame) /\ Len(rest) = Len(pipe) - n
      /\ \A i \in 1..Len(rest) : rest[i] = pipe[i + n]
  OBVIOUS
<1>2. pipe' = IF s THEN [rest EXCEPT ![1] = Bad] ELSE rest
  OBVIOUS
<1> HIDE DEF rest
<1>3. CASE s
  <2>1. 1 \in 1..Len(rest)
    BY <1>1, <1>3
  <2>2. /\ pipe' \in Seq(Frame) /\ Len(pipe') = Len(rest)
        /\ \A i \in 1..Len(rest) : pipe'[i] = IF i = 1 THEN Bad ELSE rest[i]
    <3>1. /\ [rest EXCEPT ![1] = Bad] \in Seq(Frame)
          /\ Len([rest EXCEPT ![1] = Bad]) = Len(rest)
          /\ \A i \in 1..Len(rest) : [rest EXCEPT ![1] = Bad][i] = IF i = 1 THEN Bad ELSE rest[i]
      BY <1>1, <2>1, JunkIsFrame, Replaced
    <3> QED BY <1>2, <1>3, <3>1
  <2>3. ThinsBy(0, n)
    BY <1>1, <2>2 DEF ThinsBy, From
  <2> QED BY <1>1, <2>2, <2>3 DEF Thins
<1>4. CASE ~s
  <2>1. pipe' = rest
    BY <1>2, <1>4
  <2>2. ThinsBy(0, n)
    BY <1>1, <2>1 DEF ThinsBy, From
  <2> QED BY <1>1, <2>1, <2>2 DEF Thins
<1> QED BY <1>3, <1>4

LEMMA ConsumeThins ==
  ASSUME pipe \in Seq(Frame), got \in 0..Len(pipe), Ready, Consume PROVE Thins /\ Len(pipe') = Len(pipe) - 1
<1>1. pipe # <<>> /\ pipe' = Tail(pipe)
  BY DEF Ready, Consume
<1>2. pipe' \in Seq(Frame) /\ Len(pipe') = Len(pipe) - 1 /\ \A i \in 1..Len(pipe') : pipe'[i] = pipe[i + 1]
  BY <1>1
<1>3. ThinsBy(0, 1)
  BY <1>2 DEF ThinsBy, From
<1> QED BY <1>1, <1>2, <1>3 DEF Thins

LEMMA LostThins ==
  ASSUME pipe \in Seq(Frame), LostTransfer PROVE Thins
BY RestThins DEF LostTransfer

LEMMA DiscardThins ==
  ASSUME pipe \in Seq(Frame), got \in 0..Len(pipe), split \in BOOLEAN, split => got < Len(pipe), Discard
  PROVE  Thins
BY RestThins DEF Discard

LEMMA MisdeliverThins ==
  ASSUME pipe \in Seq(Frame), got \in 0..Len(pipe), Misdeliver PROVE Thins /\ got \in 0..Len(pipe')
<1>1. got < Len(pipe)
  BY DEF Misdeliver
<1>2. CASE \E f \in {Odd, Bad} : pipe' = [pipe EXCEPT ![got + 1] = f]
  <2>1. PICK f \in {Odd, Bad} : pipe' = [pipe EXCEPT ![got + 1] = f]
    BY <1>2
  <2>2. /\ pipe' \in Seq(Frame) /\ Len(pipe') = Len(pipe)
        /\ \A i \in 1..Len(pipe') : pipe'[i] = IF i = got + 1 THEN f ELSE pipe[i]
    BY <1>1, <2>1, JunkIsFrame
  <2>3. ThinsBy(0, 0)
    BY <2>2 DEF ThinsBy, From
  <2> QED BY <2>2, <2>3 DEF Thins
<1>3. CASE pipe' = SubSeq(pipe, 1, got) \o SubSeq(pipe, got + 2, Len(pipe))
  <2> DEFINE a == SubSeq(pipe, 1, got)
             b == SubSeq(pipe, got + 2, Len(pipe))
  <2>1. a \in Seq(Frame) /\ Len(a) = got /\ \A i \in 1..got : a[i] = pipe[i]
    BY <1>1
  <2>2. b \in Seq(Frame) /\ Len(b) = Len(pipe) - got - 1 /\ \A i \in 1..Len(b) : b[i] = pipe[i + got + 1]
    BY <1>1
  <2> HIDE DEF a, b
  <2>3. /\ a \o b \in Seq(Frame) /\ Len(a \o b) = Len(pipe) - 1
        /\ \A i \in 1..Len(a \o b) : (a \o b)[i] = IF i <= got THEN a[i] ELSE b[i - got]
    BY <2>1, <2>2, <1>1, ConcatProperties
  <2>4. pipe' = a \o b
    BY <1>3 DEF a, b
  <2>5. \A i \in 1..Len(pipe') : pipe'[i] = pipe[From(i, got, 1)]
    <3> SUFFICES ASSUME NEW i \in 1..Len(pipe') PROVE pipe'[i] = pipe[From(i, got, 1)]
      OBVIOUS
    <3>1. CASE i <= got
      BY <2>1, <2>3, <2>4, <3>1 DEF From
    <3>2. CASE i > got
      <4>1. i - got \in 1..Len(b) /\ (i - got) + got + 1 = i + 1
        BY <2>2, <2>3, <2>4, <3>2
      <4>2. b[i - got] = pipe[i + 1]
        BY <2>2, <4>1
      <4>3. From(i, got, 1) = i + 1 /\ ~(i <= got)
        BY <3>2 DEF From
      <4>4. (a \o b)[i] = b[i - got]
        BY <2>3, <2>4, <4>3
      <4> QED BY <2>4, <4>2, <4>3, <4>4
    <3> QED BY <3>1, <3>2
  <2>6. ThinsBy(got, 1)
    BY <2>3, <2>4, <2>5 DEF ThinsBy
  <2> QED BY <1>1, <2>3, <2>4, <2>6 DEF Thins
<1> QED BY <1>2, <1>3 DEF Misdeliver

-----------------------------------------------------------------------------
(* What a step may do to the link. *)

USE DEF Keeping, Saving, Leaving

Buffered == got \in 0..Len(pipe) /\ split \in BOOLEAN /\ (split => got < Len(pipe))

LinkIs == pipe \in Seq(Frame) /\ Buffered

\* Frames only leave the pipe, or turn to junk, except at a write and for a finger.
Moves ==
  \/ Thins /\ UNCHANGED sensorVars
  \/ step = "write" /\ (Write \/ WriteError) /\ Take(cmd) /\ UNCHANGED bufferVars
  \/ Finger /\ step \notin Leaving /\ UNCHANGED <<phase, step, acked, exc>>

LEMMA CmdIsCommand == ASSUME phase \in Sending PROVE cmd \in Command
BY DEF cmd, CommandOf, Sending, Command, Gated, Open

LEMMA AnswersAre ==
  ASSUME NEW c \in Command, NEW a \in Answers(c)
  PROVE  \/ a = <<>> /\ c \in {"NOP", "TLS"}
         \/ a = <<Ack(c)>> /\ c \notin {"A8", FdtManual, StateQuery, "D0", "TLS", GetImage}
         \/ a = <<Ack(c), Reply(c)>> /\ c \in {"A8", FdtManual, StateQuery}
         \/ a = <<Ack(c), Data>> /\ c \in {StateQuery, GetImage}
         \/ a = <<Ack(c), Tls>> /\ c = "D0"
         \/ a = <<Tls>> /\ c = "TLS"
<1> USE DEF StateQuery, FdtManual, FdtDown, FdtUp, GetImage, SleepMode
<1>1. CASE c \in {"NOP", "TLS", "D0"}
  BY <1>1 DEF Answers
<1>2. CASE c \in {"A8", "3.3", "A.7"}
  BY <1>2 DEF Answers
<1>3. CASE c = "2.0"
  BY <1>3 DEF Answers
<1>4. CASE c \in {"D4", "3.1", "3.2", "6.0"}
  BY <1>4 DEF Answers
<1> QED BY <1>1, <1>2, <1>3, <1>4 DEF Command, Gated, Open

LEMMA AnswersInSeq ==
  ASSUME NEW c \in Command, NEW a \in Answers(c) PROVE a \in Seq(Frame)
<1>1. Ack(c) \in Frame /\ Reply(c) \in Frame
  BY FrameOf
<1>2. /\ <<>> \in Seq(Frame) /\ <<Ack(c)>> \in Seq(Frame) /\ <<Tls>> \in Seq(Frame)
      /\ <<Ack(c), Reply(c)>> \in Seq(Frame) /\ <<Ack(c), Data>> \in Seq(Frame)
      /\ <<Ack(c), Tls>> \in Seq(Frame)
  BY <1>1, JunkIsFrame
<1>3. a \in {<<>>, <<Ack(c)>>, <<Tls>>, <<Ack(c), Reply(c)>>, <<Ack(c), Data>>, <<Ack(c), Tls>>}
  BY AnswersAre
<1> QED BY <1>2, <1>3

LEMMA AnswerFrames ==
  ASSUME NEW c \in Command, NEW a \in Answers(c)
  PROVE  \A j \in 1..Len(a) : a[j] \in {Ack(c), Reply(c), Tls, Data}
<1>1. CASE a = <<>>
  BY <1>1
<1>2. CASE a \in {<<Ack(c)>>, <<Tls>>}
  <2>1. Len(a) = 1 /\ a[1] \in {Ack(c), Tls}
    BY <1>2
  <2> QED BY <2>1
<1>3. CASE a \in {<<Ack(c), Reply(c)>>, <<Ack(c), Data>>, <<Ack(c), Tls>>}
  <2>1. Len(a) = 2 /\ a[1] = Ack(c) /\ a[2] \in {Reply(c), Data, Tls}
    BY <1>3
  <2> QED BY <2>1
<1> QED BY <1>1, <1>2, <1>3, AnswersAre

LEMMA StepMoves ==
  ASSUME Shape, LinkIs, [Next]_vars PROVE Moves
<1> USE DEF LinkIs, Buffered
<1>1. ASSUME UNCHANGED linkVars PROVE Moves
  BY <1>1, KeepsThin DEF Moves, linkVars, pipeVars
<1>2. CASE Load \/ Enter \/ Leave \/ Report \/ Begin \/ ArmStep \/ GateStep \/ EnterTry \/ WriteRefused
           \/ ReadRefused \/ Timeout \/ OpenWindow \/ BadFrame \/ TlsLimit \/ ServerStep
  BY <1>1, <1>2 DEF Load, Enter, Leave, Report, Begin, ArmStep, GateStep, EnterTry, WriteRefused,
     ReadRefused, Timeout, OpenWindow, BadFrame, TlsLimit, ServerStep
<1>3. CASE SaveTry \/ SaveExcept \/ SaveStats \/ Tick \/ UNCHANGED vars
  BY <1>1, <1>3 DEF SaveTry, SaveExcept, SaveStats, Tick, vars
<1>4. CASE Write
  BY <1>4 DEF Write, Moves
<1>5. CASE WriteError
  <2>1. CASE Take(cmd)
    BY <1>5, <2>1 DEF WriteError, Moves
  <2>2. CASE UNCHANGED <<sensorVars, pipe>>
    BY <2>2, KeepsThin DEF Moves
  <2> QED BY <1>5, <2>1, <2>2 DEF WriteError
<1>6. CASE AckFrame \/ ReplyFrame \/ SleepFrame \/ TlsFrame
  <2>1. Ready /\ Consume /\ UNCHANGED sensorVars
    BY <1>6 DEF AckFrame, ReplyFrame, SleepFrame, TlsFrame
  <2> QED BY <2>1, ConsumeThins DEF Moves
<1>7. CASE Read
  BY <1>7, KeepsThin DEF Read, Transfer, Moves
<1>8. CASE ReadError
  BY <1>8, KeepsThin, LostThins DEF ReadError, Moves, pipeVars
<1>9. CASE Interrupt
  BY <1>9, KeepsThin, LostThins DEF Interrupt, Moves, pipeVars
<1>10. CASE Handle
  BY <1>10, KeepsThin, DiscardThins DEF Handle, Moves, pipeVars
<1>11. CASE ReaderStep
  <2>1. CASE Finger
    BY <1>11, <2>1 DEF ReaderStep, Moves, ctlVars, repVars, histVars
  <2>2. CASE Misdeliver
    BY <2>2, MisdeliverThins DEF Moves, Misdeliver, sensorVars
  <2> QED BY <1>11, <2>1, <2>2 DEF ReaderStep, Reader
<1> QED BY <1>2, <1>3, <1>4, <1>5, <1>6, <1>7, <1>8, <1>9, <1>10, <1>11 DEF Next, Program

\* The buffer never counts more than the pipe holds.
LEMMA BufferStep ==
  ASSUME Shape, LinkIs, [Next]_vars PROVE LinkIs'
<1> USE DEF LinkIs, Buffered
<1>1. ASSUME UNCHANGED pipeVars PROVE LinkIs'
  BY <1>1 DEF pipeVars
<1>2. CASE Load \/ Enter \/ Leave \/ Report \/ Begin \/ ArmStep \/ GateStep \/ EnterTry \/ WriteRefused
           \/ ReadRefused \/ Timeout \/ OpenWindow \/ BadFrame \/ TlsLimit \/ ServerStep
  BY <1>1, <1>2 DEF Load, Enter, Leave, Report, Begin, ArmStep, GateStep, EnterTry, WriteRefused,
     ReadRefused, Timeout, OpenWindow, BadFrame, TlsLimit, ServerStep, linkVars
<1>3. CASE SaveTry \/ SaveExcept \/ SaveStats \/ Tick \/ UNCHANGED vars
  BY <1>1, <1>3 DEF SaveTry, SaveExcept, SaveStats, Tick, vars, linkVars
<1>4. ASSUME phase \in Sending, Take(cmd), UNCHANGED bufferVars PROVE LinkIs'
  <2>1. PICK a \in Answers(cmd) : pipe' = pipe \o a
    BY <1>4 DEF Take
  <2>2. a \in Seq(Frame)
    BY <1>4, CmdIsCommand, AnswersInSeq
  <2>3. pipe' \in Seq(Frame) /\ Len(pipe') = Len(pipe) + Len(a) /\ Len(a) \in Nat
    BY <2>1, <2>2
  <2> QED BY <1>4, <2>3 DEF bufferVars
<1>5. CASE Write \/ WriteError
  <2>1. phase \in Sending
    BY <1>5 DEF Write, WriteError, Shape
  <2>2. \/ Take(cmd) /\ UNCHANGED bufferVars
        \/ UNCHANGED pipeVars
    BY <1>5 DEF Write, WriteError, pipeVars, bufferVars
  <2> QED BY <1>1, <1>4, <2>1, <2>2
<1>6. CASE AckFrame \/ ReplyFrame \/ SleepFrame \/ TlsFrame
  <2>1. Ready /\ Consume
    BY <1>6 DEF AckFrame, ReplyFrame, SleepFrame, TlsFrame
  <2>2. pipe' \in Seq(Frame) /\ Len(pipe') = Len(pipe) - 1
    BY <2>1, ConsumeThins DEF Thins
  <2> QED BY <2>1, <2>2 DEF Consume, Ready
<1>7. CASE Read
  BY <1>7 DEF Read, Transfer
<1>8. ASSUME LostTransfer \/ Discard PROVE LinkIs'
  <2>1. Thins
    BY <1>8, LostThins, DiscardThins
  <2>2. got' = 0 /\ split' = FALSE /\ Len(pipe') \in Nat /\ pipe' \in Seq(Frame)
    BY <1>8, <2>1 DEF LostTransfer, Discard, Thins
  <2>3. 0 \in 0..Len(pipe')
    BY <2>2
  <2> QED BY <2>2, <2>3
<1>9. CASE ReadError \/ Interrupt \/ Handle
  BY <1>1, <1>8, <1>9 DEF ReadError, Interrupt, Handle
<1>10. CASE ReaderStep
  <2>1. CASE Finger
    <3>1. Reply(FdtDown) \in Frame /\ Reply(FdtUp) \in Frame
      BY FrameOf DEF Command, Gated
    <3>2. pipe' \in Seq(Frame) /\ Len(pipe') = Len(pipe) + 1
      BY <2>1, <3>1 DEF Finger
    <3> QED BY <2>1, <3>2 DEF Finger, bufferVars
  <2>2. CASE Misdeliver
    <3>1. got \in 0..Len(pipe') /\ pipe' \in Seq(Frame) /\ ~split /\ UNCHANGED <<got, split>>
      BY <2>2, MisdeliverThins DEF Misdeliver, bufferVars, Thins
    <3> QED BY <3>1
  <2> QED BY <1>10, <2>1, <2>2 DEF ReaderStep, Reader
<1> QED BY <1>2, <1>3, <1>5, <1>6, <1>7, <1>9, <1>10 DEF Next, Program

LEMMA AlwaysLink == Spec => []LinkIs
<1>1. Init => LinkIs
  <2>1. Init => got = 0 /\ split = FALSE /\ pipe \in {<<>>} \cup {<<f>> : f \in Leftovers}
    BY DEF Init, LinkInit
  <2>2. <<>> \in Seq(Frame) /\ \A f \in Leftovers : <<f>> \in Seq(Frame)
    BY LeftoversAssumption
  <2>3. Init => pipe \in Seq(Frame)
    BY <2>1, <2>2
  <2>4. pipe \in Seq(Frame) => 0 \in 0..Len(pipe)
    OBVIOUS
  <2> QED BY <2>1, <2>3, <2>4 DEF LinkIs, Buffered
<1> QED BY <1>1, BufferStep, AlwaysShape, PTL DEF Spec

-----------------------------------------------------------------------------
(* 6.0 and its ACK. *)

\* The reader gets no gated frame that send() has not let through.
Counted ==
  /\ \A c \in Gated : seen[c] <= sent[c]
  /\ step = "write" /\ cmd \in Gated => seen[cmd] < sent[cmd]

\* The try of fdt_down(), its handler and disarm() come after a 3.1 that has
\* reached the reader, and that comes after an acknowledged A8.
Armed ==
  /\ step \in {"try", "handler"} \/ Protected => seen[FdtDown] > 0
  /\ seen[FdtDown] > 0 => "firmware" \in acked
  /\ fdt \in {"off", "down"} \/ (fdt = "up" /\ seen[FdtUp] > 0)

\* What the acknowledged phases and sleep_ack may do, and who is in the try.
LEMMA RaiseIs ==
  ASSUME NEW label, Raise(label)
  PROVE  /\ phase' = phase /\ downEvent' = downEvent
         /\ step' = "exit" \/ (step' = "handler" /\ Protected)
         /\ sleepAck' = sleepAck \/ (handling /\ sleepAck' = "no")
BY DEF Raise, Swallows

LEMMA ProceedIs ==
  ASSUME NEW e, Proceed(e)
  PROVE  step' = Entry(phase') /\ phase' = After(phase, e) /\ sleepAck' = sleepAck /\ downEvent' = e
BY DEF Proceed

LEMMA AcksGrow ==
  ASSUME [Next]_vars
  PROVE  \/ acked' = acked
         \/ AckFrame /\ Head(pipe) = Ack(cmd) /\ acked' = acked \cup {phase}
         \/ SleepFrame /\ acked' = acked \cup {"disarm"}
<1>1. CASE Load \/ Enter \/ Leave \/ Report \/ Handle \/ Begin \/ ArmStep \/ GateStep \/ Write
  BY <1>1 DEF Load, Enter, Leave, Report, Handle, Begin, ArmStep, GateStep, Write, repVars
<1>2. CASE EnterTry \/ WriteRefused \/ WriteError \/ Read \/ ReadRefused \/ ReadError \/ Timeout
  BY <1>2 DEF EnterTry, WriteRefused, WriteError, Read, ReadRefused, ReadError, Timeout, repVars
<1>3. CASE OpenWindow \/ BadFrame \/ AckFrame \/ ReplyFrame \/ SleepFrame \/ TlsFrame \/ TlsLimit
  BY <1>3 DEF OpenWindow, BadFrame, AckFrame, ReplyFrame, SleepFrame, TlsFrame, TlsLimit
<1>4. CASE ServerStep \/ SaveTry \/ SaveExcept \/ SaveStats \/ Interrupt \/ Tick \/ ReaderStep
  BY <1>4 DEF ServerStep, SaveTry, SaveExcept, SaveStats, Interrupt, Tick, ReaderStep, repVars
<1> QED BY <1>1, <1>2, <1>3, <1>4 DEF Next, Program, vars, repVars

\* How the program comes to a write.
LEMMA WriteFrom ==
  ASSUME Shape, [Next]_vars, step' = "write"
  PROVE  \/ step = "write" /\ UNCHANGED <<phase, gateVars, seen>>
         \/ step = "gate" /\ UNCHANGED <<phase, seen>> /\ (cmd \in Open \/ Pass(cmd))
<1>1. CASE GateStep
  BY <1>1, RaiseIs DEF GateStep, Stay, linkVars, sensorVars
<1>2. CASE Tick \/ ReaderStep \/ UNCHANGED vars
  BY <1>2 DEF Tick, ReaderStep, vars, ctlVars, linkVars, sensorVars, Reader, Finger, Misdeliver
<1>3. CASE Load \/ Enter \/ Leave \/ Report \/ Handle \/ Interrupt
  BY <1>3 DEF Load, Enter, Leave, Report, Handle, Interrupt, Finally
<1>4. CASE Begin \/ ArmStep \/ EnterTry \/ WriteRefused \/ WriteError \/ OpenWindow \/ BadFrame
  BY <1>4, RaiseIs DEF Begin, ArmStep, EnterTry, WriteRefused, WriteError, OpenWindow, BadFrame
<1>5. CASE Write \/ Timeout \/ AckFrame \/ ReplyFrame \/ ServerStep \/ SaveStats
  BY <1>5, RaiseIs, ProceedLeads DEF Write, Written, Timeout, AckFrame, ReplyFrame, ServerStep, SaveStats
<1>6. CASE Read \/ ReadRefused \/ ReadError
  BY <1>6, RaiseIs DEF Read, ReadRefused, ReadError, Receiving, ctlVars
<1>7. CASE SleepFrame \/ TlsFrame \/ TlsLimit
  BY <1>7, RaiseIs DEF SleepFrame, TlsFrame, TlsLimit, Disarmed, ctlVars
<1>8. CASE SaveTry \/ SaveExcept
  BY <1>8 DEF SaveTry, SaveExcept, SaveGoes, SaveFails, Create, Note, Fill
<1> QED BY <1>1, <1>2, <1>3, <1>4, <1>5, <1>6, <1>7, <1>8 DEF Next, Program

\* The try and its handler are entered only from a 3.1 that has been sent.
InTry == step \in {"try", "handler"} \/ Protected

LEMMA TryFrom ==
  ASSUME Shape, OnScript, [Next]_vars, InTry' PROVE InTry \/ (Write /\ phase = "fdt_down")
<1> USE DEF InTry
<1>1. args' = args
  BY ArgsFixed
<1>2. ASSUME step' = step, phase' = phase PROVE InTry
  BY <1>1, <1>2 DEF Protected
<1>3. CASE Tick \/ ReaderStep \/ UNCHANGED vars \/ Read
  BY <1>2, <1>3 DEF Tick, ReaderStep, vars, ctlVars, Read
<1>4. CASE Load \/ Enter \/ Report \/ Leave
  BY <1>1, <1>4 DEF Load, Enter, Report, Leave, Finally, Protected
<1>5. CASE Handle \/ Interrupt
  BY <1>1, <1>5 DEF Handle, Interrupt, Finally, Protected
<1>6. CASE Begin \/ ArmStep \/ GateStep \/ WriteRefused \/ ReadRefused \/ ReadError \/ BadFrame \/ TlsLimit \/ OpenWindow
  <2>1. step' \in {"exit", "handler", "arm", "gate", "write", "reply"} /\ phase' = phase
    BY <1>6, RaiseIs DEF Begin, ArmStep, GateStep, WriteRefused, ReadRefused, ReadError, BadFrame,
       TlsLimit, OpenWindow, Stay
  <2>2. step' = "handler" => Protected
    BY <1>6, RaiseIs DEF Begin, ArmStep, GateStep, WriteRefused, ReadRefused, ReadError, BadFrame,
       TlsLimit, OpenWindow
  <2> QED BY <1>1, <2>1, <2>2 DEF Protected
<1>7. CASE WriteError
  BY <1>1, <1>7, RaiseIs DEF WriteError, Protected
<1>8. ASSUME NEW e, Proceed(e), step \in {"ack", "reply", "server", "write", "stats"},
             phase \in Phases \ {"start", "enter", "disarm", "end"}, phase = "fdt_down" => step = "ack"
      PROVE  InTry
  <2>1. Edge(e)
    BY <1>8, Edges
  <2>2. step' \notin {"try", "handler", "ack"}
    BY <1>8, ProceedLeads
  <2>3. CASE phase \in {"fdt_down", "down_event", "fdt_up", "up_event"} \/ TouchImage
    BY <1>8, <2>3 DEF Protected, TouchImage
  <2>4. CASE ~(phase \in {"fdt_down", "down_event", "fdt_up", "up_event"} \/ TouchImage)
    <3>1. phase' \notin {"down_event", "fdt_up", "up_event", "disarm"} /\ ~TouchImage'
      BY <1>1, <2>1, <2>4, Flagged DEF Edge, TouchImage
    <3> QED BY <2>2, <3>1 DEF Protected, TouchImage
  <2> QED BY <2>3, <2>4
<1>9. CASE Write
  <2>1. CASE phase = "tls" /\ secure
    BY <1>8, <1>9, <2>1 DEF Write, Phases, Sending
  <2>2. CASE ~(phase = "tls" /\ secure)
    BY <1>1, <1>9, <2>2 DEF Write, Stay, Written, Protected
  <2> QED BY <2>1, <2>2
<1>10. CASE EnterTry
  BY <1>10 DEF EnterTry
<1>11. CASE Timeout
  <2>1. phase \in Windows \cup Replying \cup Sending /\ step \in {"ack", "reply"} /\ phase \in Phases
    BY <1>11 DEF Timeout, Receiving, Shape
  <2>2. CASE NoReplyIsFine
    <3>1. phase \in {"nop"} \cup Windows
      BY <2>2 DEF NoReplyIsFine, Windowed
    <3> QED BY <1>8, <1>11, <2>1, <2>2, <3>1 DEF Timeout, Windows
  <2>3. CASE ~NoReplyIsFine
    BY <1>1, <1>11, <2>3, RaiseIs DEF Timeout, Protected
  <2> QED BY <2>2, <2>3
<1>12. CASE AckFrame
  <2>1. CASE Raise("ack")
    BY <1>1, <2>1, RaiseIs DEF Protected
  <2>2. CASE step' \in {"reply", "window"} /\ Stay
    BY <1>1, <2>2 DEF Stay, Protected
  <2>3. CASE Proceed(downEvent)
    BY <1>8, <1>12, <2>3 DEF AckFrame, Shape, Sending, Phases
  <2> QED BY <1>12, <2>1, <2>2, <2>3 DEF AckFrame
<1>13. CASE ReplyFrame
  <2>1. CASE Raise("reply")
    BY <1>1, <2>1, RaiseIs DEF Protected
  <2>2. CASE step' = "mkdir" /\ Stay
    BY <1>1, <2>2 DEF Stay, Protected
  <2>3. CASE Proceed(IF phase = "down_event" THEN "yes" ELSE downEvent)
    <3>1. phase \in Windows \cup Replying /\ phase \in Phases
      BY <1>13 DEF ReplyFrame, Shape
    <3> QED BY <1>8, <1>13, <2>3, <3>1 DEF ReplyFrame, Windows, Replying
  <2> QED BY <1>13, <2>1, <2>2, <2>3 DEF ReplyFrame
<1>14. CASE SleepFrame
  BY <1>14 DEF SleepFrame, Protected
<1>15. CASE TlsFrame \/ ServerStep
  <2>1. phase = "tls" /\ step \in {"reply", "server"}
    BY <1>15 DEF TlsFrame, ServerStep, Shape
  <2>2. \/ (\E l \in {"reply", "tls"} : Raise(l))
        \/ (step' \in {"server", "gate", "reply"} /\ Stay)
        \/ Proceed(downEvent)
    BY <1>15 DEF TlsFrame, ServerStep
  <2> QED BY <1>1, <1>8, <2>1, <2>2, RaiseIs DEF Stay, Protected, Phases, Sending
<1>16. CASE SaveTry \/ SaveExcept
  <2>1. /\ phase' = phase /\ phase = "image" /\ step' \in Keeping \cup {"exit", "handler"}
        /\ step' = "handler" => Protected
    BY <1>16 DEF SaveTry, SaveExcept, SaveGoes, SaveFails, Create, Note, Fill, Stay, Shape
  <2> QED BY <1>1, <2>1 DEF Protected
<1>17. CASE SaveStats
  BY <1>8, <1>17 DEF SaveStats, Shape, Phases, Sending
<1> QED BY <1>3, <1>4, <1>5, <1>6, <1>7, <1>9, <1>10, <1>11, <1>12, <1>13, <1>14, <1>15, <1>16, <1>17 DEF Next, Program

\* What the reader has taken only grows, by the command of this phase.
LEMMA SeenGrows ==
  ASSUME Shape, LinkIs, SleepInv, [Next]_vars
  PROVE  \/ seen' = seen
         \/ /\ step = "write" /\ phase \in Sending /\ cmd \in Command /\ Take(cmd) /\ step' # "write"
            /\ seen' = [seen EXCEPT ![cmd] = seen[cmd] + 1] /\ seen[cmd] \in Nat
<1>1. Moves
  BY StepMoves
<1>2. CASE step = "write" /\ Take(cmd)
  <2>1. phase \in Sending /\ cmd \in Command
    BY <1>2, CmdIsCommand DEF Shape
  <2>2. seen' = [seen EXCEPT ![cmd] = seen[cmd] + 1] /\ seen[cmd] \in Nat
    BY <1>2, <2>1 DEF Take, SleepInv
  <2>3. seen'[cmd] # seen[cmd]
    BY <2>1, <2>2 DEF SleepInv
  <2>4. step' # "write"
    BY <1>2, <2>3, WriteFrom
  <2> QED BY <1>2, <2>1, <2>2, <2>4
<1>3. CASE seen' = seen
  BY <1>3
<1> QED BY <1>1, <1>2, <1>3 DEF Moves, Finger, sensorVars

LEMMA SentGrows ==
  ASSUME GateTypeOK, [Next]_vars, NEW c \in Gated PROVE sent[c] \in Nat /\ sent'[c] \in Nat /\ sent[c] <= sent'[c]
<1>1. [GateNext]_gateVars
  BY StepOfGate
<1>2. sent \in [Gated -> 0..2]
  BY DEF GateTypeOK
<1>3. CASE UNCHANGED gateVars
  BY <1>2, <1>3 DEF gateVars
<1>4. ASSUME NEW d \in Gated, Arm(d) \/ Pass(d) PROVE sent[c] \in Nat /\ sent'[c] \in Nat /\ sent[c] <= sent'[c]
  BY <1>2, <1>4 DEF Arm, Pass
<1> QED BY <1>1, <1>3, <1>4 DEF GateNext

LEMMA CountedStep ==
  ASSUME Shape, LinkIs, SleepInv, GateTypeOK, Counted, [Next]_vars PROVE Counted'
<1> USE DEF Counted
<1>0. Gated \subseteq Command
  BY DEF Command
<1>1. \A c \in Gated : seen'[c] <= sent'[c]
  <2> SUFFICES ASSUME NEW c \in Gated PROVE seen'[c] <= sent'[c]
    OBVIOUS
  <2>1. sent[c] \in Nat /\ sent'[c] \in Nat /\ sent[c] <= sent'[c] /\ seen[c] \in Nat /\ seen[c] <= sent[c]
    BY <1>0, SentGrows DEF SleepInv
  <2>2. CASE seen'[c] = seen[c]
    BY <2>1, <2>2
  <2>3. CASE step = "write" /\ cmd = c /\ seen' = [seen EXCEPT ![cmd] = seen[cmd] + 1]
    <3>1. seen'[c] = seen[c] + 1 /\ seen[c] < sent[c]
      BY <1>0, <2>3 DEF SleepInv
    <3> QED BY <2>1, <3>1
  <2> QED BY <1>0, <2>2, <2>3, SeenGrows DEF SleepInv
<1>2. ASSUME step' = "write", cmd' \in Gated PROVE seen'[cmd'] < sent'[cmd']
  <2>1. CASE step = "write" /\ UNCHANGED <<phase, gateVars, seen>>
    BY <1>2, <2>1 DEF cmd, gateVars
  <2>2. CASE step = "gate" /\ UNCHANGED <<phase, seen>> /\ (cmd \in Open \/ Pass(cmd))
    <3>1. cmd' = cmd /\ cmd \notin Open
      BY <1>2, <2>2 DEF cmd, Open, Gated, StateQuery, FdtManual, FdtDown, FdtUp, GetImage, SleepMode
    <3>2. sent'[cmd] = sent[cmd] + 1 /\ sent[cmd] \in Nat
      BY <1>2, <2>2, <3>1 DEF Pass, GateTypeOK
    <3>3. seen[cmd] <= sent[cmd] /\ seen[cmd] \in Nat
      BY <1>0, <1>2, <3>1 DEF SleepInv
    <3> QED BY <2>2, <3>1, <3>2, <3>3
  <2> QED BY <1>2, <2>1, <2>2, WriteFrom
<1> QED BY <1>1, <1>2

LEMMA ArmedStep ==
  ASSUME Shape, LinkIs, SleepInv, ErrInv, OnScript, Armed, [Next]_vars PROVE Armed'
<1> USE DEF Armed
<1>0. FdtDown \in Command /\ FdtUp \in Command /\ FdtDown # FdtUp /\ seen \in [Command -> Nat]
  BY DEF Command, Gated, FdtDown, FdtUp, SleepInv
<1>1. \A c \in Command : seen[c] > 0 => seen'[c] > 0
  BY SeenGrows DEF SleepInv
<1>2. InTry' => seen'[FdtDown] > 0
  <2>1. CASE InTry
    BY <1>0, <1>1, <2>1 DEF InTry
  <2>2. CASE Write /\ phase = "fdt_down"
    <3>1. Take(FdtDown)
      BY <2>2 DEF Write, cmd, CommandOf
    <3> QED BY <1>0, <3>1 DEF Take
  <2> QED BY <2>1, <2>2, TryFrom
<1>3. seen'[FdtDown] > 0 => "firmware" \in acked'
  <2>1. CASE seen[FdtDown] > 0
    BY <2>1, AcksGrow
  <2>2. CASE ~(seen[FdtDown] > 0) /\ seen'[FdtDown] > 0
    <3>1. step = "write" /\ cmd = FdtDown /\ phase \in Sending
      BY <1>0, <2>2, SeenGrows
    <3>2. phase = "fdt_down"
      BY <3>1 DEF cmd, CommandOf, Sending, StateQuery, FdtManual, FdtDown, FdtUp, GetImage, SleepMode
    <3>3. exc = None
      BY <3>1, <3>2 DEF ErrInv, OnItsWayOut, Shape
    <3>4. "firmware" \in acked
      BY <3>2, <3>3 DEF OnScript, Acks, Opening
    <3> QED BY <3>4, AcksGrow
  <2> QED BY <2>1, <2>2
<1>4. fdt' \in {"off", "down"} \/ (fdt' = "up" /\ seen'[FdtUp] > 0)
  <2>1. CASE UNCHANGED sensorVars
    BY <2>1 DEF sensorVars
  <2>2. CASE step = "write" /\ Take(cmd)
    <3>1. (fdt' = "up" /\ seen'[FdtUp] > 0) \/ cmd # FdtUp
      <4>1. ASSUME cmd = FdtUp PROVE fdt' = "up" /\ seen'[FdtUp] = seen[FdtUp] + 1
        BY <1>0, <2>2, <4>1 DEF Take, FdtDown, FdtUp, SleepMode
      <4> QED BY <1>0, <4>1
    <3>2. cmd # FdtUp => fdt' = fdt \/ fdt' \in {"down", "off"}
      BY <2>2 DEF Take
    <3> QED BY <1>0, <1>1, <3>1, <3>2
  <2>3. CASE Finger
    BY <2>3 DEF Finger
  <2> QED BY <2>1, <2>2, <2>3, StepMoves DEF Moves
<1> QED BY <1>2, <1>3, <1>4 DEF InTry

\* On the way out nothing is sent or read any more.
LEMMA LeavingStays ==
  ASSUME Shape, [Next]_vars, step \in Leaving
  PROVE  step' \in Leaving /\ UNCHANGED <<phase, sleepAck, acked, linkVars>>
<1>1. CASE Leave \/ Report \/ UNCHANGED vars
  BY <1>1 DEF Leave, Report, vars, repVars, ctlVars, Finally
<1>2. CASE Interrupt
  <2>2. ~Receiving
    BY DEF Receiving
  <2>3. UNCHANGED <<phase, sleepAck, acked, linkVars>>
    BY <1>2, <2>2 DEF Interrupt, repVars, linkVars
  <2>4. step # "done"
    BY <1>2 DEF Interrupt
  <2>5. step' \in Leaving
    BY <1>2, <2>4 DEF Interrupt, Finally, Cleaned
  <2> QED BY <2>3, <2>5
<1>3. ~(Load \/ Enter \/ Handle \/ Begin \/ ArmStep \/ GateStep \/ Write \/ EnterTry \/ WriteRefused \/ WriteError)
  BY DEF Load, Enter, Handle, Begin, ArmStep, GateStep, Write, EnterTry, WriteRefused, WriteError
<1>4. ~(Read \/ ReadRefused \/ ReadError \/ Timeout \/ OpenWindow \/ BadFrame \/ AckFrame \/ ReplyFrame)
  BY DEF Read, ReadRefused, ReadError, Timeout, OpenWindow, BadFrame, AckFrame, ReplyFrame, Receiving
<1>5. ~(SleepFrame \/ TlsFrame \/ TlsLimit \/ ServerStep \/ SaveTry \/ SaveExcept \/ SaveStats \/ Tick \/ ReaderStep)
  BY DEF SleepFrame, TlsFrame, TlsLimit, ServerStep, SaveTry, SaveExcept, SaveStats, Tick, ReaderStep
<1> QED BY <1>1, <1>2, <1>3, <1>4, <1>5 DEF Next, Program

\* sleep_ack: report.update in disarm() sets it, and the ACK of 6.0 makes it true.
LEMMA SleepAckFrom ==
  ASSUME Shape, [Next]_vars
  PROVE  \/ sleepAck' = sleepAck
         \/ sleepAck' = "no" /\ (handling \/ (step = "begin" /\ phase = "disarm"))
         \/ SleepFrame /\ SleepAcked(Head(pipe)) /\ sleepAck' = "yes" /\ step' = "exit"
<1>1. CASE Load \/ Enter \/ Leave \/ Report \/ Handle \/ Interrupt \/ EnterTry
  BY <1>1 DEF Load, Enter, Leave, Report, Handle, Interrupt, EnterTry, repVars
<1>2. CASE Begin \/ ArmStep \/ GateStep \/ WriteRefused \/ WriteError \/ ReadRefused \/ ReadError \/ BadFrame
           \/ TlsLimit \/ OpenWindow
  BY <1>2, RaiseIs DEF Begin, ArmStep, GateStep, WriteRefused, WriteError, ReadRefused, ReadError, BadFrame,
     TlsLimit, OpenWindow, Stay
<1>3. CASE Write \/ Timeout \/ AckFrame \/ ReplyFrame \/ ServerStep \/ SaveStats \/ TlsFrame
  BY <1>3, RaiseIs, ProceedIs DEF Write, Timeout, AckFrame, ReplyFrame, ServerStep, SaveStats, TlsFrame, Stay
<1>4. CASE SleepFrame
  BY <1>4, RaiseIs DEF SleepFrame, Disarmed
<1>5. CASE SaveTry \/ SaveExcept
  BY <1>5 DEF SaveTry, SaveExcept, SaveGoes, SaveFails, Create, Note, Fill, Stay, repVars
<1>6. CASE Read \/ Tick \/ ReaderStep \/ UNCHANGED vars
  BY <1>6 DEF Read, Tick, ReaderStep, vars, repVars
<1> QED BY <1>1, <1>2, <1>3, <1>4, <1>5, <1>6 DEF Next, Program

\* disarm() sets sleep_ack before it does anything else.
Disarming == phase = "disarm" /\ step \in {"arm", "gate", "write", "ack"}

LEMMA DisarmingFrom ==
  ASSUME Shape, [Next]_vars, Disarming'
  PROVE  (Disarming /\ sleepAck' = sleepAck) \/ sleepAck' = "no"
<1> USE DEF Disarming
<1>1. CASE Load \/ Enter \/ Leave \/ Report \/ Handle \/ Interrupt \/ EnterTry
  BY <1>1 DEF Load, Enter, Leave, Report, Handle, Interrupt, EnterTry, Shape, Finally
<1>2. CASE Begin \/ ArmStep \/ GateStep \/ WriteRefused \/ WriteError \/ ReadRefused \/ ReadError \/ BadFrame
           \/ TlsLimit \/ OpenWindow
  <2>1. CASE step' \in {"exit", "handler"}
    BY <2>1
  <2>2. CASE step' \notin {"exit", "handler"}
    BY <1>2, <2>2, RaiseIs DEF Begin, ArmStep, GateStep, WriteRefused, WriteError, ReadRefused, ReadError,
       BadFrame, TlsLimit, OpenWindow, Stay, Shape, Windows
  <2> QED BY <2>1, <2>2
<1>3. CASE Write \/ Timeout \/ AckFrame \/ ReplyFrame \/ ServerStep \/ SaveStats \/ TlsFrame
  <2>1. CASE step' \in {"exit", "handler", "begin", "window", "reply", "server", "mkdir"}
    BY <2>1
  <2>2. CASE step' \notin {"exit", "handler", "begin", "window", "reply", "server", "mkdir"}
    BY <1>3, <2>2, RaiseIs, ProceedLeads DEF Write, Timeout, AckFrame, ReplyFrame, ServerStep, SaveStats,
       TlsFrame, Stay, Written, Shape
  <2> QED BY <2>1, <2>2
<1>4. CASE SleepFrame
  BY <1>4, RaiseIs DEF SleepFrame, Disarmed, ctlVars
<1>5. CASE SaveTry \/ SaveExcept
  BY <1>5 DEF SaveTry, SaveExcept, SaveGoes, SaveFails, Create, Note, Fill
<1>6. CASE Read \/ Tick \/ ReaderStep \/ UNCHANGED vars
  BY <1>6 DEF Read, Tick, ReaderStep, vars, repVars, ctlVars
<1> QED BY <1>1, <1>2, <1>3, <1>4, <1>5, <1>6 DEF Next, Program

\* After its write, disarm() waits, and then the run is on its way out.
Afterwards == /\ phase \in {"disarm", "end"} /\ step \in {"ack", "handler"} \cup Leaving
              /\ step \in {"ack", "handler"} => sleepAck # "absent"

LEMMA AfterwardsStays ==
  ASSUME Shape, [Next]_vars, Afterwards PROVE Afterwards'
<1> USE DEF Afterwards
<1>1. CASE step \in Leaving
  BY <1>1, LeavingStays
<1>2. CASE step \in {"ack", "handler"}
  <2>0. phase = "disarm" /\ sleepAck' # "absent"
    BY <1>2, SleepAckFrom DEF Shape
  <2>1. ~(Load \/ Enter \/ Leave \/ Report \/ Begin \/ ArmStep \/ GateStep \/ Write \/ EnterTry \/ WriteRefused
          \/ WriteError \/ OpenWindow)
    BY <1>2 DEF Load, Enter, Leave, Report, Begin, ArmStep, GateStep, Write, EnterTry, WriteRefused, WriteError,
       OpenWindow
  <2>2. ~(AckFrame \/ ReplyFrame \/ TlsFrame \/ TlsLimit \/ ServerStep \/ SaveTry \/ SaveExcept \/ SaveStats)
    BY <1>2, <2>0 DEF AckFrame, ReplyFrame, TlsFrame, TlsLimit, ServerStep, SaveTry, SaveExcept, SaveStats
  <2>3. CASE Handle \/ Interrupt
    BY <1>2, <2>0, <2>3 DEF Handle, Interrupt, Protected, Cleaned
  <2>4. CASE ReadRefused \/ ReadError \/ Timeout \/ BadFrame
    <3>1. ~NoReplyIsFine
      BY <2>0 DEF NoReplyIsFine, Windowed, Windows
    <3> QED BY <2>0, <2>4, <3>1, RaiseIs DEF ReadRefused, ReadError, Timeout, BadFrame
  <2>5. CASE SleepFrame
    BY <2>0, <2>5, RaiseIs DEF SleepFrame, Disarmed, ctlVars
  <2>6. CASE Read \/ Tick \/ ReaderStep \/ UNCHANGED vars
    BY <1>2, <2>0, <2>6 DEF Read, Tick, ReaderStep, vars, ctlVars
  <2> QED BY <2>1, <2>2, <2>3, <2>4, <2>5, <2>6 DEF Next, Program
<1> QED BY <1>1, <1>2

\* Frames that are not one another.
LEMMA Frames ==
  ASSUME NEW c, NEW d
  PROVE  /\ Ack(c) = Ack(d) => c = d
         /\ Reply(c) = Reply(d) => c = d
         /\ Ack(c) \notin {Reply(d), Tls, Data, Odd, Bad}
         /\ Reply(c) \notin {Tls, Data, Odd, Bad}
         /\ Tls \notin {Data, Odd, Bad} /\ Data \notin {Odd, Bad}
BY DEF Ack, Reply, Tls, Data, Odd, Bad

LEMMA Appended ==
  ASSUME NEW q \in Seq(Frame), NEW a \in Seq(Frame)
  PROVE  /\ Len(q \o a) = Len(q) + Len(a) /\ Len(q) \in Nat /\ Len(a) \in Nat
         /\ \A i \in 1..Len(q \o a) : IF i <= Len(q) THEN (q \o a)[i] = q[i]
                                      ELSE i - Len(q) \in 1..Len(a) /\ (q \o a)[i] = a[i - Len(q)]
<1>1. Len(q \o a) = Len(q) + Len(a) /\ Len(q) \in Nat /\ Len(a) \in Nat
  OBVIOUS
<1>2. \A i \in 1..Len(q) + Len(a) : (q \o a)[i] = IF i <= Len(q) THEN q[i] ELSE a[i - Len(q)]
  OBVIOUS
<1> QED BY <1>1, <1>2

\* Before 6.0 its ACK can only be an old one, in front of everything this run has
\* asked for; after it, nothing comes behind the ACK.
NoAckYet == \A i \in 1..Len(pipe) : (i = 1 /\ "firmware" \notin acked) \/ pipe[i] # Ack(SleepMode)
AckLast  == \A i \in 1..Len(pipe) : pipe[i] = Ack(SleepMode) => i = Len(pipe)

Asleep ==
  /\ Disarming => sleepAck # "absent"
  /\ seen[SleepMode] = 0 => NoAckYet
  /\ seen[SleepMode] > 0 => fdt = "off" /\ Afterwards /\ AckLast
  /\ sleepAck = "yes" => seen[SleepMode] > 0 /\ pipe = <<>> /\ step \in Leaving

\* Losing and mangling frames makes no ACK and puts nothing behind one.
LEMMA ThinsKeepAcks ==
  ASSUME LinkIs, Thins, [Next]_vars
  PROVE  /\ NoAckYet => NoAckYet' \/ (AckFrame /\ phase = "firmware")
         /\ AckLast => AckLast'
         /\ pipe = <<>> => pipe' = <<>>
<1>1. PICK cut \in Nat, n \in 0..Len(pipe) : ThinsBy(cut, n)
  BY DEF Thins
<1>2. /\ Len(pipe) \in Nat /\ Len(pipe') = Len(pipe) - n /\ pipe' \in Seq(Frame) /\ pipe \in Seq(Frame)
      /\ \A i \in 1..Len(pipe') : pipe'[i] \in {Odd, Bad} \/ pipe'[i] = pipe[From(i, cut, n)]
  <2>1. pipe' \in Seq(Frame) /\ pipe \in Seq(Frame)
    BY DEF Thins, LinkIs
  <2>2. Len(pipe) \in Nat
    BY <2>1
  <2> QED BY <1>1, <2>1, <2>2 DEF ThinsBy
<1>3. \A i \in 1..Len(pipe') : /\ From(i, cut, n) \in 1..Len(pipe) /\ i <= From(i, cut, n)
                               /\ From(i, cut, n) = Len(pipe) => i = Len(pipe')
  BY <1>2 DEF From
<1>4. \A i \in 1..Len(pipe') : pipe'[i] = Ack(SleepMode) => pipe[From(i, cut, n)] = Ack(SleepMode)
  BY <1>2, Frames
<1>5. AckLast => AckLast'
  BY <1>3, <1>4 DEF AckLast
<1>6. ASSUME NoAckYet, "firmware" \in acked' => "firmware" \in acked PROVE NoAckYet'
  BY <1>3, <1>4, <1>6 DEF NoAckYet
<1>7. ("firmware" \in acked' => "firmware" \in acked) \/ (AckFrame /\ phase = "firmware")
  <2>1. SleepFrame => phase = "disarm"
    BY DEF SleepFrame
  <2> QED BY <2>1, AcksGrow
<1>8. pipe = <<>> => pipe' = <<>>
  BY <1>2
<1> QED BY <1>5, <1>6, <1>7, <1>8

LEMMA AsleepStep ==
  ASSUME Shape, LinkIs, SleepInv, ErrInv, OnScript, Counted, Armed, Asleep, [Next]_vars PROVE Asleep'
<1> USE DEF Asleep
<1>0. SleepMode \in Command /\ seen \in [Command -> Nat] /\ pipe \in Seq(Frame) /\ LinkIs'
  BY BufferStep DEF Command, Gated, SleepInv, LinkIs
<1>1. Disarming' => sleepAck' # "absent"
  BY DisarmingFrom
<1>2. phase = "disarm" => "firmware" \in acked
  BY DEF Armed, Protected
<1>3. CASE step = "write" /\ (Write \/ WriteError) /\ Take(cmd) /\ UNCHANGED bufferVars
  <2>0. phase \in Sending /\ cmd \in Command /\ (cmd = SleepMode <=> phase = "disarm")
    <3>1. phase \in Sending
      BY <1>3 DEF Shape
    <3> QED BY <3>1, CmdIsCommand DEF cmd, CommandOf, Sending, StateQuery, FdtManual, FdtDown, FdtUp, GetImage, SleepMode
  <2>1. seen[SleepMode] = 0 /\ sleepAck # "yes"
    <3>1. ~Afterwards
      BY <1>3 DEF Afterwards
    <3> QED BY <1>0, <1>3, <3>1
  <2>2. PICK a \in Answers(cmd) : pipe' = pipe \o a
    BY <1>3 DEF Take
  <2>3. a \in Seq(Frame)
    BY <2>0, <2>2, AnswersInSeq
  <2>4. /\ Len(pipe') = Len(pipe) + Len(a) /\ Len(pipe) \in Nat /\ Len(a) \in Nat
        /\ \A i \in 1..Len(pipe') : IF i <= Len(pipe) THEN pipe'[i] = pipe[i]
                                    ELSE i - Len(pipe) \in 1..Len(a) /\ pipe'[i] = a[i - Len(pipe)]
    BY <1>0, <2>2, <2>3, Appended
  <2>5. sleepAck' # "yes"
    BY <1>3, <2>1, SleepAckFrom DEF SleepFrame
  <2>6. CASE phase # "disarm"
    <3>1. \A j \in 1..Len(a) : a[j] # Ack(SleepMode)
      <4>1. \A j \in 1..Len(a) : a[j] \in {Ack(cmd), Reply(cmd), Tls, Data}
        BY <2>0, <2>2, AnswerFrames
      <4> QED BY <2>0, <2>6, <4>1, Frames
    <3>2. seen'[SleepMode] = 0
      BY <1>0, <1>3, <2>0, <2>1, <2>6 DEF Take
    <3>3. acked' = acked
      BY <1>3, AcksGrow DEF AckFrame, SleepFrame
    <3>4. NoAckYet'
      BY <2>1, <2>4, <3>1, <3>3 DEF NoAckYet
    <3> QED BY <1>1, <2>5, <3>2, <3>4
  <2>7. CASE phase = "disarm"
    <3>1. a = <<Ack(SleepMode)>>
      BY <2>0, <2>2, <2>7, AnswersAre DEF StateQuery, FdtManual, GetImage, SleepMode
    <3>2. \A i \in 1..Len(pipe) : pipe[i] # Ack(SleepMode)
      BY <1>2, <2>1, <2>7 DEF NoAckYet
    <3>3. AckLast'
      <4>1. Len(a) = 1
        BY <3>1
      <4> QED BY <2>4, <3>2, <4>1 DEF AckLast
    <3>4. fdt' = "off" /\ seen'[SleepMode] > 0
      BY <1>0, <1>3, <2>0, <2>7 DEF Take, FdtDown, FdtUp, SleepMode
    <3>5. sleepAck' # "absent" /\ phase' = "disarm" /\ step' \in {"ack", "handler"} \cup Leaving
      <4>1. sleepAck # "absent"
        BY <1>3, <2>7 DEF Disarming
      <4>2. sleepAck' # "absent"
        BY <4>1, SleepAckFrom
      <4> QED BY <1>3, <2>7, <4>2, RaiseIs DEF Write, WriteError, Written, Stay
    <3> QED BY <1>1, <2>5, <3>3, <3>4, <3>5 DEF Afterwards
  <2> QED BY <2>6, <2>7
<1>4. CASE Thins /\ UNCHANGED sensorVars
  <2>1. UNCHANGED <<fdt, seen>>
    BY <1>4 DEF sensorVars
  <2>2. /\ NoAckYet => NoAckYet' \/ (AckFrame /\ phase = "firmware")
        /\ AckLast => AckLast'
        /\ pipe = <<>> => pipe' = <<>>
    BY <1>4, ThinsKeepAcks
  <2>3. ASSUME AckFrame, phase = "firmware", NoAckYet PROVE NoAckYet'
    <3>1. pipe' = Tail(pipe) /\ pipe # <<>>
      BY <1>0, <2>3 DEF AckFrame, Consume, Ready, LinkIs, Buffered
    <3>2. \A i \in 1..Len(pipe') : pipe'[i] = pipe[i + 1] /\ i + 1 \in 1..Len(pipe) /\ i + 1 # 1
      BY <1>0, <3>1
    <3> QED BY <2>3, <3>2 DEF NoAckYet
  <2>4. seen[SleepMode] > 0 => fdt' = "off" /\ Afterwards' /\ AckLast'
    BY <2>1, <2>2, AfterwardsStays
  <2>5. ASSUME sleepAck' = "yes" PROVE seen[SleepMode] > 0 /\ pipe' = <<>> /\ step' \in Leaving
    <3>1. CASE sleepAck = "yes"
      BY <2>2, <3>1, LeavingStays
    <3>2. CASE SleepFrame /\ SleepAcked(Head(pipe)) /\ step' = "exit"
      <4>1. phase = "disarm" /\ pipe' = Tail(pipe) /\ pipe # <<>> /\ pipe[1] = Ack(SleepMode)
        BY <1>0, <3>2 DEF SleepFrame, Consume, Ready, SleepAcked, LinkIs, Buffered
      <4>2. 1 \in 1..Len(pipe)
        BY <1>0, <4>1
      <4>3. seen[SleepMode] > 0
        BY <1>0, <1>2, <4>1, <4>2 DEF NoAckYet
      <4>4. Len(pipe) = 1
        BY <4>1, <4>2, <4>3 DEF AckLast
      <4> QED BY <1>0, <3>2, <4>1, <4>3, <4>4
    <3> QED BY <2>5, <3>1, <3>2, SleepAckFrom
  <2> QED BY <1>1, <2>1, <2>2, <2>3, <2>4, <2>5
<1>5. CASE Finger /\ step \notin Leaving /\ UNCHANGED <<phase, step, acked, exc>>
  <2>1. fdt # "off" /\ UNCHANGED seen
    BY <1>5 DEF Finger
  <2>2. seen[SleepMode] = 0
    BY <1>0, <2>1
  <2>3. sleepAck' # "yes"
    BY <1>5, <2>2, SleepAckFrom
  <2>4. NoAckYet'
    <3>1. PICK f \in {Reply(FdtDown), Reply(FdtUp)} : pipe' = Append(pipe, f)
      BY <1>5 DEF Finger
    <3>2. f # Ack(SleepMode)
      BY <3>1, Frames
    <3>3. \A i \in 1..Len(pipe') : pipe'[i] = (IF i <= Len(pipe) THEN pipe[i] ELSE f)
      BY <1>0, <3>1
    <3>4. \A i \in 1..Len(pipe') : i <= Len(pipe) => i \in 1..Len(pipe)
      BY <1>0
    <3> QED BY <1>5, <2>2, <3>2, <3>3, <3>4 DEF NoAckYet
  <2> QED BY <1>1, <2>1, <2>2, <2>3, <2>4
<1> QED BY <1>3, <1>4, <1>5, StepMoves DEF Moves

LEMMA AlwaysAsleep == Spec => [](Counted /\ Armed /\ Asleep)
<1>1. Init => Counted /\ Armed /\ Asleep
  <2> SUFFICES ASSUME Init PROVE Counted /\ Armed /\ Asleep
    OBVIOUS
  <2>1. /\ step = "load" /\ phase = "start" /\ acked = {} /\ sleepAck = "absent"
        /\ \A c \in Gated : sent[c] = 0
        /\ \A c \in Command : seen[c] = 0
        /\ fdt \in {"off", "down"} /\ pipe \in {<<>>} \cup {<<f>> : f \in Leftovers}
    BY DEF Init, LinkInit
  <2>2. /\ \A c \in Gated : seen[c] = 0
        /\ {FdtDown, FdtUp, SleepMode} \subseteq Command
    BY <2>1 DEF Command, Gated
  <2>3. \A i \in 1..Len(pipe) : i = 1
    <3>1. CASE pipe = <<>>
      BY <3>1
    <3>2. ASSUME NEW f, pipe = <<f>> PROVE \A i \in 1..Len(pipe) : i = 1
      BY <3>2
    <3> QED BY <2>1, <3>1, <3>2
  <2>4. Counted
    BY <2>1, <2>2 DEF Counted
  <2>5. Armed
    BY <2>1, <2>2 DEF Armed, Protected
  <2>6. Asleep
    BY <2>1, <2>2, <2>3 DEF Asleep, NoAckYet, Disarming
  <2> QED BY <2>4, <2>5, <2>6
<1>2. /\ Shape /\ LinkIs /\ SleepInv /\ GateTypeOK /\ ErrInv /\ OnScript
      /\ Counted /\ Armed /\ Asleep /\ [Next]_vars
      => (Counted /\ Armed /\ Asleep)'
  BY CountedStep, ArmedStep, AsleepStep
<1> QED BY <1>1, <1>2, AlwaysShape, AlwaysLink, AlwaysSleep, AlwaysErr, AlwaysOnScript, RunKeepsGate, PTL DEF Spec

\* A sleep_ack that says true is the ACK of this run's own 6.0, and the last thing
\* the reader had to say, whatever came before it.
THEOREM SleepAckIsTrue == Spec => []SleepAckTruth
<1>1. GateTypeOK /\ GateOrder /\ SleepInv /\ Counted /\ Asleep => SleepAckTruth
  <2> SUFFICES ASSUME GateTypeOK, GateOrder, SleepInv, Counted, Asleep, sleepAck = "yes"
               PROVE  seen[SleepMode] = 1 /\ fdt = "off" /\ pipe = <<>>
    BY DEF SleepAckTruth
  <2>1. SleepMode \in Gated \ {StateQuery} /\ SleepMode \in Command
    BY DEF Gated, Command, SleepMode, StateQuery
  <2>2. seen[SleepMode] \in Nat /\ sent[SleepMode] \in Nat /\ sent[SleepMode] <= 1
    BY <2>1 DEF GateTypeOK, GateOrder, SleepInv
  <2>3. seen[SleepMode] <= sent[SleepMode] /\ seen[SleepMode] > 0 /\ fdt = "off" /\ pipe = <<>>
    BY <2>1 DEF Counted, Asleep
  <2> QED BY <2>2, <2>3
<1> QED BY <1>1, AlwaysAsleep, AlwaysSleep, RunKeepsGate, PTL

-----------------------------------------------------------------------------
(* The touch session. *)

\* report['fdt_down_event'] is decided in its window, after 3.1 and before 3.2,
\* 2.0 and 6.0.
Decided == downEvent # "absent" =>
             seen[FdtDown] > 0 /\ phase \in {"image", "fdt_up", "up_event", "disarm", "end"}

LEMMA EventFrom ==
  ASSUME Shape, [Next]_vars
  PROVE  \/ downEvent' = downEvent
         \/ /\ phase = "down_event" /\ step = "reply" /\ Proceed(downEvent') /\ UNCHANGED sensorVars
<1>1. CASE Load \/ Enter \/ Leave \/ Report \/ Handle \/ Interrupt \/ EnterTry
  BY <1>1 DEF Load, Enter, Leave, Report, Handle, Interrupt, EnterTry, repVars
<1>2. CASE Begin \/ ArmStep \/ GateStep \/ WriteRefused \/ WriteError \/ ReadRefused \/ ReadError \/ BadFrame
           \/ TlsLimit \/ OpenWindow
  BY <1>2, RaiseIs DEF Begin, ArmStep, GateStep, WriteRefused, WriteError, ReadRefused, ReadError, BadFrame,
     TlsLimit, OpenWindow, Stay
<1>3. CASE Write \/ AckFrame \/ ServerStep \/ SaveStats \/ TlsFrame
  BY <1>3, RaiseIs, ProceedIs DEF Write, AckFrame, ServerStep, SaveStats, TlsFrame, Stay
<1>4. CASE Timeout
  <2>1. CASE NoReplyIsFine /\ phase = "down_event"
    <3>1. Proceed("no") /\ step = "reply" /\ UNCHANGED linkVars
      BY <1>4, <2>1 DEF Timeout, NoReplyIsFine, Windowed
    <3> QED BY <2>1, <3>1, ProceedIs DEF linkVars
  <2>2. CASE NoReplyIsFine /\ phase # "down_event"
    BY <1>4, <2>2, ProceedIs DEF Timeout
  <2>3. CASE ~NoReplyIsFine
    BY <1>4, <2>3, RaiseIs DEF Timeout
  <2> QED BY <2>1, <2>2, <2>3
<1>5. CASE ReplyFrame
  <2>1. step = "reply" /\ UNCHANGED sensorVars
    BY <1>5 DEF ReplyFrame
  <2>2. CASE Proceed(IF phase = "down_event" THEN "yes" ELSE downEvent)
    BY <2>1, <2>2, ProceedIs
  <2>3. CASE Stay \/ Raise("reply")
    BY <2>3, RaiseIs DEF Stay
  <2> QED BY <1>5, <2>2, <2>3 DEF ReplyFrame
<1>6. CASE SleepFrame
  BY <1>6, RaiseIs DEF SleepFrame, Disarmed
<1>7. CASE SaveTry \/ SaveExcept
  BY <1>7 DEF SaveTry, SaveExcept, SaveGoes, SaveFails, Create, Note, Fill, Stay, repVars
<1>8. CASE Read \/ Tick \/ ReaderStep \/ UNCHANGED vars
  BY <1>8 DEF Read, Tick, ReaderStep, vars, repVars
<1> QED BY <1>1, <1>2, <1>3, <1>4, <1>5, <1>6, <1>7, <1>8 DEF Next, Program

\* From phase to phase, along the script or to the handler's disarm().
LEMMA PhaseFrom ==
  ASSUME Shape, [Next]_vars
  PROVE  \/ phase' = phase
         \/ phase \notin {"disarm", "end"} /\ \E e : Proceed(e) /\ Edge(e)
         \/ step = "handler" /\ phase' = "disarm"
         \/ phase = "disarm" /\ phase' = "end"
         \/ phase \in {"start", "enter"} /\ phase' \in {"enter", "stale"}
<1>1. CASE Load \/ Enter \/ Leave \/ Report \/ Handle \/ Interrupt \/ EnterTry
  BY <1>1 DEF Load, Enter, Leave, Report, Handle, Interrupt, EnterTry, Shape
<1>2. CASE Begin \/ ArmStep \/ GateStep \/ WriteRefused \/ WriteError \/ ReadRefused \/ ReadError \/ BadFrame
           \/ TlsLimit \/ OpenWindow
  BY <1>2, RaiseIs DEF Begin, ArmStep, GateStep, WriteRefused, WriteError, ReadRefused, ReadError, BadFrame,
     TlsLimit, OpenWindow, Stay
<1>3. ASSUME NEW e, Proceed(e), phase \in Phases \ {"start", "enter", "disarm", "end"}
      PROVE  phase \notin {"disarm", "end"} /\ \E f : Proceed(f) /\ Edge(f)
  BY <1>3, Edges
<1>4. CASE Write \/ ServerStep \/ TlsFrame
  <2>1. \/ phase' = phase
        \/ phase = "tls" /\ Proceed(downEvent)
    BY <1>4, RaiseIs DEF Write, ServerStep, TlsFrame, Stay, Shape
  <2> QED BY <1>3, <2>1 DEF Phases, Sending
<1>5. CASE AckFrame
  <2>1. \/ phase' = phase
        \/ Proceed(downEvent)
    BY <1>5, RaiseIs DEF AckFrame, Stay
  <2>2. phase \in Phases \ {"start", "enter", "disarm", "end"}
    BY <1>5 DEF AckFrame, Shape, Sending
  <2> QED BY <1>3, <2>1, <2>2
<1>6. CASE Timeout \/ ReplyFrame
  <2>1. \/ phase' = phase
        \/ (\E e : Proceed(e)) /\ phase \in Windows \cup Replying \cup {"nop"}
    BY <1>6, RaiseIs DEF Timeout, ReplyFrame, NoReplyIsFine, Windowed, Stay, Shape
  <2> QED BY <1>3, <2>1 DEF Phases, Windows, Replying, Sending
<1>7. CASE SleepFrame
  BY <1>7, RaiseIs DEF SleepFrame, Disarmed, ctlVars
<1>8. CASE SaveTry \/ SaveExcept
  BY <1>8 DEF SaveTry, SaveExcept, SaveGoes, SaveFails, Create, Note, Fill, Stay
<1>9. CASE SaveStats
  BY <1>3, <1>9 DEF SaveStats, Shape, Phases, Sending
<1>10. CASE Read \/ Tick \/ ReaderStep \/ UNCHANGED vars
  BY <1>10 DEF Read, Tick, ReaderStep, vars, ctlVars
<1> QED BY <1>1, <1>2, <1>4, <1>5, <1>6, <1>7, <1>8, <1>9, <1>10 DEF Next, Program

LEMMA DecidedStep ==
  ASSUME Shape, LinkIs, SleepInv, Armed, Decided, [Next]_vars PROVE Decided'
<1> DEFINE After31 == {"image", "fdt_up", "up_event", "disarm", "end"}
<1>1. FdtDown \in Command
  BY DEF Command, Gated
<1>2. seen[FdtDown] > 0 => seen'[FdtDown] > 0
  BY <1>1, SeenGrows DEF SleepInv
<1>3. CASE downEvent' = downEvent
  <2>1. phase \in After31 => phase' \in After31
    BY PhaseFrom DEF Edge
  <2> QED BY <1>2, <1>3, <2>1 DEF Decided
<1>4. CASE phase = "down_event" /\ Proceed(downEvent')
  <2>1. seen[FdtDown] > 0
    BY <1>4 DEF Armed, Protected
  <2>2. Edge(downEvent')
    BY <1>4, Edges DEF Phases, Windows
  <2>3. phase' \in After31
    BY <1>4, <2>2 DEF Edge
  <2> QED BY <1>2, <2>1, <2>3 DEF Decided
<1> QED BY <1>3, <1>4, EventFrom

LEMMA UnsentUnseen ==
  ASSUME SleepInv, Counted, GateTypeOK, GateOrder, NEW c \in Gated \ {StateQuery}
  PROVE  /\ seen[c] \in Nat
         /\ ~WasSent(c) => seen[c] = 0
         /\ step = "write" /\ cmd = c => seen[c] = 0
<1>1. /\ seen[c] \in Nat /\ sent[c] \in Nat /\ seen[c] <= sent[c] /\ sent[c] <= 1
      /\ step = "write" /\ cmd = c => seen[c] < sent[c]
  BY DEF SleepInv, Counted, GateTypeOK, GateOrder, Command
<1> QED BY <1>1 DEF WasSent

\* A command of the touch session reaches the reader.
LEMMA SessionTakes ==
  ASSUME Shape, SleepInv, GateTypeOK, GateOrder, ErrInv, OnScript, Counted, Armed, Decided,
         step = "write", Take(cmd), UNCHANGED <<args, downEvent>>
  PROVE  [Session!Next]_<<SensorState, SensorAsked>>
<1> DEFINE S == {FdtDown, FdtUp, GetImage, SleepMode}
<1>1. phase \in Sending /\ cmd \in Command /\ S \subseteq Gated \ {StateQuery} /\ S \subseteq Command
      /\ seen \in [Command -> Nat]
  <2>1. phase \in Sending
    BY DEF Shape
  <2> QED BY <2>1, CmdIsCommand DEF SleepInv, Gated, Command, StateQuery, FdtDown, FdtUp, GetImage, SleepMode
<1>2. \A c \in S : seen[c] \in Nat /\ (~WasSent(c) => seen[c] = 0) /\ (cmd = c => seen[c] = 0)
  BY <1>1, UnsentUnseen
<1>3. \A c \in Command : seen'[c] = IF c = cmd THEN seen[c] + 1 ELSE seen[c]
  BY <1>1 DEF Take
<1>4. CASE cmd \notin S
  <2>1. \A c \in S : seen'[c] = seen[c]
    BY <1>1, <1>3, <1>4
  <2>2. SensorAsked' = SensorAsked /\ SensorState' = SensorState
    BY <2>1 DEF SensorAsked, SensorState
  <2> QED BY <2>2
<1>5. ASSUME cmd \in S PROVE SensorAsked' = [SensorAsked EXCEPT ![cmd] = SensorAsked[cmd] + 1]
  <2>1. \A c \in S : seen'[c] = IF c = cmd THEN seen[c] + 1 ELSE seen[c]
    BY <1>1, <1>3
  <2> QED BY <1>5, <2>1 DEF SensorAsked
<1>6. /\ FdtDown # FdtUp /\ FdtDown # GetImage /\ FdtDown # SleepMode /\ FdtUp # GetImage
      /\ FdtUp # SleepMode /\ GetImage # SleepMode
  BY DEF FdtDown, FdtUp, GetImage, SleepMode
<1>7. phase # "disarm" => exc = None
  BY DEF ErrInv, OnItsWayOut, Shape
<1>8. seen[FdtDown] = 0 => downEvent = "absent"
  BY <1>2 DEF Decided
<1>9. mode \in Modes /\ mode = ModeOf(args)
  BY DEF GateTypeOK, OnScript
<1>10. CASE cmd = FdtDown
  <2>1. phase = "fdt_down"
    BY <1>1, <1>10 DEF cmd, CommandOf, Sending, StateQuery, FdtManual, FdtDown, FdtUp, GetImage, SleepMode
  <2>2. ~WasSent(FdtUp) /\ ~WasSent(GetImage) /\ ~WasSent(SleepMode)
    BY <1>7, <2>1 DEF OnScript, Passes
  <2>3. SensorState = "idle"
    BY <1>2, <1>8, <1>10, <2>2 DEF SensorState
  <2>4. SensorState' = "armed"
    BY <1>1, <1>2, <1>3, <1>6, <1>8, <1>10, <2>2 DEF SensorState
  <2> QED BY <1>5, <1>10, <2>3, <2>4 DEF Session!Next, Session!Armed, Session!Get
<1>11. CASE cmd = FdtUp
  <2>1. phase = "fdt_up"
    BY <1>1, <1>11 DEF cmd, CommandOf, Sending, StateQuery, FdtManual, FdtDown, FdtUp, GetImage, SleepMode
  <2>2. ~WasSent(GetImage) /\ ~WasSent(SleepMode) /\ downEvent = "yes"
    BY <1>7, <2>1 DEF OnScript, Passes, Event
  <2>3. SensorState = "touched"
    BY <1>2, <1>11, <2>2 DEF SensorState
  <2>4. SensorState' = "lifting"
    BY <1>1, <1>2, <1>3, <1>6, <1>11, <2>2 DEF SensorState
  <2> QED BY <1>5, <1>11, <2>3, <2>4 DEF Session!Next, Session!Lifting, Session!Get
<1>12. CASE cmd = GetImage
  <2>1. phase = "image" /\ exc = None
    BY <1>1, <1>7, <1>12 DEF cmd, CommandOf, Sending, StateQuery, FdtManual, FdtDown, FdtUp, GetImage, SleepMode
  <2>2. ~WasSent(FdtUp) /\ ~WasSent(SleepMode)
    BY <2>1 DEF OnScript, Passes
  <2>3. CASE "touch" \in args
    <3>1. downEvent = "yes"
      BY <2>1, <2>3 DEF OnScript, Event, TouchImage
    <3>2. SensorState = "touched"
      BY <1>2, <1>12, <2>2, <3>1 DEF SensorState
    <3>3. SensorState' = "imaged"
      BY <1>1, <1>2, <1>3, <1>6, <1>12, <2>2, <2>3 DEF SensorState
    <3> QED BY <1>5, <1>12, <3>2, <3>3 DEF Session!Next, Session!Imaged, Session!Get
  <2>4. CASE "touch" \notin args
    <3>1. ~mode.down
      <4>1. "down" \notin args
        BY <2>1, <2>4, Flagged DEF OnScript, Asked
      <4> QED BY <1>9, <4>1 DEF ModeOf
    <3>2. ~WasSent(FdtDown)
      BY <3>1 DEF GateOrder
    <3>3. SensorState = "idle"
      BY <1>2, <1>8, <1>12, <2>2, <3>2 DEF SensorState
    <3>4. SensorState' = "imaged idle"
      BY <1>1, <1>2, <1>3, <1>6, <1>12, <2>2, <2>4 DEF SensorState
    <3> QED BY <1>5, <1>12, <3>3, <3>4 DEF Session!Next, Session!FreeImage, Session!Get
  <2> QED BY <2>3, <2>4
<1>13. CASE cmd = SleepMode
  <2>1. phase = "disarm"
    BY <1>1, <1>13 DEF cmd, CommandOf, Sending, StateQuery, FdtManual, FdtDown, FdtUp, GetImage, SleepMode
  <2>2. seen[FdtDown] > 0
    BY <2>1 DEF Armed, Protected
  <2>3. ASSUME seen[GetImage] > 0 PROVE "touch" \in args
    <3>1. WasSent(FdtDown) /\ WasSent(GetImage)
      BY <1>2, <2>2, <2>3
    <3>2. mode.fdt
      BY <1>9, <3>1 DEF GateOrder, Modes, ModeOk
    <3>3. mode.touch
      BY <3>1, <3>2 DEF GateOrder
    <3> QED BY <1>9, <3>3 DEF ModeOf
  <2>4. SensorState \in {"armed", "touched", "imaged", "lifting"}
    BY <1>2, <1>13, <2>2, <2>3 DEF SensorState
  <2>5. SensorState' = "asleep"
    BY <1>1, <1>2, <1>3, <1>13 DEF SensorState
  <2> QED BY <1>5, <1>13, <2>4, <2>5 DEF Session!Next, Session!Asleep, Session!Get
<1> QED BY <1>4, <1>10, <1>11, <1>12, <1>13

LEMMA SessionStep ==
  ASSUME Shape, LinkIs, SleepInv, GateTypeOK, GateOrder, ErrInv, OnScript, Counted, Armed, Decided, [Next]_vars
  PROVE  [Session!Next]_<<SensorState, SensorAsked>>
<1>1. args' = args
  BY ArgsFixed
<1>2. CASE step = "write" /\ Take(cmd)
  <2>1. downEvent' = downEvent
    BY <1>2, EventFrom
  <2> QED BY <1>1, <1>2, <2>1, SessionTakes
<1>3. CASE UNCHANGED <<seen, downEvent>>
  <2>1. SensorAsked' = SensorAsked /\ SensorState' = SensorState
    BY <1>1, <1>3 DEF SensorAsked, SensorState
  <2> QED BY <2>1
<1>4. CASE phase = "down_event" /\ step = "reply" /\ Proceed(downEvent') /\ UNCHANGED seen
  <2>1. exc = None
    BY <1>4 DEF ErrInv, OnItsWayOut, Shape
  <2>2. ~WasSent(FdtUp) /\ ~WasSent(GetImage) /\ ~WasSent(SleepMode)
    BY <1>4, <2>1 DEF OnScript, Passes
  <2>3. {FdtUp, GetImage, SleepMode} \subseteq Gated \ {StateQuery}
    BY DEF Gated, StateQuery, FdtUp, GetImage, SleepMode
  <2>4. seen[FdtUp] = 0 /\ seen[GetImage] = 0 /\ seen[SleepMode] = 0
    BY <2>2, <2>3, UnsentUnseen
  <2>5. seen[FdtDown] > 0 /\ downEvent = "absent"
    BY <1>4 DEF Armed, Protected, Decided
  <2>6. SensorState = "armed" /\ SensorAsked' = SensorAsked
    BY <1>4, <2>4, <2>5 DEF SensorState, SensorAsked
  <2>7. SensorState' = IF downEvent' = "yes" THEN "touched" ELSE "armed"
    BY <1>1, <1>4, <2>4, <2>5 DEF SensorState
  <2> QED BY <2>6, <2>7 DEF Session!Next, Session!Touched
<1>5. seen' = seen \/ (step = "write" /\ Take(cmd))
  BY SeenGrows
<1> QED BY <1>2, <1>3, <1>4, <1>5, EventFrom

LEMMA AlwaysDecided == Spec => []Decided
<1>1. Init => Decided
  BY DEF Init, Decided
<1>2. Shape /\ LinkIs /\ SleepInv /\ Armed /\ Decided /\ [Next]_vars => Decided'
  BY DecidedStep
<1> QED BY <1>1, <1>2, AlwaysShape, AlwaysLink, AlwaysSleep, AlwaysAsleep, PTL DEF Spec

\* The reader is asked only what a touch session allows: the run implements
\* TouchSession.
THEOREM TouchesAsPromised == Spec => TouchProtocol
<1>1. Init => Session!Init
  <2> SUFFICES ASSUME Init PROVE Session!Init
    OBVIOUS
  <2>1. \A c \in {FdtDown, FdtUp, GetImage, SleepMode} : seen[c] = 0
    BY DEF Init, LinkInit, Command, Gated
  <2>2. downEvent = "absent"
    BY DEF Init
  <2> QED BY <2>1, <2>2 DEF Session!Init, Session!Asks, SensorAsked, SensorState
<1>2. /\ Shape /\ LinkIs /\ SleepInv /\ GateTypeOK /\ GateOrder /\ ErrInv /\ OnScript /\ Counted /\ Armed
      /\ Decided /\ [Next]_vars
      => [Session!Next]_<<SensorState, SensorAsked>>
  BY SessionStep
<1> QED BY <1>1, <1>2, AlwaysShape, AlwaysLink, AlwaysSleep, AlwaysErr, AlwaysOnScript, AlwaysAsleep,
           AlwaysDecided, RunKeepsGate, PTL DEF Spec, TouchProtocol, Session!Spec

-----------------------------------------------------------------------------
(* What a run leaves in the pipe. A phase that is over has taken the last frame
   of its answer; behind that there is only what no run asked for: the event of
   an older 3.1, and junk. *)

Junk == {Reply(FdtDown), Odd, Bad}

AllIn(S, k)  == \A i \in 1..Len(pipe) : i >= k => pipe[i] \in S
LastOf(S, k) == \A i \in 1..Len(pipe) : i >= k /\ pipe[i] \in S =>
                  \A j \in 1..Len(pipe) : j > i => pipe[j] \in Junk

\* The frame of this phase is on the wire.
Out == step \notin {"begin", "arm", "gate", "write"}

\* The last frame of a phase's answer.
FinalOf(p) == CASE p = "firmware" -> {Reply("A8")}
                [] p = "pre_state" -> {Reply(StateQuery)}
                [] p = "confirm" -> {Ack("D4")}
                [] p \in {"state", "fdt_state"} -> {Reply(StateQuery), Data}
                [] p = "fdt_manual" -> {Reply(FdtManual)}
                [] OTHER -> {Data}

PlainImage == phase = "image" /\ "touch" \notin args

\* The first frame may be a stale one until A8 is acknowledged; a late ACK of the
\* NOP may be anywhere before that of A8.
Handover ==
  /\ phase \in {"start", "enter", "stale"} \/ (phase = "nop" /\ ~Out) => AllIn(Junk, 2)
  /\ (phase = "nop" /\ Out) \/ (phase = "firmware" /\ ~Out) => AllIn(Junk \cup {Ack("NOP")}, 2)
  /\ phase = "firmware" /\ Out => LastOf(FinalOf(phase), IF step = "ack" THEN 2 ELSE 1)
  /\ (phase = "request_tls" /\ Out) \/ phase = "tls" \/ (phase = "confirm" /\ ~Out)
       => AllIn(Junk \cup {Ack("D0"), Tls}, 1)
  /\ (phase \in {"pre_state", "request_tls", "state", "fdt_manual", "fdt_state"} \/ PlainImage) /\ ~Out
       => AllIn(Junk, 1)
  /\ PlainImage /\ step \in Keeping => AllIn(Junk, 1)
  /\ (phase \in {"pre_state", "confirm", "state", "fdt_manual", "fdt_state"} \/ PlainImage)
       /\ Out /\ step \notin Keeping
       => LastOf(FinalOf(phase), 1)
  /\ phase = "end" => IF "down" \in args THEN sleepAck = "yes" ELSE AllIn(Junk, 1)

LEMMA JunkIs ==
  /\ Odd \in Junk /\ Bad \in Junk /\ Reply(FdtDown) \in Junk
  /\ \A p : FinalOf(p) \cap Junk = {}
<1>1. \A p : FinalOf(p) \subseteq {Reply("A8"), Reply(StateQuery), Ack("D4"), Reply(FdtManual), Data}
  BY DEF FinalOf
<1>2. \A f \in {Reply("A8"), Reply(StateQuery), Ack("D4"), Reply(FdtManual), Data} : f \notin Junk
  BY Frames DEF Junk, StateQuery, FdtManual, FdtDown
<1> QED BY <1>1, <1>2 DEF Junk

\* More of the same, and nothing taken from it.
Drift == Thins \/ pipe' = Append(pipe, Reply(FdtDown))

LEMMA DriftKeeps ==
  ASSUME LinkIs, Drift, NEW k \in {1, 2}
  PROVE  /\ \A S : Junk \subseteq S /\ AllIn(S, k) => AllIn(S, k)'
         /\ \A S : S \cap Junk = {} /\ LastOf(S, k) => LastOf(S, k)'
<1>0. pipe \in Seq(Frame) /\ Len(pipe) \in Nat
  BY DEF LinkIs
<1>1. CASE Thins
  <2>1. PICK cut \in Nat, n \in 0..Len(pipe) : ThinsBy(cut, n)
    BY <1>1 DEF Thins
  <2>2. /\ Len(pipe') = Len(pipe) - n
        /\ \A i \in 1..Len(pipe') : pipe'[i] \in {Odd, Bad} \/ pipe'[i] = pipe[From(i, cut, n)]
    BY <2>1 DEF ThinsBy
  <2>3. \A i \in 1..Len(pipe') : From(i, cut, n) \in 1..Len(pipe) /\ i <= From(i, cut, n)
    BY <1>0, <2>2 DEF From
  <2>4. \A i, j \in 1..Len(pipe') : j > i => From(j, cut, n) > From(i, cut, n)
    BY <1>0, <2>2 DEF From
  <2>5. ASSUME NEW S, Junk \subseteq S, AllIn(S, k) PROVE AllIn(S, k)'
    BY <2>2, <2>3, <2>5, JunkIs DEF AllIn
  <2>6. ASSUME NEW S, S \cap Junk = {}, LastOf(S, k) PROVE LastOf(S, k)'
    <3> SUFFICES ASSUME NEW i \in 1..Len(pipe'), i >= k, pipe'[i] \in S, NEW j \in 1..Len(pipe'), j > i
                 PROVE  pipe'[j] \in Junk
      BY DEF LastOf
    <3>0. pipe'[i] \notin {Odd, Bad}
      BY <2>6, JunkIs
    <3>1. pipe[From(i, cut, n)] \in S /\ From(i, cut, n) >= k
      <4>1. pipe'[i] = pipe[From(i, cut, n)]
        BY <2>2, <3>0
      <4>2. i <= From(i, cut, n) /\ From(i, cut, n) \in 1..Len(pipe)
        BY <2>3
      <4> HIDE DEF From
      <4> QED BY <1>0, <4>1, <4>2
    <3>2. pipe[From(j, cut, n)] \in Junk
      BY <2>3, <2>4, <2>6, <3>1 DEF LastOf
    <3> QED BY <2>2, <3>2, JunkIs
  <2> QED BY <2>5, <2>6
<1>2. CASE pipe' = Append(pipe, Reply(FdtDown))
  <2>1. /\ Len(pipe') = Len(pipe) + 1
        /\ \A i \in 1..Len(pipe') : IF i <= Len(pipe) THEN i \in 1..Len(pipe) /\ pipe'[i] = pipe[i]
                                    ELSE pipe'[i] = Reply(FdtDown)
    BY <1>0, <1>2
  <2>2. ASSUME NEW S, Junk \subseteq S, AllIn(S, k) PROVE AllIn(S, k)'
    BY <2>1, <2>2, JunkIs DEF AllIn
  <2>3. ASSUME NEW S, S \cap Junk = {}, LastOf(S, k) PROVE LastOf(S, k)'
    <3> SUFFICES ASSUME NEW i \in 1..Len(pipe'), i >= k, pipe'[i] \in S, NEW j \in 1..Len(pipe'), j > i
                 PROVE  pipe'[j] \in Junk
      BY DEF LastOf
    <3>1. i <= Len(pipe)
      BY <2>1, <2>3, JunkIs
    <3>2. CASE j <= Len(pipe)
      BY <1>0, <2>1, <2>3, <3>1, <3>2 DEF LastOf
    <3>3. CASE j > Len(pipe)
      BY <1>0, <2>1, <3>3, JunkIs
    <3> QED BY <1>0, <3>2, <3>3
  <2> QED BY <2>2, <2>3
<1> QED BY <1>1, <1>2 DEF Drift

\* An answer behind what was there.
LEMMA AnswerBehind ==
  ASSUME LinkIs, NEW a \in Seq(Frame), pipe' = pipe \o a, NEW k \in {1, 2}, NEW S, AllIn(S, k)
  PROVE  /\ \A T : S \subseteq T /\ (\A j \in 1..Len(a) : a[j] \in T) => AllIn(T, k)'
         /\ \A T : S \cap T = {} /\ (\A j \in 1..Len(a) : a[j] \in T => j = Len(a)) => LastOf(T, k)'
<1>1. /\ Len(pipe') = Len(pipe) + Len(a) /\ Len(pipe) \in Nat /\ Len(a) \in Nat
      /\ \A i \in 1..Len(pipe') : IF i <= Len(pipe) THEN pipe'[i] = pipe[i]
                                  ELSE i - Len(pipe) \in 1..Len(a) /\ pipe'[i] = a[i - Len(pipe)]
  BY Appended DEF LinkIs
<1>2. ASSUME NEW T, S \subseteq T, \A j \in 1..Len(a) : a[j] \in T PROVE AllIn(T, k)'
  BY <1>1, <1>2 DEF AllIn
<1>3. ASSUME NEW T, S \cap T = {}, \A j \in 1..Len(a) : a[j] \in T => j = Len(a) PROVE LastOf(T, k)'
  <2>1. ASSUME NEW i \in 1..Len(pipe'), i >= k, pipe'[i] \in T PROVE i = Len(pipe')
    <3>1. i > Len(pipe)
      BY <1>1, <1>3, <2>1 DEF AllIn
    <3>2. i - Len(pipe) \in 1..Len(a) /\ a[i - Len(pipe)] \in T
      BY <1>1, <2>1, <3>1
    <3>3. i - Len(pipe) = Len(a)
      BY <1>3, <3>2
    <3> QED BY <1>1, <2>1, <3>3
  <2> QED BY <1>1, <2>1 DEF LastOf
<1> QED BY <1>2, <1>3

\* The first frame is taken.
LEMMA HeadTaken ==
  ASSUME LinkIs, pipe # <<>>, pipe' = Tail(pipe)
  PROVE  /\ \A S : AllIn(S, 2) => AllIn(S, 1)'
         /\ \A S : LastOf(S, 2) => LastOf(S, 1)'
         /\ \A S : LastOf(S, 1) /\ Head(pipe) \in S => AllIn(Junk, 1)'
<1>1. /\ pipe \in Seq(Frame) /\ Len(pipe) \in Nat /\ Len(pipe') = Len(pipe) - 1 /\ 1 \in 1..Len(pipe) /\ Head(pipe) = pipe[1]
      /\ \A i \in 1..Len(pipe') : pipe'[i] = pipe[i + 1] /\ i + 1 \in 1..Len(pipe)
  BY DEF LinkIs
<1>2. ASSUME NEW S, AllIn(S, 2) PROVE AllIn(S, 1)'
  BY <1>1, <1>2 DEF AllIn
<1>3. ASSUME NEW S, LastOf(S, 2) PROVE LastOf(S, 1)'
  BY <1>1, <1>3 DEF LastOf
<1>4. ASSUME NEW S, LastOf(S, 1), Head(pipe) \in S PROVE AllIn(Junk, 1)'
  BY <1>1, <1>4 DEF LastOf, AllIn
<1> QED BY <1>2, <1>3, <1>4

\* The program has not moved on, but the pipe may have drifted.
Still == /\ UNCHANGED <<phase, args>>
         /\ Out' <=> Out
         /\ step' \in Keeping <=> step \in Keeping
         /\ phase = "firmware" /\ Out => step' = step
         /\ phase = "end" => sleepAck' = sleepAck

LEMMA HandoverStill ==
  ASSUME LinkIs, Handover, Drift, Still PROVE Handover'
<1>1. /\ \A S : Junk \subseteq S /\ AllIn(S, 1) => AllIn(S, 1)'
      /\ \A S : Junk \subseteq S /\ AllIn(S, 2) => AllIn(S, 2)'
      /\ \A S : S \cap Junk = {} /\ LastOf(S, 1) => LastOf(S, 1)'
      /\ \A S : S \cap Junk = {} /\ LastOf(S, 2) => LastOf(S, 2)'
  BY DriftKeeps
<1>2. /\ AllIn(Junk, 1) => AllIn(Junk, 1)'
      /\ AllIn(Junk, 2) => AllIn(Junk, 2)'
      /\ AllIn(Junk \cup {Ack("NOP")}, 2) => AllIn(Junk \cup {Ack("NOP")}, 2)'
      /\ AllIn(Junk \cup {Ack("D0"), Tls}, 1) => AllIn(Junk \cup {Ack("D0"), Tls}, 1)'
  BY <1>1
<1>3. /\ LastOf(FinalOf(phase), 1) => LastOf(FinalOf(phase), 1)'
      /\ LastOf(FinalOf(phase), 2) => LastOf(FinalOf(phase), 2)'
  <2>1. PICK F : F = FinalOf(phase)
    OBVIOUS
  <2>2. F \cap Junk = {} /\ FinalOf(phase') = F
    BY <2>1, JunkIs DEF Still
  <2>3. (LastOf(F, 1) => LastOf(F, 1)') /\ (LastOf(F, 2) => LastOf(F, 2)')
    BY <1>1, <2>2
  <2> QED BY <2>1, <2>2, <2>3 DEF LastOf
<1>4. UNCHANGED <<phase, args>> /\ (Out' <=> Out) /\ (PlainImage' <=> PlainImage)
  BY DEF Still, PlainImage
<1>5. phase = "firmware" /\ Out => LastOf(FinalOf(phase), IF step = "ack" THEN 2 ELSE 1)'
  <2>1. phase = "firmware" /\ Out => LastOf(FinalOf(phase), IF step = "ack" THEN 2 ELSE 1) /\ step' = step
    BY DEF Handover, Still
  <2>2. CASE step = "ack"
    BY <1>3, <2>1, <2>2
  <2>3. CASE step # "ack"
    BY <1>3, <2>1, <2>3
  <2> QED BY <2>2, <2>3
<1> QED BY <1>2, <1>3, <1>4, <1>5 DEF Handover, Still

\* What a phase leaves to the next one.
Left ==
  /\ phase = "stale" => AllIn(Junk, 2)'
  /\ phase = "nop" => AllIn(Junk \cup {Ack("NOP")}, 2)'
  /\ phase \in {"request_tls", "tls"} => AllIn(Junk \cup {Ack("D0"), Tls}, 1)'
  /\ phase \in {"firmware", "pre_state", "confirm", "state", "fdt_manual", "fdt_state"} \/ PlainImage
       => AllIn(Junk, 1)'

LEMMA HandoverProceeds ==
  ASSUME OnScript, NEW e, Proceed(e), phase \in Phases \ {"start", "enter", "disarm", "end"},
         Left, args' = args, exc = None
  PROVE  Handover'
<1>1. Edge(e) /\ step' = Entry(phase')
  BY Edges, ProceedIs
<1>2. Asked
  BY DEF OnScript
<1>3. phase' \notin Windows \cup {"tls", "end"} => step' = "begin"
  BY <1>1 DEF Entry
<1>4. phase' = "nop" /\ ~Out' => AllIn(Junk, 2)'
  BY <1>1 DEF Edge, Left
<1>5. ~(phase' \in {"start", "enter", "stale"})
  BY <1>1 DEF Edge
<1>6. /\ phase' \notin Windows \cup {"tls", "end"} => ~Out' /\ step' \notin Keeping
      /\ phase' = "end" => step' = "exit"
  BY <1>1, <1>3 DEF Out, Entry, Windows
<1>7. phase' = "firmware" => AllIn(Junk \cup {Ack("NOP")}, 2)'
  BY <1>1 DEF Edge, Left
<1>8. phase' \in {"tls", "confirm"} => AllIn(Junk \cup {Ack("D0"), Tls}, 1)'
  BY <1>1 DEF Edge, Left
<1>9. phase' \in {"pre_state", "request_tls", "state", "fdt_manual", "fdt_state"} => AllIn(Junk, 1)'
  BY <1>1 DEF Edge, Left
<1>10. PlainImage' => AllIn(Junk, 1)'
  BY <1>1 DEF Edge, Left, PlainImage
<1>11. phase' = "end" => "down" \notin args' /\ AllIn(Junk, 1)'
  BY <1>1, <1>2, Flagged DEF Edge, Left, PlainImage, Asked, Manual, Touching
<1>12. \A p \in {"nop", "firmware", "request_tls", "confirm", "pre_state", "state", "fdt_manual", "fdt_state", "image"} :
         p \notin Windows \cup {"tls", "end"}
  BY DEF Windows
<1>13. PlainImage' => phase' = "image"
  BY DEF PlainImage
<1> QED BY <1>4, <1>5, <1>6, <1>7, <1>8, <1>9, <1>10, <1>11, <1>12, <1>13 DEF Handover

\* The last frame of an answer is its last one.
LEMMA AnswerLast ==
  ASSUME NEW c \in Command, NEW a \in Answers(c)
  PROVE  /\ \A j \in 1..Len(a) : a[j] \in {Reply(c), Data} => j = Len(a)
         /\ c = "D4" => \A j \in 1..Len(a) : a[j] = Ack(c) => j = Len(a)
<1>1. CASE a = <<>>
  BY <1>1
<1>2. CASE a \in {<<Ack(c)>>, <<Tls>>}
  <2>1. Len(a) = 1
    BY <1>2
  <2> QED BY <2>1
<1>3. CASE a \in {<<Ack(c), Reply(c)>>, <<Ack(c), Data>>, <<Ack(c), Tls>>}
  <2>1. Len(a) = 2 /\ a[1] = Ack(c)
    BY <1>3
  <2>2. c # "D4"
    BY <1>3, AnswersAre DEF StateQuery, FdtManual, GetImage
  <2> QED BY <2>1, <2>2, Frames
<1> QED BY <1>1, <1>2, <1>3, AnswersAre

LEMMA HandoverWrites ==
  ASSUME Shape, LinkIs, OnScript, Handover, exc = None, Write PROVE Handover'
<1>1. step = "write" /\ phase \in Sending /\ ~Out /\ step \notin Keeping /\ args' = args
  BY DEF Write, Shape, Out
<1>2. cmd \in Command
  BY <1>1, CmdIsCommand
<1>3. PICK a \in Answers(cmd) : pipe' = pipe \o a
  BY DEF Write, Take
<1>4. a \in Seq(Frame)
  BY <1>2, <1>3, AnswersInSeq
<1>5. \A S, T : /\ S \subseteq T /\ (\A j \in 1..Len(a) : a[j] \in T) =>
                     (AllIn(S, 1) => AllIn(T, 1)') /\ (AllIn(S, 2) => AllIn(T, 2)')
                /\ S \cap T = {} /\ (\A j \in 1..Len(a) : a[j] \in T => j = Len(a)) =>
                     (AllIn(S, 1) => LastOf(T, 1)') /\ (AllIn(S, 2) => LastOf(T, 2)')
  BY <1>3, <1>4, AnswerBehind
<1>6. \A j \in 1..Len(a) : a[j] \in {Ack(cmd), Reply(cmd), Tls, Data}
  BY <1>2, <1>3, AnswerFrames
<1>7. CASE phase = "tls"
  <2>1. AllIn(Junk \cup {Ack("D0"), Tls}, 1)
    BY <1>7 DEF Handover
  <2>2. \A j \in 1..Len(a) : a[j] \in Junk \cup {Ack("D0"), Tls}
    <3>1. cmd = "TLS"
      BY <1>7 DEF cmd, CommandOf
    <3>2. a = <<>> \/ a = <<Tls>>
      BY <1>2, <1>3, <3>1, AnswersAre DEF StateQuery, FdtManual, GetImage
    <3>3. CASE a = <<>>
      BY <3>3
    <3>4. CASE a = <<Tls>>
      <4>1. Len(a) = 1 /\ a[1] = Tls
        BY <3>4
      <4> QED BY <4>1
    <3> QED BY <3>2, <3>3, <3>4
  <2>3. AllIn(Junk \cup {Ack("D0"), Tls}, 1)'
    BY <1>5, <2>1, <2>2
  <2>4. CASE secure
    <3>1. Proceed(downEvent) /\ Left
      BY <1>7, <2>3, <2>4 DEF Write, Left, PlainImage
    <3> QED BY <1>1, <1>7, <3>1, HandoverProceeds DEF Phases
  <2>5. CASE ~secure
    <3>1. phase' = "tls"
      BY <1>7, <2>5 DEF Write, Stay
    <3> QED BY <2>3, <3>1 DEF Handover, PlainImage
  <2> QED BY <2>4, <2>5
<1>8. ASSUME phase # "tls" PROVE phase' = phase /\ step' \in {"try", "ack"} /\ Out' /\ step' \notin Keeping
  <2>1. phase' = phase /\ step' \in {"try", "ack"}
    BY <1>8 DEF Write, Written, Stay
  <2> QED BY <2>1 DEF Out
<1>9. CASE phase = "nop"
  <2>1. cmd = "NOP"
    BY <1>9 DEF cmd, CommandOf
  <2>2. \A j \in 1..Len(a) : a[j] \in Junk \cup {Ack("NOP")}
    <3>1. a = <<>> \/ a = <<Ack("NOP")>>
      BY <1>2, <1>3, <2>1, AnswersAre DEF StateQuery, FdtManual, GetImage
    <3>2. CASE a = <<>>
      BY <3>2
    <3>3. CASE a = <<Ack("NOP")>>
      <4>1. Len(a) = 1 /\ a[1] = Ack("NOP")
        BY <3>3
      <4> QED BY <4>1
    <3> QED BY <3>1, <3>2, <3>3
  <2>3. AllIn(Junk, 2)
    BY <1>1, <1>9 DEF Handover
  <2>4. AllIn(Junk \cup {Ack("NOP")}, 2)'
    BY <1>5, <2>2, <2>3
  <2> QED BY <1>8, <1>9, <2>4 DEF Handover, PlainImage
<1>10. CASE phase = "request_tls"
  <2>1. cmd = "D0"
    BY <1>10 DEF cmd, CommandOf
  <2>2. \A j \in 1..Len(a) : a[j] \in Junk \cup {Ack("D0"), Tls}
    <3>1. a = <<Ack("D0"), Tls>> \/ a = <<Ack("D0")>>
      BY <1>2, <1>3, <2>1, AnswersAre DEF StateQuery, FdtManual, GetImage
    <3>2. \A j \in 1..Len(a) : a[j] \in {Ack("D0"), Tls}
      <4>1. CASE a = <<Ack("D0")>>
        <5>1. Len(a) = 1 /\ a[1] = Ack("D0")
          BY <4>1
        <5> QED BY <5>1
      <4>2. CASE a = <<Ack("D0"), Tls>>
        <5>1. Len(a) = 2 /\ a[1] = Ack("D0") /\ a[2] = Tls
          BY <4>2
        <5> QED BY <5>1
      <4> QED BY <3>1, <4>1, <4>2
    <3> QED BY <3>2
  <2>3. AllIn(Junk, 1)
    BY <1>1, <1>10 DEF Handover
  <2>4. AllIn(Junk \cup {Ack("D0"), Tls}, 1)'
    BY <1>5, <2>2, <2>3
  <2> QED BY <1>8, <1>10, <2>4 DEF Handover, PlainImage
<1>11. CASE phase = "confirm"
  <2>1. cmd = "D4"
    BY <1>11 DEF cmd, CommandOf
  <2>2. \A j \in 1..Len(a) : a[j] \in {Ack("D4")} => j = Len(a)
    BY <1>2, <1>3, <2>1, AnswerLast
  <2>3. AllIn(Junk \cup {Ack("D0"), Tls}, 1)
    BY <1>1, <1>11 DEF Handover
  <2>4. (Junk \cup {Ack("D0"), Tls}) \cap {Ack("D4")} = {}
    BY Frames DEF Junk
  <2>5. LastOf({Ack("D4")}, 1)'
    BY <1>5, <2>2, <2>3, <2>4
  <2>6. FinalOf("confirm") = {Ack("D4")}
    BY DEF FinalOf
  <2> QED BY <1>8, <1>11, <2>5, <2>6 DEF Handover, PlainImage
<1>12. ASSUME phase \in {"firmware", "pre_state", "state", "fdt_manual", "fdt_state"} \/ PlainImage
       PROVE  FinalOf(phase) \subseteq {Reply(cmd), Data} /\ FinalOf(phase) \cap Junk = {}
  BY <1>12, JunkIs DEF PlainImage, FinalOf, cmd, CommandOf
<1>13. CASE phase = "firmware"
  <2>1. \A j \in 1..Len(a) : a[j] \in {Reply("A8")} => j = Len(a)
    <3>1. cmd = "A8"
      BY <1>13 DEF cmd, CommandOf
    <3> QED BY <1>2, <1>3, <3>1, AnswerLast
  <2>2. (Junk \cup {Ack("NOP")}) \cap {Reply("A8")} = {}
    BY Frames DEF Junk, FdtDown
  <2>3. AllIn(Junk \cup {Ack("NOP")}, 2)
    BY <1>1, <1>13 DEF Handover
  <2>4. LastOf({Reply("A8")}, 2)'
    BY <1>5, <2>1, <2>2, <2>3
  <2>5. FinalOf("firmware") = {Reply("A8")} /\ step' = "ack" /\ phase' = "firmware"
    BY <1>13 DEF FinalOf, Write, Written, Stay
  <2>6. LastOf(FinalOf(phase), IF step = "ack" THEN 2 ELSE 1)'
    BY <2>4, <2>5 DEF LastOf
  <2> QED BY <1>8, <1>13, <2>5, <2>6 DEF Handover, PlainImage
<1>14. CASE phase \in {"pre_state", "state", "fdt_manual", "fdt_state"} \/ PlainImage
  <2>1. PICK F : F = FinalOf(phase)
    OBVIOUS
  <2>2. F \subseteq {Reply(cmd), Data} /\ F \cap Junk = {}
    BY <1>12, <1>14, <2>1
  <2>3. \A j \in 1..Len(a) : a[j] \in F => j = Len(a)
    BY <1>2, <1>3, <2>2, AnswerLast
  <2>4. AllIn(Junk, 1)
    BY <1>1, <1>14 DEF Handover
  <2>5. LastOf(F, 1)'
    BY <1>5, <2>2, <2>3, <2>4
  <2>6. phase # "tls"
    BY <1>14 DEF PlainImage
  <2>7. LastOf(FinalOf(phase), 1)'
    BY <1>8, <2>1, <2>5, <2>6 DEF LastOf
  <2> QED BY <1>1, <1>8, <1>14, <2>6, <2>7 DEF Handover, PlainImage
<1>15. CASE phase \in {"fdt_down", "fdt_up", "disarm"} \/ (phase = "image" /\ "touch" \in args)
  BY <1>1, <1>8, <1>15 DEF Handover, PlainImage
<1> QED BY <1>1, <1>7, <1>9, <1>10, <1>11, <1>13, <1>14, <1>15 DEF Sending, PlainImage

LEMMA NoRaise ==
  ASSUME ErrInv, exc = None, exc' = None
  PROVE  \A l \in {"refused", "budget", "usb", "timeout", "frame", "ack", "reply", "tls"} : ~Raise(l)
BY RaiseIsError DEF None

LEMMA HandoverTakes ==
  ASSUME Shape, LinkIs, OnScript, ErrInv, Handover, exc = None, exc' = None, AckFrame \/ ReplyFrame
  PROVE  Handover'
<1>1. /\ pipe # <<>> /\ pipe' = Tail(pipe) /\ Thins /\ UNCHANGED args
      /\ step \in {"ack", "reply"} /\ Out /\ step \notin Keeping
  <2>1. Ready /\ Consume /\ UNCHANGED args /\ step \in {"ack", "reply"}
    BY DEF AckFrame, ReplyFrame
  <2>2. got \in 0..Len(pipe) /\ pipe \in Seq(Frame)
    BY DEF LinkIs, Buffered
  <2>3. pipe # <<>> /\ pipe' = Tail(pipe)
    BY <2>1, <2>2 DEF Ready, Consume
  <2> QED BY <2>1, <2>2, <2>3, ConsumeThins DEF Out
<1>2. /\ \A S : AllIn(S, 2) => AllIn(S, 1)'
      /\ \A S : LastOf(S, 2) => LastOf(S, 1)'
      /\ \A S : LastOf(S, 1) /\ Head(pipe) \in S => AllIn(Junk, 1)'
  BY <1>1, HeadTaken
<1>3. /\ \A S : Junk \subseteq S /\ AllIn(S, 1) => AllIn(S, 1)'
      /\ \A S : Junk \subseteq S /\ AllIn(S, 2) => AllIn(S, 2)'
  BY <1>1, DriftKeeps DEF Drift
<1>4. ASSUME phase \in {"pre_state", "confirm", "state", "fdt_manual", "fdt_state"} \/ PlainImage
                \/ (phase = "firmware" /\ step = "reply"),
             Head(pipe) \in FinalOf(phase)
      PROVE  AllIn(Junk, 1)'
  <2>1. LastOf(FinalOf(phase), 1)
    BY <1>1, <1>4 DEF Handover
  <2> QED BY <1>2, <1>4, <2>1
<1>5. CASE AckFrame
  <2>1. Head(pipe) = Ack(cmd) /\ step = "ack" /\ phase \in Phases \ {"start", "enter", "disarm", "end"}
    BY <1>5, NoRaise DEF AckFrame, Shape, Phases, Sending
  <2>2. CASE phase = "firmware"
    <3>1. phase' = "firmware" /\ step' = "reply"
      BY <1>5, <2>1, <2>2 DEF AckFrame, Stay
    <3>2. LastOf(FinalOf(phase), 2)
      BY <1>1, <2>1, <2>2 DEF Handover
    <3>3. PICK F : F = FinalOf(phase)
      OBVIOUS
    <3>4. LastOf(F, 1)'
      BY <1>2, <3>2, <3>3
    <3>5. LastOf(FinalOf(phase), IF step = "ack" THEN 2 ELSE 1)'
      BY <2>2, <3>1, <3>3, <3>4 DEF LastOf
    <3> QED BY <3>1, <3>5 DEF Handover, PlainImage, Out
  <2>3. CASE phase \in {"pre_state", "state", "fdt_manual", "fdt_state", "image"}
    <3>1. phase' = phase /\ step' \in {"reply", "window"}
      BY <1>5, <2>1, <2>3 DEF AckFrame, Stay
    <3>2. Still
      BY <1>1, <2>3, <3>1 DEF Still, Out
    <3> QED BY <1>1, <3>2, HandoverStill DEF Drift
  <2>4. CASE phase \notin {"firmware", "pre_state", "state", "fdt_manual", "fdt_state", "image"}
    <3>1. Proceed(downEvent)
      BY <1>5, <2>1, <2>4 DEF AckFrame
    <3>2. phase = "confirm" => AllIn(Junk, 1)'
      BY <1>4, <2>1 DEF FinalOf, cmd, CommandOf
    <3>3. phase = "nop" => AllIn(Junk \cup {Ack("NOP")}, 2)'
      BY <1>1, <1>3 DEF Handover
    <3>4. phase = "request_tls" => AllIn(Junk \cup {Ack("D0"), Tls}, 1)'
      BY <1>1, <1>3 DEF Handover
    <3>5. phase # "tls" /\ phase # "stale"
      BY <1>5, <2>1 DEF Shape, Sending
    <3>6. Left
      BY <2>4, <3>2, <3>3, <3>4, <3>5 DEF Left, PlainImage
    <3> QED BY <1>1, <2>1, <3>1, <3>6, HandoverProceeds
  <2> QED BY <2>2, <2>3, <2>4
<1>6. CASE ReplyFrame
  <2>1. Head(pipe) \in Accepted /\ step = "reply" /\ phase # "tls" /\ phase \in Windows \cup Replying
    BY <1>6, NoRaise DEF ReplyFrame, Shape
  <2>2. phase # "stale" /\ phase \in Phases \ {"start", "enter", "disarm", "end"}
    BY <2>1 DEF Accepted, Windows, Replying, Phases, Sending
  <2>3. phase \in {"firmware", "pre_state", "state", "fdt_manual", "fdt_state"} \/ PlainImage => AllIn(Junk, 1)'
    <3>1. phase \in {"firmware", "pre_state", "state", "fdt_manual", "fdt_state", "image"} => Accepted = FinalOf(phase)
      BY DEF Accepted, FinalOf
    <3> QED BY <1>4, <2>1, <3>1 DEF PlainImage
  <2>4. CASE Proceed(IF phase = "down_event" THEN "yes" ELSE downEvent)
    <3>1. Left
      BY <2>1, <2>2, <2>3 DEF Left, Windows, Replying
    <3> QED BY <1>1, <2>2, <2>4, <3>1, HandoverProceeds
  <2>5. CASE phase = "image" /\ step' = "mkdir" /\ Stay
    BY <1>1, <2>3, <2>5 DEF Handover, PlainImage, Stay, Out
  <2> QED BY <1>6, <2>1, <2>4, <2>5, NoRaise DEF ReplyFrame, WantsImage
<1> QED BY <1>5, <1>6

LEMMA HandoverStep ==
  ASSUME Shape, LinkIs, SleepInv, GateTypeOK, GateOrder, ErrInv, OnScript, Counted, Armed, Handover,
         exc = None, exc' = None, [Next]_vars
  PROVE  Handover'
<1>1. args' = args
  BY ArgsFixed
<1>2. CASE Write
  BY <1>2, HandoverWrites
<1>3. CASE AckFrame \/ ReplyFrame
  BY <1>3, HandoverTakes
<1>4. CASE UNCHANGED <<pipe, phase, step, sleepAck>>
  <2>1. Drift
    BY <1>4, KeepsThin DEF Drift, LinkIs
  <2> QED BY <1>1, <1>4, <2>1, HandoverStill DEF Still, Out
<1>5. CASE Read \/ Tick \/ UNCHANGED vars
  BY <1>4, <1>5 DEF Read, Transfer, Tick, vars, ctlVars, repVars, linkVars, pipeVars
<1>6. CASE ReaderStep
  <2>1. UNCHANGED <<phase, step, sleepAck>>
    BY <1>6 DEF ReaderStep, ctlVars, repVars
  <2>2. CASE Misdeliver
    <3>1. Drift
      BY <2>2, MisdeliverThins DEF Drift, LinkIs, Buffered
    <3> QED BY <1>1, <2>1, <3>1, HandoverStill DEF Still, Out
  <2>3. CASE Finger /\ fdt # "up"
    <3>1. Drift
      BY <2>3 DEF Finger, Drift, Armed
    <3> QED BY <1>1, <2>1, <3>1, HandoverStill DEF Still, Out
  <2>4. CASE fdt = "up"
    <3>1. FdtUp \in Gated \ {StateQuery}
      BY DEF Gated, FdtUp, StateQuery
    <3>2. WasSent(FdtUp)
      BY <2>4, <3>1, UnsentUnseen DEF Armed
    <3>3. phase \in {"fdt_up", "up_event", "disarm", "end"}
      BY <3>2 DEF OnScript, Passes
    <3>4. phase # "end"
      BY <1>6 DEF ReaderStep, Shape
    <3> QED BY <1>1, <2>1, <3>3, <3>4 DEF Handover, PlainImage
  <2> QED BY <1>6, <2>2, <2>3, <2>4 DEF ReaderStep, Reader
<1>7. CASE Load \/ Enter
  <2>1. UNCHANGED pipe /\ phase' \in {"start", "enter", "stale"} /\ phase \in {"start", "enter", "stale"}
    BY <1>7 DEF Load, Enter, linkVars, pipeVars, Shape
  <2>2. AllIn(Junk, 2)'
    BY <2>1 DEF Handover, AllIn
  <2> QED BY <2>1, <2>2 DEF Handover, PlainImage
<1>8. CASE Leave \/ Report
  <2>1. UNCHANGED <<pipe, phase, sleepAck>> /\ step \in Leaving /\ step' \in Leaving
    BY <1>8 DEF Leave, Report, Finally, linkVars, pipeVars, repVars
  <2>2. Drift
    BY <2>1, KeepsThin DEF Drift, LinkIs
  <2>3. phase = "end"
    BY <2>1 DEF OnScript, Stages
  <2> QED BY <1>1, <2>1, <2>2, <2>3, HandoverStill DEF Still, Out
<1>9. CASE Handle \/ SaveExcept
  BY <1>9 DEF Handle, SaveExcept, ErrInv
<1>10. CASE Begin \/ ArmStep \/ GateStep
  <2>1. /\ UNCHANGED <<pipe, phase>> /\ step \in {"begin", "arm", "gate"}
        /\ step' \in {"begin", "arm", "gate", "write"}
    BY <1>10, NoRaise DEF Begin, ArmStep, GateStep, Stay, linkVars, pipeVars
  <2>2. Drift
    BY <2>1, KeepsThin DEF Drift, LinkIs
  <2>3. phase # "end"
    BY <2>1 DEF Shape
  <2> QED BY <1>1, <2>1, <2>2, <2>3, HandoverStill DEF Still, Out
<1>11. CASE EnterTry
  <2>1. phase' = "fdt_down"
    BY <1>11 DEF EnterTry, Shape
  <2> QED BY <2>1 DEF Handover, PlainImage
<1>12. CASE WriteRefused \/ WriteError \/ ReadRefused \/ ReadError \/ BadFrame \/ TlsLimit
  BY <1>12, NoRaise DEF WriteRefused, WriteError, ReadRefused, ReadError, BadFrame, TlsLimit
<1>13. CASE Timeout
  <2>1. NoReplyIsFine /\ Proceed(IF phase = "down_event" THEN "no" ELSE downEvent) /\ UNCHANGED pipe
        /\ Receiving
    BY <1>13, NoRaise DEF Timeout, linkVars, pipeVars
  <2>2. phase \in {"nop"} \cup Windows /\ step \in {"ack", "reply"}
    BY <2>1 DEF NoReplyIsFine, Windowed, Receiving
  <2>3. phase = "stale" => AllIn(Junk, 2)'
    BY <2>1 DEF Handover, AllIn
  <2>4. phase = "nop" => AllIn(Junk \cup {Ack("NOP")}, 2)'
    BY <2>1, <2>2 DEF Handover, AllIn, Out
  <2>5. Left
    BY <2>2, <2>3, <2>4 DEF Left, PlainImage, Windows
  <2> QED BY <1>1, <2>1, <2>2, <2>5, HandoverProceeds DEF Phases, Windows, Sending
<1>14. CASE OpenWindow
  <2>1. UNCHANGED <<pipe, phase>> /\ step = "window" /\ step' = "reply" /\ phase # "end" /\ phase # "firmware"
    BY <1>14, NoRaise DEF OpenWindow, Stay, linkVars, pipeVars, Shape, Windows
  <2>2. Drift
    BY <2>1, KeepsThin DEF Drift, LinkIs
  <2> QED BY <1>1, <2>1, <2>2, HandoverStill DEF Still, Out
<1>15. CASE SleepFrame
  <2>1. phase = "disarm" /\ "down" \in args
    BY <1>15 DEF SleepFrame, OnScript, Asked, Touching
  <2>2. phase' = "disarm" \/ (phase' = "end" /\ sleepAck' = "yes")
    BY <1>15, <2>1, RaiseIs DEF SleepFrame, Disarmed, ctlVars
  <2> QED BY <1>1, <2>1, <2>2 DEF Handover, PlainImage
<1>16. CASE TlsFrame
  <2>1. phase = "tls" /\ phase' = "tls" /\ Ready /\ Consume
    BY <1>16, NoRaise DEF TlsFrame, Stay
  <2>2. Drift
    BY <2>1, ConsumeThins DEF Drift, LinkIs, Buffered
  <2>3. AllIn(Junk \cup {Ack("D0"), Tls}, 1)'
    BY <2>1, <2>2, DriftKeeps DEF Handover
  <2> QED BY <2>1, <2>3 DEF Handover, PlainImage
<1>17. CASE ServerStep
  <2>1. phase = "tls" /\ UNCHANGED pipe
    BY <1>17 DEF ServerStep, Shape, linkVars, pipeVars
  <2>2. AllIn(Junk \cup {Ack("D0"), Tls}, 1)'
    BY <2>1 DEF Handover, AllIn, Junk
  <2>3. CASE Proceed(downEvent)
    <3>1. Left
      BY <2>1, <2>2 DEF Left, PlainImage
    <3> QED BY <1>1, <2>1, <2>3, <3>1, HandoverProceeds DEF Phases, Sending
  <2>4. CASE Stay
    BY <2>1, <2>2, <2>4 DEF Stay, Handover, PlainImage
  <2> QED BY <1>17, <2>3, <2>4, NoRaise DEF ServerStep
<1>18. CASE SaveTry
  <2>1. /\ UNCHANGED <<pipe, phase>> /\ phase = "image" /\ step \in Keeping /\ step' \in Keeping
    BY <1>18 DEF SaveTry, SaveGoes, SaveFails, Create, Note, Fill, Stay, Shape, linkVars, pipeVars
  <2>2. Drift
    BY <2>1, KeepsThin DEF Drift, LinkIs
  <2> QED BY <1>1, <2>1, <2>2, HandoverStill DEF Still, Out
<1>19. CASE SaveStats
  <2>1. phase = "image" /\ step \in Keeping /\ UNCHANGED pipe /\ Proceed(downEvent)
    BY <1>19 DEF SaveStats, Shape, linkVars, pipeVars
  <2>2. PlainImage => AllIn(Junk, 1)'
    BY <2>1 DEF Handover, AllIn, Junk
  <2>3. Left
    BY <2>1, <2>2 DEF Left
  <2> QED BY <1>1, <2>1, <2>3, HandoverProceeds DEF Phases, Sending
<1>20. ~Interrupt
  BY DEF Interrupt, None
<1> QED BY <1>2, <1>3, <1>5, <1>6, <1>7, <1>8, <1>9, <1>10, <1>11, <1>12, <1>13, <1>14, <1>15, <1>16, <1>17,
           <1>18, <1>19, <1>20 DEF Next, Program

LEMMA AlwaysHandover == Spec => [](exc = None => Handover)
<1>1. Init => Handover
  <2> SUFFICES ASSUME Init PROVE Handover
    OBVIOUS
  <2>1. phase = "start" /\ pipe \in {<<>>} \cup {<<f>> : f \in Leftovers}
    BY DEF Init, LinkInit
  <2>2. AllIn(Junk, 2)
    <3>1. CASE pipe = <<>>
      BY <3>1 DEF AllIn
    <3>2. ASSUME NEW f, pipe = <<f>> PROVE AllIn(Junk, 2)
      <4>1. Len(pipe) = 1
        BY <3>2
      <4> QED BY <4>1 DEF AllIn
    <3> QED BY <2>1, <3>1, <3>2
  <2> QED BY <2>1, <2>2 DEF Handover, PlainImage
<1>2. /\ Shape /\ LinkIs /\ SleepInv /\ GateTypeOK /\ GateOrder /\ ErrInv /\ OnScript /\ Counted /\ Armed
      /\ (exc = None => Handover) /\ [Next]_vars
      => (exc = None => Handover)'
  BY HandoverStep, ErrorStays
<1> QED BY <1>1, <1>2, AlwaysShape, AlwaysLink, AlwaysSleep, AlwaysErr, AlwaysOnScript, AlwaysAsleep,
           RunKeepsGate, PTL DEF Spec

\* A run that exits 0 leaves the next one nothing to find but an older event.
THEOREM NextRunStartsClean == Spec => []CleanHandover
<1>1. Shape /\ LinkIs /\ Verdict /\ OnScript /\ Asleep /\ (exc = None => Handover) => CleanHandover
  <2> SUFFICES ASSUME Shape, LinkIs, Verdict, OnScript, Asleep, exc = None => Handover, code = "0"
               PROVE  CleanHandover
    BY DEF CleanHandover
  <2>1. exc = None /\ step = "done"
    BY DEF Verdict, Shape
  <2>2. phase = "end" /\ Handover
    BY <2>1 DEF OnScript, Stages
  <2>3. CASE "down" \in args
    <3>1. pipe = <<>>
      BY <2>2, <2>3 DEF Handover, Asleep
    <3> QED BY <3>1 DEF CleanHandover
  <2>4. CASE "down" \notin args
    <3>1. AllIn(Junk, 1)
      BY <2>2, <2>4 DEF Handover
    <3>2. DOMAIN pipe = 1..Len(pipe)
      BY DEF LinkIs
    <3> QED BY <2>4, <3>1, <3>2 DEF CleanHandover, AllIn, Junk
  <2> QED BY <2>3, <2>4
<1> QED BY <1>1, AlwaysShape, AlwaysLink, AlwaysErr, AlwaysOnScript, AlwaysAsleep, AlwaysHandover, PTL

-----------------------------------------------------------------------------
(* Types. *)

\* The report and the handler's notes.
ReportTypes ==
  /\ acked \subseteq Sending
  /\ {stage, saved} \subseteq Phases \cup {"complete"}
  /\ downEvent \in {"absent", "yes", "no"} /\ sleepAck \in {"absent", "yes", "no"}
  /\ handling \in BOOLEAN

LEMMA RaiseTypes ==
  ASSUME ReportTypes, acked' \subseteq Sending, NEW label, Raise(label) PROVE ReportTypes'
BY DEF ReportTypes, Raise, Swallows, StageBack

LEMMA ProceedTypes ==
  ASSUME Shape, Shape', ReportTypes, acked' \subseteq Sending, NEW e \in {"absent", "yes", "no"}, Proceed(e)
  PROVE  ReportTypes'
BY DEF ReportTypes, Proceed, Shape, Completes

LEMMA ReportTypesStep ==
  ASSUME Shape, Shape', ReportTypes, [Next]_vars PROVE ReportTypes'
<1>1. CASE Load \/ Enter \/ Leave \/ Report
  BY <1>1 DEF Load, Enter, Leave, Report, repVars, ReportTypes, Phases, Windows
<1>2. CASE Interrupt \/ Handle \/ EnterTry
  BY <1>2 DEF Interrupt, Handle, EnterTry, repVars, ReportTypes
<1>3. CASE Begin \/ ArmStep \/ GateStep \/ WriteRefused \/ WriteError \/ ReadRefused \/ ReadError \/ BadFrame
           \/ TlsLimit \/ OpenWindow
  <2>1. UNCHANGED acked
    BY <1>3 DEF Begin, ArmStep, GateStep, WriteRefused, WriteError, ReadRefused, ReadError, BadFrame,
       TlsLimit, OpenWindow
  <2>2. CASE \E label : Raise(label)
    BY <2>1, <2>2, RaiseTypes DEF ReportTypes
  <2>3. CASE Stay
    BY <2>1, <2>3 DEF Stay, ReportTypes
  <2>4. CASE Begin /\ ~\E label : Raise(label)
    BY <2>4 DEF Begin, ReportTypes, Shape
  <2> QED BY <1>3, <2>2, <2>3, <2>4 DEF Begin, ArmStep, GateStep, WriteRefused, WriteError, ReadRefused,
             ReadError, BadFrame, TlsLimit, OpenWindow
<1>4. CASE Write \/ Timeout \/ AckFrame \/ ReplyFrame \/ ServerStep \/ SaveStats \/ TlsFrame
  <2>1. acked' \subseteq Sending
    <3>1. CASE AckFrame
      <4>1. phase \in Sending /\ (acked' = acked \/ acked' = acked \cup {phase})
        BY <3>1 DEF AckFrame, Shape
      <4> QED BY <4>1 DEF ReportTypes
    <3>2. CASE Write \/ Timeout \/ ReplyFrame \/ ServerStep \/ SaveStats \/ TlsFrame
      BY <3>2 DEF Write, Timeout, ReplyFrame, ServerStep, SaveStats, TlsFrame, ReportTypes
    <3> QED BY <1>4, <3>1, <3>2
  <2>2. CASE \E label : Raise(label)
    BY <2>1, <2>2, RaiseTypes
  <2>3. CASE Stay
    BY <2>1, <2>3 DEF Stay, ReportTypes
  <2>4. CASE \E e \in {downEvent, "yes", "no"} : Proceed(e)
    BY <2>1, <2>4, ProceedTypes DEF ReportTypes
  <2> QED BY <1>4, <2>2, <2>3, <2>4 DEF Write, Timeout, AckFrame, ReplyFrame, ServerStep, SaveStats, TlsFrame
<1>5. CASE SleepFrame
  <2>1. acked' \subseteq Sending
    BY <1>5 DEF SleepFrame, ReportTypes, Sending
  <2>2. CASE \E label : Raise(label)
    BY <2>1, <2>2, RaiseTypes
  <2>3. CASE ~\E label : Raise(label)
    BY <1>5, <2>1, <2>3 DEF SleepFrame, Disarmed, ctlVars, ReportTypes
  <2> QED BY <2>2, <2>3
<1>6. CASE SaveTry \/ SaveExcept
  BY <1>6 DEF SaveTry, SaveExcept, SaveGoes, SaveFails, Create, Note, Fill, Stay, repVars, ReportTypes
<1>7. CASE Read \/ Tick \/ ReaderStep \/ UNCHANGED vars
  BY <1>7 DEF Read, Tick, ReaderStep, vars, repVars, ctlVars, ReportTypes
<1> QED BY <1>1, <1>2, <1>3, <1>4, <1>5, <1>6, <1>7 DEF Next, Program

\* The interface, the exit code, the bounds and the handshake.
UseTypes ==
  /\ exposed \in BOOLEAN /\ secure \in BOOLEAN
  /\ held \in BOOLEAN /\ claimed \in BOOLEAN /\ cleaned \in BOOLEAN
  /\ code \in {"-", "0", "1", "2"}
  /\ clock \in {"ample", "short", "expired"} /\ interrupts \in 0..MaxInterrupts
  /\ faults \in 0..MaxFaults
  /\ flights \in 0..MaxTls

LEMMA UseTypesStep ==
  ASSUME Shape, UseTypes, [Next]_vars PROVE UseTypes'
<1> USE MaxTlsAssumption, MaxFaultsAssumption, MaxInterruptsAssumption
<1>1. CASE Load \/ Enter \/ Report \/ Handle \/ EnterTry
  BY <1>1 DEF Load, Enter, Report, Handle, EnterTry, UseTypes, useVars, envVars, tlsVars, histVars
<1>2. CASE Leave
  <2>1. UNCHANGED <<tlsVars, code, exposed, clock, interrupts>>
    BY <1>2 DEF Leave
  <2>3. held' \in BOOLEAN /\ claimed' \in BOOLEAN /\ cleaned' \in BOOLEAN
    BY <1>2 DEF Leave, UseTypes
  <2>2. faults' = faults \/ (faults < MaxFaults /\ faults' = faults + 1)
    BY <1>2 DEF Leave
  <2> QED BY <2>1, <2>2, <2>3 DEF UseTypes, tlsVars
<1>3. CASE Interrupt
  BY <1>3 DEF Interrupt, UseTypes, tlsVars
<1>4. CASE Begin \/ ArmStep \/ GateStep \/ WriteRefused \/ ReadRefused \/ BadFrame \/ TlsLimit \/ OpenWindow
           \/ Write \/ Timeout \/ AckFrame \/ ReplyFrame \/ SaveStats \/ SleepFrame
  BY <1>4 DEF Begin, ArmStep, GateStep, WriteRefused, ReadRefused, BadFrame, TlsLimit, OpenWindow,
     Write, Timeout, AckFrame, ReplyFrame, SaveStats, SleepFrame, UseTypes, useVars, envVars, tlsVars
<1>5. CASE WriteError \/ ReadError
  <2>1. UNCHANGED <<tlsVars, useVars, clock, interrupts>> /\ faults < MaxFaults /\ faults' = faults + 1
    BY <1>5 DEF WriteError, ReadError
  <2>2. exposed' \in BOOLEAN
    BY <1>5 DEF WriteError, ReadError, UseTypes
  <2> QED BY <2>1, <2>2 DEF UseTypes, tlsVars, useVars
<1>6. CASE TlsFrame \/ ServerStep
  BY <1>6 DEF TlsFrame, FlightsLeft, ServerStep, UseTypes, useVars, envVars
<1>7. CASE SaveTry
  BY <1>7 DEF SaveTry, SaveGoes, SaveFails, Create, Note, Fill, UseTypes, useVars, tlsVars
<1>8. CASE SaveExcept
  BY <1>8 DEF SaveExcept, UseTypes, useVars, tlsVars, histVars
<1>9. CASE Read \/ UNCHANGED vars
  BY <1>9 DEF Read, vars, UseTypes, useVars, tlsVars, histVars, envVars
<1>10. CASE Tick
  BY <1>10 DEF Tick, UseTypes, useVars, tlsVars, histVars
<1>11. CASE ReaderStep
  BY <1>11 DEF ReaderStep, Reader, Finger, Misdeliver, UseTypes, useVars, tlsVars, histVars
<1> QED BY <1>1, <1>2, <1>3, <1>4, <1>5, <1>6, <1>7, <1>8, <1>9, <1>10, <1>11 DEF Next, Program

\* save_image()'s files.
LEMMA ImageTypesStep ==
  ASSUME ImageTypeOK, [Next]_vars PROVE ImageTypeOK'
<1> USE DEF ImageTypeOK, imageVars
<1>1. CASE UNCHANGED imageVars
  BY <1>1
<1>2. CASE Interrupt
  BY <1>2 DEF Interrupt
<1>3. CASE ReplyFrame \/ SaveStats
  BY <1>3 DEF ReplyFrame, SaveStats
<1>4. CASE SaveTry
  BY <1>4 DEF SaveTry, Create, Note, Fill, ToOpen, ToFill, Images
<1>5. CASE SaveExcept
  BY <1>5 DEF SaveExcept, CleanUp, Removed
<1>6. CASE ~(Interrupt \/ ReplyFrame \/ SaveStats \/ SaveTry \/ SaveExcept)
  BY <1>1, <1>6 DEF Next, Program, Load, Enter, Leave, Report, Handle, Begin, ArmStep, GateStep, Write, EnterTry,
     WriteRefused, WriteError, Read, ReadRefused, ReadError, Timeout, OpenWindow, BadFrame, AckFrame,
     SleepFrame, TlsFrame, TlsLimit, ServerStep, Tick, ReaderStep, vars
<1> QED BY <1>2, <1>3, <1>4, <1>5, <1>6

\* The except block leads on to disarm() or out.
LEMMA HandlerLeads ==
  ASSUME step = "handler", [Next]_vars PROVE step' \in {"handler", "exit", "begin"}
<1>1. CASE Handle \/ Interrupt
  BY <1>1 DEF Handle, Interrupt, Cleaned
<1>2. CASE Read \/ Tick \/ ReaderStep \/ UNCHANGED vars
  BY <1>2 DEF Read, Tick, ReaderStep, vars, ctlVars
<1>3. ~(Load \/ Enter \/ Leave \/ Report \/ Begin \/ ArmStep \/ GateStep \/ Write \/ EnterTry \/ WriteRefused
        \/ WriteError \/ ReadRefused \/ ReadError \/ Timeout \/ OpenWindow \/ BadFrame)
  BY DEF Load, Enter, Leave, Report, Begin, ArmStep, GateStep, Write, EnterTry, WriteRefused, WriteError,
     ReadRefused, ReadError, Timeout, OpenWindow, BadFrame, Receiving
<1>4. ~(AckFrame \/ ReplyFrame \/ SleepFrame \/ TlsFrame \/ TlsLimit \/ ServerStep \/ SaveTry \/ SaveExcept
        \/ SaveStats)
  BY DEF AckFrame, ReplyFrame, SleepFrame, TlsFrame, TlsLimit, ServerStep, SaveTry, SaveExcept, SaveStats
<1> QED BY <1>1, <1>2, <1>3, <1>4 DEF Next, Program

\* disarm() gives up at its third late event, and has its ACK outstanding until then.
LateTries == /\ lates \in 0..3
             /\ lates > 0 => Afterwards
             /\ lates = 3 => step # "ack"

LEMMA LateTriesStep ==
  ASSUME Shape, Asleep, LateTries, [Next]_vars PROVE LateTries'
<1>1. CASE SleepFrame
  <2>1. Afterwards
    BY <1>1 DEF SleepFrame, Asleep, Disarming, Afterwards
  <2>2. Afterwards'
    BY <2>1, AfterwardsStays
  <2>3. CASE lates' = lates + 1 /\ lates = 2
    BY <1>1, <2>2, <2>3, RaiseIs DEF SleepFrame, LateTries
  <2>4. CASE ~(lates' = lates + 1 /\ lates = 2)
    BY <1>1, <2>2, <2>4 DEF SleepFrame, LateTries
  <2> QED BY <2>3, <2>4
<1>2. CASE ~SleepFrame
  <2>1. lates' = lates
    BY <1>2 DEF Next, Program, Load, Enter, Leave, Report, Handle, Begin, ArmStep, GateStep, Write, EnterTry,
       WriteRefused, WriteError, Read, ReadRefused, ReadError, Timeout, OpenWindow, BadFrame, AckFrame,
       ReplyFrame, TlsFrame, TlsLimit, ServerStep, SaveTry, SaveExcept, SaveStats, Interrupt, Tick,
       ReaderStep, vars
  <2>2. lates = 3 => step' # "ack"
    <3> SUFFICES ASSUME lates = 3 PROVE step' # "ack"
      OBVIOUS
    <3>1. Afterwards /\ step \in {"handler"} \cup Leaving
      BY DEF LateTries, Afterwards
    <3>2. CASE step \in Leaving
      BY <3>2, LeavingStays
    <3>3. CASE step = "handler"
      BY <3>1, <3>3, HandlerLeads DEF Afterwards
    <3> QED BY <3>1, <3>2, <3>3
  <2> QED BY <2>1, <2>2, AfterwardsStays DEF LateTries
<1> QED BY <1>1, <1>2

\* Types.
THEOREM RunTypes == Spec => []TypeOK
<1> DEFINE Ranges == ReportTypes /\ UseTypes /\ ImageTypeOK /\ LateTries
<1>1. Init => Ranges
  <2>1. Init => ReportTypes
    BY DEF Init, ReportTypes, Phases
  <2>2. Init => LateTries
    BY DEF Init, LateTries
  <2>3. Init => /\ exposed = FALSE /\ secure = FALSE /\ held = FALSE /\ claimed = FALSE /\ cleaned = FALSE
                /\ code = "-" /\ clock = "ample" /\ interrupts = 0 /\ faults = 0 /\ flights = 0
    BY DEF Init, LinkInit
  <2>4. Init => interrupts \in 0..MaxInterrupts /\ faults \in 0..MaxFaults /\ flights \in 0..MaxTls
    BY <2>3, MaxTlsAssumption, MaxFaultsAssumption, MaxInterruptsAssumption
  <2>5. Init => UseTypes
    BY <2>3, <2>4 DEF UseTypes
  <2>6. Init => ImageTypeOK
    BY DEF Init, ImageInit, ImageTypeOK
  <2> QED BY <2>1, <2>2, <2>5, <2>6
<1>2. Shape /\ Shape' /\ Asleep /\ Ranges /\ [Next]_vars => Ranges'
  BY ReportTypesStep, UseTypesStep, ImageTypesStep, LateTriesStep
<1>3. Shape /\ LinkIs /\ SleepInv /\ Armed /\ GateTypeOK /\ OnScript /\ Ranges => TypeOK
  BY DEF Shape, LinkIs, Buffered, SleepInv, Armed, OnScript, ReportTypes, UseTypes, LateTries, TypeOK, LinkTypeOK
<1> HIDE DEF Ranges
<1>4. Spec => []Ranges
  BY <1>1, <1>2, AlwaysShape, AlwaysAsleep, PTL DEF Spec
<1> QED BY <1>3, <1>4, AlwaysShape, AlwaysLink, AlwaysSleep, AlwaysAsleep, AlwaysOnScript, RunKeepsGate, PTL

=============================================================================
