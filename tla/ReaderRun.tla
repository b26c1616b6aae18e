----------------------------- MODULE ReaderRun -----------------------------
(* One run of tools/goodix_handshake.py: main() with handshake(), the state
   query, fdt_manual(), get_image(), fdt_down() and disarm(), over USBWire
   (UsbWire, ReaderLink) and save_image() (ImageFiles), against the reader, the
   USB deadline, the disk and Ctrl-C.

   A phase is one exchange of the script; within it the program goes through
   the steps begin (report.update), arm, gate (send's flags), write, ack and
   reply, and Ctrl-C may fall between any two of them. *)
EXTENDS Naturals, Sequences, FiniteSets, ReaderLink, ImageFiles

CONSTANTS MaxTls,         \* handshake()'s frame limit, 64 in the code
          MaxInterrupts,  \* bound on Ctrl-C in one run
          Requests        \* the command lines considered

ASSUME MaxTlsAssumption == MaxTls \in Nat
ASSUME MaxInterruptsAssumption == MaxInterrupts \in Nat

Flags == {"query", "pre", "manual", "down", "up", "touch", "image", "save"}

\* main()'s rules on combining flags.
FlagsOk(A) == /\ "pre" \in A => "query" \in A
              /\ "manual" \in A => "query" \in A /\ "pre" \notin A
              /\ "down" \in A => "manual" \in A
              /\ "up" \in A => "down" \in A
              /\ "image" \in A => "query" \in A /\ A \cap {"manual", "pre"} = {}
              /\ "touch" \in A => "down" \in A /\ A \cap {"up", "image"} = {}
              /\ "save" \in A => A \cap {"image", "touch"} # {}

\* Other command lines end in main() before there is a wire.
ASSUME RequestsAssumption == \A A \in Requests : A \subseteq Flags /\ FlagsOk(A)

\* How main() constructs the wire for accepted flags.
ModeOfOneQuery(A) == [queries |-> IF "manual" \in A THEN 2 ELSE 1,
              fdt |-> "manual" \in A, down |-> "down" \in A, up |-> "up" \in A,
              image |-> "image" \in A, touch |-> "touch" \in A]

ModeOf(A) == [queries |-> IF A \cap {"manual", "pre"} # {} THEN 2 ELSE 1,
              fdt |-> "manual" \in A, down |-> "down" \in A, up |-> "up" \in A,
              image |-> "image" \in A, touch |-> "touch" \in A]

VARIABLES
  args,                       \* the flags given
  phase, step,                \* where the program is
  stage, acked, downEvent, sleepAck,  \* report: stage, x_ack, fdt_down_event, sleep_ack
  exc,                        \* exception on its way out, later report['error']
  handling, saved,            \* in fdt_down's except block, and the stage kept there
  flights, secure, lates,     \* TLS frames fed, server.complete, disarm's tries
  held, claimed, cleaned,     \* interface held at the OS, wire.claimed, cleanup_confirmed
  code,                       \* exit code, "-" while running
  clock,                      \* time left before wire.deadline and the transfer limit
  interrupts,                 \* Ctrl-C so far
  first, exposed              \* history: first error and its stage; 3.1 left without handler

ctlVars  == <<phase, step, handling, saved>>
repVars  == <<stage, acked, downEvent, sleepAck>>
tlsVars  == <<flights, secure>>
useVars  == <<held, claimed, cleaned, code>>
histVars == <<exc, first, exposed>>
envVars  == <<clock, interrupts, faults>>
linkVars == <<sensorVars, pipeVars>>
vars == <<args, imageVars, ctlVars, repVars, tlsVars, lates, useVars, histVars, envVars,
          linkVars, gateVars>>

None == "none"

-----------------------------------------------------------------------------
(* The script. *)

\* The command each sending phase puts on the wire.
CommandOf(p) ==
  CASE p = "nop" -> "NOP" [] p = "firmware" -> "A8" [] p = "request_tls" -> "D0"
    [] p = "tls" -> "TLS" [] p = "confirm" -> "D4"
    [] p \in {"pre_state", "state", "fdt_state"} -> StateQuery
    [] p = "fdt_manual" -> FdtManual [] p = "image" -> GetImage
    [] p = "fdt_down" -> FdtDown [] p = "fdt_up" -> FdtUp [] p = "disarm" -> SleepMode

Sending == {"nop", "firmware", "pre_state", "request_tls", "tls", "confirm", "state",
            "fdt_manual", "fdt_state", "image", "fdt_down", "fdt_up", "disarm"}
Windows == {"stale", "down_event", "up_event"}
Phases  == Sending \cup Windows \cup {"start", "enter", "end"}
Saving  == {"mkdir", "open", "note", "fill"}      \* the try of save_image()
Keeping == Saving \cup {"stats", "unlink"}
Leaving == {"exit", "release", "dispose", "dispose_failing", "report", "done"}
Steps   == Keeping \cup Leaving \cup
           {"load", "find", "claim", "mark", "begin", "arm", "gate", "write", "try",
            "ack", "window", "reply", "server", "handler"}

cmd == CommandOf(phase)

\* `if report['fdt_down_event']`: 2.0 and 3.2 only after a decoded event.
TouchedOrNot(event) == event # "absent"
Touched(event) == event = "yes"

\* The phase after p; `event` is report['fdt_down_event'].
After(p, event) ==
  CASE p = "stale" -> "nop"
    [] p = "nop" -> "firmware"
    [] p = "firmware" -> IF "pre" \in args THEN "pre_state" ELSE "request_tls"
    [] p = "pre_state" -> "request_tls"
    [] p = "request_tls" -> "tls"
    [] p = "tls" -> "confirm"
    [] p = "confirm" -> IF "query" \in args THEN "state" ELSE "end"
    [] p = "state" -> IF "manual" \in args THEN "fdt_manual"
                      ELSE IF "image" \in args THEN "image" ELSE "end"
    [] p = "fdt_manual" -> "fdt_state"
    [] p = "fdt_state" -> IF "down" \in args THEN "fdt_down" ELSE "end"
    [] p = "fdt_down" -> "down_event"
    [] p = "down_event" -> IF Touched(event) /\ "touch" \in args THEN "image"
                           ELSE IF Touched(event) /\ "up" \in args THEN "fdt_up"
                           ELSE "disarm"
    [] p = "fdt_up" -> "up_event"
    [] p = "up_event" -> "disarm"
    [] p = "image" -> IF "touch" \in args THEN "disarm" ELSE "end"
    [] OTHER -> "end"

Entry(p) == CASE p \in Windows -> "window" [] p = "tls" -> "reply"
              [] p = "end" -> "exit" [] OTHER -> "begin"

\* Phases whose routine ends by setting report['stage'] to 'complete'.
Completes(p) == p \in {"confirm", "state", "fdt_state"} \/ (p = "image" /\ "touch" \notin args)

\* The phase is over: on to the next one.
Proceed(event) ==
  LET p == After(phase, event)
  IN  /\ phase' = p /\ step' = Entry(p)
      /\ stage' = IF p = "tls" THEN p ELSE IF Completes(phase) THEN "complete" ELSE stage
      /\ downEvent' = event
      /\ UNCHANGED <<sleepAck, handling, saved, exc, first>>

ProtectedWaits == \/ phase = "fdt_down" /\ step = "ack"
                  \/ phase \in {"down_event", "up_event", "disarm"}

\* Within fdt_down()'s try: from the return of send(3.1) on.
Protected == \/ phase = "fdt_down" /\ step = "ack"
             \/ phase \in {"down_event", "fdt_up", "up_event", "disarm"}
             \/ phase = "image" /\ "touch" \in args

\* `except Exception` around the handler's own disarm(), and the stage it puts back.
NeverSwallows == FALSE
Swallows == handling
StageLeft == stage
StageBack == saved

\* An exception other than Ctrl-C, with its label. Inside the handler's own
\* disarm it is swallowed: the first one goes on, and so does its stage.
Raise(label) ==
  /\ IF Swallows
     THEN /\ step' = "exit" /\ handling' = FALSE
          /\ stage' = StageBack /\ sleepAck' = "no"
          /\ UNCHANGED <<exc, first>>
     ELSE /\ step' = IF Protected THEN "handler" ELSE "exit"
          /\ exc' = label
          /\ first' = IF first = None THEN <<label, stage>> ELSE first
          /\ UNCHANGED <<stage, sleepAck, handling>>
  /\ UNCHANGED <<phase, downEvent, saved>>

-----------------------------------------------------------------------------
(* Sending a command. *)

\* What query_state, fdt_manual, fdt_down and get_image ask of the report.
RoutineOk ==
  /\ phase \in {"state", "fdt_manual", "fdt_down"} \/ (phase = "image" /\ "touch" \notin args)
       => stage = "complete" /\ secure
  /\ phase = "fdt_manual" \/ (phase = "image" /\ "touch" \notin args) => "state" \in acked
  /\ phase = "fdt_down" => {"fdt_manual", "fdt_state"} \subseteq acked

Stay == UNCHANGED <<phase, handling, saved, exc, first, stage, sleepAck, downEvent>>

Begin ==
  /\ step = "begin"
  /\ IF RoutineOk
     THEN /\ stage' = phase
          /\ sleepAck' = IF phase = "disarm" THEN "no" ELSE sleepAck
          /\ step' = IF cmd \in Gated THEN "arm" ELSE "gate"
          /\ UNCHANGED <<phase, handling, saved, exc, first, downEvent>>
     ELSE Raise("refused")
  /\ UNCHANGED <<args, imageVars, acked, tlsVars, lates, useVars, exposed, envVars, linkVars, gateVars>>

ArmStep ==
  /\ step = "arm"
  /\ IF MayArm(cmd) THEN Arm(cmd) /\ step' = "gate" /\ Stay
                    ELSE Raise("refused") /\ UNCHANGED gateVars
  /\ UNCHANGED <<args, imageVars, acked, tlsVars, lates, useVars, exposed, envVars, linkVars>>

GateStep ==
  /\ step = "gate"
  /\ IF cmd \in Open THEN step' = "write" /\ Stay /\ UNCHANGED gateVars
     ELSE IF MaySend(cmd) THEN Pass(cmd) /\ step' = "write" /\ Stay
                          ELSE Raise("refused") /\ UNCHANGED gateVars
  /\ UNCHANGED <<args, imageVars, acked, tlsVars, lates, useVars, exposed, envVars, linkVars>>

\* Where send() returns to: the try of fdt_down is entered after it.
Written == CASE phase = "fdt_down" -> "try" [] phase = "tls" -> "reply" [] OTHER -> "ack"

Write ==
  /\ step = "write" /\ clock # "expired"
  /\ Take(cmd)
  /\ IF phase = "tls" /\ secure
     THEN Proceed(downEvent)
     ELSE /\ step' = Written
          /\ Stay
  /\ UNCHANGED <<args, imageVars, acked, tlsVars, lates, useVars, exposed, envVars, bufferVars, gateVars>>

EnterTry ==
  /\ step = "try" /\ step' = "ack"
  /\ UNCHANGED <<args, imageVars, phase, handling, saved, repVars, tlsVars, lates, useVars, histVars,
                 envVars, linkVars, gateVars>>

\* timeout() refuses the transfer: deadline passed or 512 transfers made.
WriteRefused ==
  /\ step = "write" /\ clock = "expired"
  /\ Raise("budget")
  /\ UNCHANGED <<args, imageVars, acked, tlsVars, lates, useVars, exposed, envVars, linkVars, gateVars>>

\* A USB error or a short write; the frame may have got there all the same.
WriteError ==
  /\ step = "write" /\ clock # "expired" /\ faults < MaxFaults
  /\ faults' = faults + 1
  /\ Take(cmd) \/ UNCHANGED <<sensorVars, pipe>>
  /\ Raise("usb")
  /\ exposed' = (exposed \/ phase = "fdt_down")   \* send(3.1) is outside the try
  /\ UNCHANGED <<args, imageVars, acked, tlsVars, lates, useVars, clock, interrupts, bufferVars, gateVars>>

-----------------------------------------------------------------------------
(* Receiving. *)

\* handshake() takes at most MaxTls frames of the TLS handshake.
FlightsLeftOffByOne == flights <= MaxTls
FlightsLeft == flights < MaxTls

Receiving == step \in {"ack", "reply"} /\ (phase = "tls" => FlightsLeft)
Windowed  == step = "reply" /\ phase \in Windows \cup {"image"}

Read == /\ Receiving /\ clock # "expired"
        /\ Transfer
        /\ UNCHANGED <<args, imageVars, ctlVars, repVars, tlsVars, lates, useVars, histVars, envVars,
                       sensorVars, gateVars>>

ReadRefused ==
  /\ Receiving /\ ~Ready /\ clock = "expired"
  /\ Raise("budget")
  /\ UNCHANGED <<args, imageVars, acked, tlsVars, lates, useVars, exposed, envVars, linkVars, gateVars>>

ReadError ==
  /\ Receiving /\ ~Ready /\ clock # "expired" /\ faults < MaxFaults
  /\ faults' = faults + 1
  /\ UNCHANGED pipeVars \/ LostTransfer
  /\ Raise("usb")
  /\ UNCHANGED <<args, imageVars, acked, tlsVars, lates, useVars, exposed, clock, interrupts, sensorVars,
                 gateVars>>

\* Nothing came. receive_or_timeout (NOP) and receive_window go on if no partial
\* frame is buffered, a window only when it is over; anything else raises.
NoAckIsFine == (phase \in {"nop", "confirm"} \/ Windowed) /\ ~BufferUsed /\ phase # "image"
NoReplyIsFine == (phase = "nop" \/ Windowed) /\ ~BufferUsed /\ phase # "image"

TimeoutUnlessWaiting ==
  /\ Receiving /\ ~Ready /\ phase \notin Windows
  /\ Raise("timeout")
  /\ UNCHANGED <<args, imageVars, acked, tlsVars, lates, useVars, exposed, envVars, linkVars, gateVars>>

Timeout ==
  /\ Receiving /\ ~Ready
  /\ clock # "expired" \/ Windowed
  /\ IF NoReplyIsFine
     THEN Proceed(IF phase = "down_event" THEN "no" ELSE downEvent)
     ELSE Raise("timeout")
  /\ UNCHANGED <<args, imageVars, acked, tlsVars, lates, useVars, exposed, envVars, linkVars, gateVars>>

\* receive_event and receive_image refuse before their command; no window is
\* opened that would end after the deadline.
MayOpen == /\ phase \in {"down_event", "up_event"} => WasSent(FdtDown) /\ ~WasSent(SleepMode)
           /\ phase = "image" => WasSent(GetImage)

OpenWindow ==
  /\ step = "window"
  /\ IF ~MayOpen THEN Raise("refused")
     ELSE IF clock = "ample" THEN step' = "reply" /\ Stay
                             ELSE Raise("budget")
  /\ UNCHANGED <<args, imageVars, acked, tlsVars, lates, useVars, exposed, envVars, linkVars, gateVars>>

\* An invalid USB frame header: the buffer is left as it is.
BadFrame ==
  /\ Receiving /\ Ready /\ Head(pipe) = Bad
  /\ Raise("frame")
  /\ UNCHANGED <<args, imageVars, acked, tlsVars, lates, useVars, exposed, envVars, linkVars, gateVars>>

\* What expect_ack() and the routine after it accept.
AckFrame ==
  /\ step = "ack" /\ phase # "disarm" /\ Ready /\ Head(pipe) # Bad
  /\ Consume
  /\ \/ /\ Head(pipe) = Ack(cmd)
        /\ acked' = acked \cup {phase}
        /\ CASE phase \in {"firmware", "pre_state", "state", "fdt_manual", "fdt_state"} ->
                  /\ step' = "reply"
                  /\ Stay
             [] phase = "image" ->
                  /\ step' = "window"
                  /\ Stay
             [] OTHER -> Proceed(downEvent)
     \/ Head(pipe) # Ack(cmd) /\ Raise("ack") /\ UNCHANGED acked
  /\ UNCHANGED <<args, imageVars, tlsVars, lates, useVars, exposed, envVars, sensorVars, gateVars>>

\* The reply each phase accepts; before TLS no 0xb2 frame, and no stale frame ever.
Accepted ==
  CASE phase = "firmware" -> {Reply("A8")}
    [] phase = "pre_state" -> {Reply(StateQuery)}
    [] phase \in {"state", "fdt_state"} -> {Reply(StateQuery), Data}
    [] phase = "fdt_manual" -> {Reply(FdtManual)}
    [] phase = "image" -> {Data}
    [] phase = "down_event" -> {Reply(FdtDown)}
    [] phase = "up_event" -> {Reply(FdtUp)}
    [] OTHER -> {}

\* A wanted image goes to disk unless its length is unexpected.
WantsImage == "save" \in args /\ phase = "image"

ReplyFrame ==
  /\ step = "reply" /\ phase # "tls" /\ Ready /\ Head(pipe) # Bad
  /\ Consume
  /\ \/ Head(pipe) \in Accepted
        /\ \/ /\ imageSaved' = IF WantsImage THEN "skipped" ELSE imageSaved
              /\ Proceed(IF phase = "down_event" THEN "yes" ELSE downEvent)
           \/ WantsImage /\ imageSaved' = "no" /\ step' = "mkdir" /\ Stay
     \/ Head(pipe) \notin Accepted \ {Data} /\ Raise("reply")  \* or not decrypted
        /\ UNCHANGED imageSaved
  /\ UNCHANGED <<args, files, written, leaked, acked, tlsVars, lates, useVars, exposed, envVars,
                 sensorVars, gateVars>>

\* save_image() goes on, or has an OSError: then its except block is next.
SaveGoes(s) == step' = s /\ Stay /\ UNCHANGED faults
SaveFails == /\ faults < MaxFaults /\ faults' = faults + 1
             /\ step' = "unlink" /\ exc' = "save"
             /\ first' = IF first = None THEN <<"save", stage>> ELSE first
             /\ UNCHANGED <<phase, handling, saved, stage, sleepAck, downEvent>>

SaveTry ==
  /\ \/ step = "mkdir" /\ (SaveGoes("open") \/ SaveFails) /\ UNCHANGED <<files, written>>
     \/ step = "open" /\ Create(SaveGoes("note"), SaveFails) /\ UNCHANGED written
     \/ step = "note" /\ Note(SaveGoes("fill")) /\ UNCHANGED files
     \/ /\ step = "fill" /\ UNCHANGED written
        /\ Fill(SaveGoes(IF written = Images THEN "stats" ELSE "open"), SaveFails)
  /\ UNCHANGED <<args, imageSaved, leaked, acked, tlsVars, lates, useVars, exposed, clock,
                 interrupts, linkVars, gateVars>>

\* The except block, for any exception; then fdt_down's, if this is a touch.
SaveExcept ==
  /\ step = "unlink" /\ step' = IF Protected THEN "handler" ELSE "exit"
  /\ \/ CleanUp({}) /\ UNCHANGED faults
     \/ \E failing \in SUBSET written \ {{}} :
          CleanUp(failing) /\ faults < MaxFaults /\ faults' = faults + 1
  /\ UNCHANGED <<args, written, imageSaved, phase, handling, saved, repVars, tlsVars, lates, useVars,
                 histVars, clock, interrupts, linkVars, gateVars>>

SaveStats ==
  /\ step = "stats" /\ imageSaved' = "yes"
  /\ Proceed(downEvent)
  /\ UNCHANGED <<args, files, written, leaked, acked, tlsVars, lates, useVars, exposed, envVars,
                 linkVars, gateVars>>

\* late_event_command(): an up event counts only if 3.2 was sent.
LateEvent(f) == f = Reply(FdtDown) \/ (f = Reply(FdtUp) /\ WasSent(FdtUp))

\* expect_ack(SLEEP_MODE): the ACK names the command it answers.
AnyAck(f) == f[1] = "ack"
SleepAcked(f) == f = Ack(SleepMode)

\* disarm() has its ACK: fdt_down is complete, or the handler is done.
Disarmed ==
  /\ sleepAck' = "yes"
  /\ step' = "exit"
  /\ IF handling
     THEN stage' = saved /\ handling' = FALSE /\ UNCHANGED phase
     ELSE stage' = "complete" /\ phase' = "end" /\ UNCHANGED handling
  /\ UNCHANGED <<saved, exc, first, downEvent>>

SleepFrame ==
  /\ step = "ack" /\ phase = "disarm" /\ Ready /\ Head(pipe) # Bad
  /\ Consume
  /\ \/ /\ LateEvent(Head(pipe))
        /\ lates' = lates + 1
        /\ IF lates = 2 THEN Raise("ack")
           ELSE UNCHANGED <<ctlVars, stage, sleepAck, downEvent, exc, first>>
        /\ UNCHANGED acked
     \/ /\ SleepAcked(Head(pipe))
        /\ Disarmed
        /\ acked' = acked \cup {phase}
        /\ UNCHANGED lates
     \/ ~LateEvent(Head(pipe)) /\ ~SleepAcked(Head(pipe)) /\ Raise("ack")
        /\ UNCHANGED <<acked, lates>>
  /\ UNCHANGED <<args, imageVars, tlsVars, useVars, exposed, envVars, sensorVars, gateVars>>

-----------------------------------------------------------------------------
(* handshake()'s TLS loop. *)

TlsFrame ==
  /\ step = "reply" /\ phase = "tls" /\ FlightsLeft /\ Ready /\ Head(pipe) # Bad
  /\ Consume
  /\ \/ /\ Head(pipe) = Tls
        /\ flights' = flights + 1 /\ step' = "server"
        /\ Stay
     \/ Head(pipe) # Tls /\ Raise("reply") /\ UNCHANGED flights
  /\ UNCHANGED <<args, imageVars, acked, secure, lates, useVars, exposed, envVars, sensorVars, gateVars>>

\* 64 frames without a result, or the loop's own 30 s are over.
TlsLimit ==
  /\ step = "reply" /\ phase = "tls"
  /\ ~FlightsLeft \/ clock # "ample"
  /\ Raise("budget")
  /\ UNCHANGED <<args, imageVars, acked, tlsVars, lates, useVars, exposed, envVars, linkVars, gateVars>>

\* server.step(): rejects, wants more, has a flight to send, or is complete
\* (never on the first frame, which is the ClientHello).
ServerStep ==
  /\ step = "server"
  /\ \/ Raise("tls") /\ UNCHANGED secure
     \/ \E output, complete \in BOOLEAN :
          /\ complete => flights > 1
          /\ secure' = complete
          /\ IF complete /\ ~output
             THEN Proceed(downEvent)
             ELSE /\ step' = IF output THEN "gate" ELSE "reply"
                  /\ Stay
  /\ UNCHANGED <<args, imageVars, acked, flights, lates, useVars, exposed, envVars, linkVars, gateVars>>

-----------------------------------------------------------------------------
(* fdt_down()'s except block, __enter__ / __exit__, and main(). *)

\* An interrupted or failed 3.1 is followed by 6.0 unless disarm() had begun.
Handle ==
  /\ step = "handler"
  /\ IF sleepAck # "absent"
     THEN step' = "exit" /\ UNCHANGED <<phase, handling, saved, pipeVars>>
     ELSE /\ Discard
          /\ saved' = stage /\ handling' = TRUE
          /\ phase' = "disarm" /\ step' = "begin"
  /\ UNCHANGED <<args, imageVars, repVars, tlsVars, lates, useVars, histVars, envVars, sensorVars, gateVars>>

\* Terminal, key and TLS context: there is no wire yet, main() reports at once.
Load ==
  /\ step = "load"
  /\ \/ phase' = "enter" /\ step' = "find" /\ UNCHANGED <<exc, first>>
     \/ step' = "report" /\ exc' = "preflight" /\ first' = <<"preflight", stage>> /\ UNCHANGED phase
  /\ UNCHANGED <<args, imageVars, handling, saved, repVars, tlsVars, lates, useVars, exposed, envVars,
                 linkVars, gateVars>>

\* __enter__: the one reader, its descriptors and driver are checked, then the
\* interface is claimed and the claim is noted.
Enter ==
  /\ \/ step = "find" /\ step' = "claim" /\ UNCHANGED <<phase, stage, exc, first, held, claimed>>
     \/ step = "claim" /\ held' = TRUE /\ step' = "mark"
        /\ UNCHANGED <<phase, stage, exc, first, claimed>>
     \/ step = "mark" /\ claimed' = TRUE
        /\ phase' = "stale" /\ step' = "window" /\ stage' = "stale"
        /\ UNCHANGED <<exc, first, held>>
     \/ step \in {"find", "claim"} /\ step' = "exit" /\ exc' = "preflight"
        /\ first' = <<"preflight", stage>> /\ UNCHANGED <<phase, stage, held, claimed>>
  /\ UNCHANGED <<args, imageVars, handling, saved, acked, downEvent, sleepAck, tlsVars, lates, cleaned, code, exposed, envVars,
                 linkVars, gateVars>>

\* Where a release that raises leads: the finally clause.
NoFinally == "report"
Finally == "dispose_failing"

\* __exit__: release once, dispose whatever release does, confirm only if both worked.
Leave ==
  /\ \/ step = "exit" /\ claimed /\ claimed' = FALSE /\ step' = "release"
        /\ UNCHANGED <<held, cleaned, exc, first, faults>>
     \/ step = "exit" /\ ~claimed /\ step' = "dispose"
        /\ UNCHANGED <<held, claimed, cleaned, exc, first, faults>>
     \/ step = "release" /\ held' = FALSE /\ step' = "dispose"
        /\ UNCHANGED <<claimed, cleaned, exc, first, faults>>
     \/ step = "release" /\ faults < MaxFaults /\ faults' = faults + 1
        /\ step' = Finally /\ exc' = "usb"
        /\ first' = (IF first = None THEN <<"usb", stage>> ELSE first)
        /\ UNCHANGED <<held, claimed, cleaned>>
     \/ step = "dispose" /\ held' = FALSE /\ cleaned' = TRUE /\ step' = "report"
        /\ UNCHANGED <<claimed, exc, first, faults>>
     \/ step = "dispose_failing" /\ held' = FALSE /\ step' = "report"
        /\ UNCHANGED <<claimed, cleaned, exc, first, faults>>
  /\ UNCHANGED <<args, imageVars, phase, handling, saved, repVars, tlsVars, lates, code, exposed, clock,
                 interrupts, linkVars, gateVars>>

ExitOnStage == stage = "complete"
ExitOk == stage = "complete" /\ exc = None

Report ==
  /\ step = "report" /\ step' = "done"
  /\ code' = IF ExitOk THEN "0" ELSE "2"
  /\ UNCHANGED <<args, imageVars, phase, handling, saved, repVars, tlsVars, lates, held, claimed, cleaned,
                 histVars, envVars, linkVars, gateVars>>

-----------------------------------------------------------------------------
(* Ctrl-C, between any two steps. *)

\* 3.1 is out, 6.0 is not yet, and no handler will see this interrupt through.
PastHandler == \/ step = "try"
               \/ step = "handler" /\ sleepAck = "absent"
               \/ step = "begin" /\ handling
               \/ step \in {"arm", "gate", "write"} /\ phase = "disarm"

\* save_image() catches every BaseException, not only an Exception.
CleanedAfterErrors == {}
Cleaned == Saving

Interrupt ==
  /\ step # "done" /\ interrupts < MaxInterrupts
  /\ interrupts' = interrupts + 1
  /\ exc' = "interrupt"
  /\ first' = IF first = None THEN <<"interrupt", stage>> ELSE first
  /\ exposed' = (exposed \/ PastHandler)
  /\ code' = IF step = "report" THEN "1" ELSE code    \* a traceback, no report
  /\ leaked' = (leaked \/ step \in {"note", "unlink"})
  /\ step' = IF step = "report" THEN "done"
             ELSE IF step \in Cleaned THEN "unlink"
             ELSE IF step \in {"load", "dispose", "dispose_failing"} THEN "report"
             ELSE IF step \in {"exit", "release"} THEN Finally
             ELSE IF Protected /\ ~handling /\ step # "handler" THEN "handler"
             ELSE "exit"
  /\ handling' = FALSE
  /\ UNCHANGED pipeVars \/ (Receiving /\ clock # "expired" /\ LostTransfer)
  /\ UNCHANGED <<args, files, written, imageSaved, phase, saved, repVars, tlsVars, lates, held,
                 claimed, cleaned, clock, faults, sensorVars, gateVars>>

\* Time passes at every step, but only these read the clock.
Tick == /\ step \in {"write", "ack", "reply", "window"} /\ clock # "expired"
        /\ clock' = IF clock = "ample" THEN "short" ELSE "expired"
        /\ UNCHANGED <<args, imageVars, ctlVars, repVars, tlsVars, lates, useVars, histVars, interrupts,
                       faults, linkVars, gateVars>>

\* A finger that comes after it finds the sensor as the run leaves it.
ReaderStep == /\ step \notin Leaving /\ Reader
              /\ UNCHANGED <<args, imageVars, ctlVars, repVars, tlsVars, lates, useVars, histVars, clock,
                             interrupts, gateVars>>

Init ==
  /\ args \in Requests
  /\ mode = ModeOf(args)
  /\ armed = [c \in Gated |-> FALSE] /\ sent = [c \in Gated |-> 0]
  /\ LinkInit /\ ImageInit
  /\ phase = "start" /\ step = "load"
  /\ stage = "start" /\ acked = {} /\ downEvent = "absent" /\ sleepAck = "absent"
  /\ exc = None /\ handling = FALSE /\ saved = "start"
  /\ flights = 0 /\ secure = FALSE /\ lates = 0
  /\ held = FALSE /\ claimed = FALSE /\ cleaned = FALSE /\ code = "-"
  /\ clock = "ample" /\ interrupts = 0
  /\ first = None /\ exposed = FALSE

Program == \/ Load \/ Enter \/ Leave \/ Report \/ Handle
           \/ Begin \/ ArmStep \/ GateStep \/ Write \/ EnterTry \/ WriteRefused \/ WriteError
           \/ Read \/ ReadRefused \/ ReadError \/ Timeout \/ OpenWindow \/ BadFrame
           \/ AckFrame \/ ReplyFrame \/ SleepFrame \/ TlsFrame \/ TlsLimit \/ ServerStep
           \/ SaveTry \/ SaveExcept \/ SaveStats

Next == Program \/ Interrupt \/ Tick \/ ReaderStep

Spec == Init /\ [][Next]_vars

\* The program is scheduled, and every USB call of it returns: each transfer
\* has a timeout of at most 2 s.
FairSpec == Spec /\ WF_vars(Program)
-----------------------------------------------------------------------------
TypeOK ==
  /\ args \in Requests
  /\ GateTypeOK /\ LinkTypeOK /\ ImageTypeOK
  /\ phase \in Phases /\ step \in Steps
  /\ acked \subseteq Sending
  /\ {stage, saved} \subseteq Phases \cup {"complete"}
  /\ downEvent \in {"absent", "yes", "no"} /\ sleepAck \in {"absent", "yes", "no"}
  /\ handling \in BOOLEAN /\ exposed \in BOOLEAN /\ secure \in BOOLEAN
  /\ flights \in 0..MaxTls /\ lates \in 0..3
  /\ held \in BOOLEAN /\ claimed \in BOOLEAN /\ cleaned \in BOOLEAN
  /\ code \in {"-", "0", "1", "2"}
  /\ clock \in {"ample", "short", "expired"} /\ interrupts \in 0..MaxInterrupts

\* The order the routines, the arm_* methods, send() and the windows insist on
\* is the order of the script: no run is ever ended by one of those guards.
GuardsAgree == first # None => first[1] # "refused"

\* A report of sleep_ack = true is the truth: the reader took the one 6.0 of
\* this run, is not armed, and has nothing more to say, whatever stale, late,
\* split or wrong frames came before the ACK.
SleepAckTruth == sleepAck = "yes" => seen[SleepMode] = 1 /\ fdt = "off" /\ pipe = <<>>

\* A run that exits 0 leaves nothing for the next run's stale check to find,
\* but the event, garbled or not, of a 3.1 that an earlier run left armed: no
\* late ACK or reply was taken for the answer to another command.
CleanHandover ==
  code = "0" => /\ \A i \in DOMAIN pipe : pipe[i] \in {Reply(FdtDown), Odd, Bad}
                /\ "down" \in args => pipe = <<>>

\* The promise of fdt_down() as far as the code keeps it: once 3.1 has reached
\* the reader, every event, timeout, bad reply and interrupt leads to a 6.0
\* being sent, except where the exception leaves past the except block.
SleepAlwaysTried ==
  code # "-" /\ seen[FdtDown] > 0 /\ ~exposed => WasSent(SleepMode)

\* fdt_down()'s docstring without the exception (lines 506-508): "Every path
\* after 3.1 (event, timeout, bad reply, interrupt) ends with one fixed 6.0".
EveryPathSleeps == code # "-" /\ seen[FdtDown] > 0 => WasSent(SleepMode)

\* "An error keeps its own label": neither the clean-up's 6.0 nor what fails in
\* it replaces the first error or the stage it happened in; only a further
\* interrupt or a failing release does.
FirstErrorWins ==
  code = "2" => /\ interrupts = 0 => stage = first[2]
                /\ \/ exc = first[1] \/ exc = "usb"
                   \/ interrupts > (IF first[1] = "interrupt" THEN 1 ELSE 0)

\* Exit 0 means that the whole requested script was acknowledged, over TLS,
\* and that the interface was given back.
ExitZeroMeansAll ==
  code = "0" =>
    /\ secure /\ cleaned /\ ~held
    /\ {"firmware", "request_tls", "confirm"} \subseteq acked
    /\ "pre" \in args => "pre_state" \in acked
    /\ "query" \in args => "state" \in acked
    /\ "manual" \in args => {"fdt_manual", "fdt_state"} \subseteq acked
    /\ "image" \in args => "image" \in acked
    /\ "save" \in args /\ "image" \in acked => imageSaved \in {"yes", "skipped"}
    /\ "down" \in args => {"fdt_down", "disarm"} \subseteq acked /\ downEvent # "absent"
    /\ "touch" \in args => ("image" \in acked <=> downEvent = "yes")
    /\ "up" \in args => ("fdt_up" \in acked <=> downEvent = "yes")

\* usb_released (cleanup_confirmed) is never reported while the interface is
\* still held, and without an interrupt the interface is always given back.
ReleaseTruth == code # "-" => /\ cleaned => ~held
                              /\ interrupts = 0 => ~held

\* save_image() leaves both files whole or neither, and no older file goes,
\* whatever fails or interrupts it; `leaked` names the exceptions.
NoHalfImage ==
  /\ \A f \in Images : files[f] # "lost"
  /\ code # "-" /\ ~leaked => /\ \A f \in Images : files[f] # "part"
                             /\ files["raw"] = "whole" <=> files["pgm"] = "whole"
  /\ imageSaved = "yes" => \A f \in Images : files[f] = "whole"

\* What the reader has been asked of the touch session, and how far it is.
SensorAsked == [c \in {FdtDown, FdtUp, GetImage, SleepMode} |-> seen[c]]
SensorState == IF seen[SleepMode] > 0 THEN "asleep"
               ELSE IF seen[FdtUp] > 0 THEN "lifting"
               ELSE IF seen[GetImage] > 0
                    THEN IF "touch" \in args THEN "imaged" ELSE "imaged idle"
               ELSE IF downEvent = "yes" THEN "touched"
               ELSE IF seen[FdtDown] > 0 THEN "armed" ELSE "idle"

Session == INSTANCE TouchSession WITH
  ArmCmd <- FdtDown, LiftCmd <- FdtUp, ImageCmd <- GetImage, SleepCmd <- SleepMode,
  asked <- SensorAsked, sensor <- SensorState

\* The reader gets 3.1, 3.2, 2.0 and 6.0 only as a touch session allows.
TouchProtocol == Session!Spec

\* Every run ends, whatever the reader sends or withholds.
Termination == <>(step = "done")
=============================================================================
