------------------------------ MODULE UsbWire ------------------------------
(* The send side of tools/goodix_handshake.py's class USBWire: the one object
   through which every frame to the reader passes. Its constructor fixes which
   of the gated frames a run may use at all; the arm_* methods and send()
   decide, from flags that only ever advance, whether this one may go out now.

   The caller is arbitrary here: any arm and any send may be tried in any
   order. ReaderRun composes this gate with the program that really calls it. *)
EXTENDS Naturals

StateQuery == "A.7"
FdtManual  == "3.3"
FdtDown    == "3.1"
FdtUp      == "3.2"
GetImage   == "2.0"
SleepMode  == "6.0"

\* The frames send() recognises by their full bytes; each needs an arm_* first.
Gated == {StateQuery, FdtManual, FdtDown, FdtUp, GetImage, SleepMode}

\* command_frame()'s allowlist (NOP, A8, D0, D4), and TLS handshake records.
Open == {"NOP", "A8", "D0", "D4", "TLS"}

Command == Gated \cup Open

ModeShape == [queries: 1..2, fdt: BOOLEAN, down: BOOLEAN, up: BOOLEAN,
              image: BOOLEAN, touch: BOOLEAN]

\* The combinations USBWire.__init__ does not refuse.
ModeOk(m) == /\ m.touch => m.down /\ ~m.up /\ ~m.image
             /\ m.image => ~m.fdt /\ m.queries = 1
             /\ m.down => m.fdt
             /\ m.up => m.down

Modes == {m \in ModeShape : ModeOk(m)}

VARIABLES mode,   \* constructor arguments of this wire
          armed,  \* armed[c]: arm_* succeeded and send has not used it up
          sent    \* sent[c]: how often send let c through (x_sent, state_queries_sent)

gateVars == <<mode, armed, sent>>

WasSent(c) == sent[c] > 0

\* image_stage_ok(): on touch only between 3.1 and 6.0, else only after one A.7.
ImageStageFirst == ~WasSent(GetImage) /\ sent[StateQuery] = 1
ImageStageOk == /\ ~WasSent(GetImage)
                /\ IF mode.touch
                   THEN WasSent(FdtDown) /\ ~WasSent(SleepMode)
                   ELSE mode.image /\ sent[StateQuery] = 1

\* An A.7 is left while the limit is not reached.
QueryLeftOffByOne == sent[StateQuery] <= mode.queries
QueryLeft == sent[StateQuery] < mode.queries

\* 3.1 goes out once, after 3.3.
DownDueAnyTime == ~WasSent(FdtDown)
DownDue == WasSent(FdtManual) /\ ~WasSent(FdtDown)

\* What arm_state_query, arm_fdt, arm_fdt_down, arm_fdt_up, arm_image and
\* arm_sleep require; otherwise they raise and change nothing.
MayArm(c) ==
  \/ c = StateQuery /\ QueryLeft
  \/ c = FdtManual /\ mode.fdt /\ ~WasSent(c)
  \/ c = FdtDown /\ mode.down /\ DownDue
  \/ c = FdtUp /\ mode.up /\ WasSent(FdtDown) /\ ~WasSent(c) /\ ~WasSent(SleepMode)
  \/ c = GetImage /\ ImageStageOk
  \/ c = SleepMode /\ WasSent(FdtDown) /\ ~WasSent(c)

\* send() repeats every condition of the arm and asks for the flag as well: a
\* flag left armed after its stage has passed must not let the frame out.
MaySendOnFlag(c) == armed[c]
MaySend(c) == armed[c] /\ MayArm(c)

GateInit == /\ mode \in Modes
            /\ armed = [c \in Gated |-> FALSE]
            /\ sent = [c \in Gated |-> 0]

Arm(c) == /\ MayArm(c)
          /\ armed' = [armed EXCEPT ![c] = TRUE]
          /\ UNCHANGED <<mode, sent>>

\* The flags advance before the bytes are written: a failed write still counts.
Pass(c) == /\ MaySend(c)
           /\ armed' = [armed EXCEPT ![c] = FALSE]
           /\ sent' = [sent EXCEPT ![c] = @ + 1]
           /\ UNCHANGED mode

GateNext == \E c \in Gated : Arm(c) \/ Pass(c)

GateSpec == GateInit /\ [][GateNext]_gateVars

-----------------------------------------------------------------------------
GateTypeOK == /\ mode \in Modes
              /\ armed \in [Gated -> BOOLEAN]
              /\ sent \in [Gated -> 0..2]

(* Whatever the caller does: a mode's frames stay in that mode, nothing goes
   out twice (A.7: its limit), 3.1 needs 3.3, and 3.2 or 6.0 needs 3.1. A
   2.0 in a run that arms the reader is the touch mode's. *)
GateOrder ==
  /\ sent[StateQuery] <= mode.queries
  /\ \A c \in Gated \ {StateQuery} : sent[c] <= 1
  /\ WasSent(FdtManual) => mode.fdt
  /\ WasSent(FdtDown) => mode.down /\ WasSent(FdtManual)
  /\ WasSent(FdtUp) => mode.up /\ WasSent(FdtDown)
  /\ WasSent(SleepMode) => WasSent(FdtDown)
  /\ WasSent(GetImage) => (mode.image /\ ~mode.fdt) \/ (mode.touch /\ WasSent(FdtDown))

(* Once 6.0 has gone out, the wire is closed to every frame that could arm or
   image the reader again, whichever flags are still armed. *)
NothingAfterSleep ==
  [][WasSent(SleepMode) =>
       \A c \in {FdtDown, FdtUp, GetImage, SleepMode} : sent'[c] = sent[c]]_gateVars
=============================================================================
