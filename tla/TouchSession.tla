---------------------------- MODULE TouchSession ----------------------------
(* What one run of tools/goodix_handshake.py may do to the finger sensor, as
   its docstring and the experiments' notes promise it: arm it at most once,
   image it or wait for the lift only after a touch, and put it to sleep once,
   after which nothing is asked of the sensor any more. `sensor` is the run's
   view of it, `asked[c]` how many of each sensor command the reader has got. *)
EXTENDS Naturals

CONSTANTS ArmCmd, LiftCmd, ImageCmd, SleepCmd   \* the commands 3.1, 3.2, 2.0, 6.0

VARIABLES sensor, asked

Asks == {ArmCmd, LiftCmd, ImageCmd, SleepCmd}

Get(c, from, to) == /\ sensor \in from /\ sensor' = to
                    /\ asked' = [asked EXCEPT ![c] = @ + 1]

Init == sensor = "idle" /\ asked = [c \in Asks |-> 0]

Armed     == Get(ArmCmd, {"idle"}, "armed")
Touched   == sensor = "armed" /\ sensor' = "touched" /\ UNCHANGED asked
Imaged    == Get(ImageCmd, {"touched"}, "imaged")
Lifting   == Get(LiftCmd, {"touched"}, "lifting")
Asleep    == Get(SleepCmd, {"armed", "touched", "imaged", "lifting"}, "asleep")
FreeImage == Get(ImageCmd, {"idle"}, "imaged idle")      \* --image: no finger

Next == Armed \/ Touched \/ Imaged \/ Lifting \/ Asleep \/ FreeImage

Spec == Init /\ [][Next]_<<sensor, asked>>
=============================================================================
