------------------------------ MODULE Recorder ------------------------------
(* What a capture session may expect of a recorder: once recording, a recorder
   that is lost (it ends unasked, or its stream is corrupt or unreadable) is
   reported as a gap when it is stopped, and one that is not lost is not. *)
VARIABLES life, gap

Init == life = "idle" /\ gap = "-"

Start == life = "idle" /\ life' = "recording" /\ UNCHANGED gap
Lose  == life \in {"idle", "recording"} /\ life' = "lost" /\ UNCHANGED gap

\* A start that failed may be stopped either way: its caller knows.
Stop == \/ life = "recording" /\ life' = "stopped" /\ gap' = "no"
        \/ life = "lost" /\ life' = "stopped" /\ gap' = "yes"
        \/ life = "idle" /\ life' = "stopped" /\ gap' \in {"no", "yes"}

Next == Start \/ Lose \/ Stop
Spec == Init /\ [][Next]_<<life, gap>>
=============================================================================
