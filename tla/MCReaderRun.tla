---------------------------- MODULE MCReaderRun ----------------------------
(* Instances of ReaderRun for TLC. *)
EXTENDS ReaderRun

\* A command line for every phase of the script. The plain "down" one is left out:
\* its runs are those of "up" and "touch" whose event window closes empty, or
\* go from the event to disarm(), which ReaderRun_interrupt visits.
AllRequests == {{}, {"query", "pre"}, {"query", "image", "save"},
                {"query", "manual", "down", "up"}, {"query", "manual", "down", "touch", "save"}}
DownRequest == {{"query", "manual", "down"}}

\* An unread ACK of an earlier run; its event comes with fdt = "down".
StaleFrames == {Ack(SleepMode)}
NoFrames == {}
=============================================================================
