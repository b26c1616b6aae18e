----------------------------- MODULE ReaderLink -----------------------------
(* The reader and its bulk-IN pipe, as tools/goodix_handshake.py uses them.

   The reader (external) answers each command frame with an ACK and, for some
   commands, a reply; after 3.1 or 3.2 it is armed and sends one unrequested
   event when the finger lands or lifts. Its frames come in order but at its
   own pace, and a transfer may carry several of them or end inside one.

   The receive side of USBWire: `got` frames of `pipe` are complete in
   wire.buffer, and when `split` the head of the next one is there too. *)
EXTENDS Naturals, Sequences, UsbWire

CONSTANTS Leftovers,  \* frames an earlier run may have left unread in the reader
          MaxFaults   \* bound on misbehaviour of reader and USB in one run

\* "odd" parses as a frame but is none the tool accepts; the tail of a frame
\* whose head was thrown away ("bad") has an invalid USB frame header.
Ack(c)   == <<"ack", c>>
Reply(c) == <<"reply", c>>
Tls      == <<"tls", "TLS">>
Data     == <<"data", "TLS">>
Odd      == <<"odd", "TLS">>
Bad      == <<"bad", "TLS">>

Frame == ({"ack", "reply"} \X Command) \cup {Tls, Data, Odd, Bad}

ASSUME LeftoversAssumption == Leftovers \subseteq Frame
ASSUME MaxFaultsAssumption == MaxFaults \in Nat

VARIABLES pipe,    \* frames the reader has sent or is about to send, in order
          got, split,
          fdt,     \* what the reader is armed for: "off", "down" or "up"
          seen,    \* seen[c]: how many c frames the reader has taken
          faults   \* faults so far

sensorVars == <<fdt, seen>>
bufferVars == <<got, split>>
pipeVars   == <<pipe, got, split>>

LinkInit == /\ fdt \in {"off", "down"}        \* an earlier 3.1 survives a reboot
            /\ pipe \in {<<>>} \cup {<<f>> : f \in Leftovers}
            /\ seen = [c \in Command |-> 0]
            /\ got = 0 /\ split = FALSE /\ faults = 0

-----------------------------------------------------------------------------
(* The reader. *)

\* What a healthy reader sends for c; a NOP may go unanswered.
Answers(c) ==
  CASE c = "NOP" -> {<<>>, <<Ack(c)>>}
    [] c \in {"A8", FdtManual} -> {<<Ack(c), Reply(c)>>}
    [] c = StateQuery -> {<<Ack(c), Reply(c)>>, <<Ack(c), Data>>}
    [] c = "D0" -> {<<Ack(c), Tls>>}
    [] c = "TLS" -> {<<>>, <<Tls>>}
    [] c = GetImage -> {<<Ack(c), Data>>}
    [] OTHER -> {<<Ack(c)>>}

\* The reader takes the frame c off the OUT pipe.
Take(c) ==
  /\ seen' = [seen EXCEPT ![c] = @ + 1]
  /\ \E a \in Answers(c) : pipe' = pipe \o a
  /\ fdt' = CASE c = FdtDown -> "down" [] c = FdtUp -> "up"
              [] c = SleepMode -> "off" [] OTHER -> fdt

\* The finger lands or lifts on an armed reader: one event, then disarmed.
Finger == /\ fdt # "off"
          /\ pipe' = Append(pipe, Reply(IF fdt = "down" THEN FdtDown ELSE FdtUp))
          /\ fdt' = "off"
          /\ UNCHANGED <<seen, bufferVars, faults>>

\* The next frame to come is lost, or something else comes in its place.
Misdeliver ==
  /\ Len(pipe) > got /\ ~split /\ faults < MaxFaults
  /\ faults' = faults + 1
  /\ \/ \E f \in {Odd, Bad} : pipe' = [pipe EXCEPT ![got + 1] = f]
     \/ pipe' = SubSeq(pipe, 1, got) \o SubSeq(pipe, got + 2, Len(pipe))
  /\ UNCHANGED <<fdt, seen, bufferVars>>

Reader == Finger \/ Misdeliver

-----------------------------------------------------------------------------
(* wire.buffer. *)

Ready      == got > 0             \* receive() returns without a transfer
BufferUsed == got > 0 \/ split

\* One IN transfer while no whole frame is buffered: it completes some frames
\* and may end inside the next one. What is not transferred may still be with
\* the reader, so a read may time out instead.
Transfer ==
  /\ ~Ready
  /\ \E n \in 0..Len(pipe), s \in BOOLEAN :
       /\ s => n < Len(pipe)
       /\ n > 0 \/ (s /\ ~split)
       /\ got' = n /\ split' = s
  /\ UNCHANGED pipe

\* receive() returns the first buffered frame.
Consume == pipe' = Tail(pipe) /\ got' = got - 1 /\ UNCHANGED split

\* fdt_down's handler empties wire.buffer: whole frames are gone, and what is
\* still to come of a split one no longer starts with a header.
Discard ==
  LET rest == SubSeq(pipe, got + 1, Len(pipe))
  IN  /\ pipe' = IF split THEN [rest EXCEPT ![1] = Bad] ELSE rest
      /\ got' = 0 /\ split' = FALSE

\* A transfer that completes as Ctrl-C or an error ends the read: what it
\* carried is gone. Nothing reads the buffer after that but Discard.
LostTransfer ==
  /\ ~Ready
  /\ \E n \in 0..Len(pipe), s \in BOOLEAN :
       LET rest == SubSeq(pipe, n + 1, Len(pipe))
       IN  /\ s => n < Len(pipe)
           /\ pipe' = IF s THEN [rest EXCEPT ![1] = Bad] ELSE rest
  /\ got' = 0 /\ split' = FALSE

LinkTypeOK == /\ pipe \in Seq(Frame)
              /\ fdt \in {"off", "down", "up"}
              /\ seen \in [Command -> Nat]
              /\ got \in 0..Len(pipe) /\ split \in BOOLEAN
              /\ split => got < Len(pipe)
              /\ faults \in 0..MaxFaults
=============================================================================
