---------------------------- MODULE FrameBuffer ----------------------------
(* USBWire.receive() and receive_window(): frames put together again from USB
   transfers that may carry several of them, end inside one (even inside its
   4-byte header), or end in zero padding.

   A byte is a cell <<frame number, position>>, so that a byte out of its place
   is seen as such; the bytes of no other place make a valid header. ReaderRun
   works with whole frames (ReaderLink); here it is shown that it may. *)
EXTENDS Naturals, Sequences, FiniteSets

CONSTANTS Header,     \* cells of a USB frame header: 4 bytes in the code
          MaxBody,    \* cells of the largest body: MAX_FRAME in the code
          Limit,      \* cells wire.buffer may hold: 65536 bytes in the code
          MaxPad,     \* bound on the zero bytes at the end of a transfer
          MaxFrames   \* bound on the frames of a run

ASSUME SizesAssumption == {Header, MaxBody, Limit, MaxPad, MaxFrames} \subseteq Nat \ {0}
ASSUME LimitAssumption == Limit >= Header + MaxBody

Pad == <<0, 0>>
Cells == {Pad} \cup ((1..MaxFrames) \X (1..Header + MaxBody))

VARIABLES sizes,    \* body size of each frame the reader has sent so far
          wire,     \* cells on their way
          buffer,   \* wire.buffer
          received, \* the frames receive() has returned
          state,    \* "idle", "receiving", or how receive() failed
          lost      \* a chunk or the buffer has been thrown away

vars == <<sizes, wire, buffer, received, state, lost>>

Failures == {"invalid_usb_frame_header", "invalid_usb_read_size", "partial"}

From(s, n) == SubSeq(s, n, Len(s))
LastOf(c) == c[2] = Header + sizes[c[1]]       \* the last cell of its frame

Init == /\ sizes = <<>> /\ wire = <<>> /\ buffer = <<>> /\ received = <<>>
        /\ state = "idle" /\ lost = FALSE

\* The reader (external) sends its next frame.
ReaderSends ==
  /\ Len(sizes) < MaxFrames
  /\ \E n \in 1..MaxBody :
       /\ sizes' = Append(sizes, n)
       /\ wire' = wire \o [k \in 1..Header + n |-> <<Len(sizes) + 1, k>>]
  /\ UNCHANGED <<buffer, received, state, lost>>

Call == /\ state = "idle" /\ state' = "receiving"
        /\ UNCHANGED <<sizes, wire, buffer, received, lost>>

-----------------------------------------------------------------------------
(* One turn of receive()'s loop. *)

HeaderThere == Len(buffer) >= Header
HeaderOk == \A k \in 1..Header : buffer[k] = <<buffer[1][1], k>>
FrameSizeOfBody == sizes[buffer[1][1]]
FrameSize == Header + sizes[buffer[1][1]]
FrameThere == HeaderThere /\ HeaderOk /\ Len(buffer) >= FrameSize
MoreNeeded == HeaderThere => HeaderOk /\ Len(buffer) < FrameSize

\* What is kept behind the frame returned: padding is not.
AllKept(rest) == rest
NoneKept(rest) == <<>>
Kept(rest) == IF \A k \in DOMAIN rest : rest[k] = Pad THEN <<>> ELSE rest

Return ==
  /\ state = "receiving" /\ FrameThere
  /\ received' = Append(received, buffer[1][1])
  /\ buffer' = Kept(From(buffer, FrameSize + 1))
  /\ state' = "idle"
  /\ UNCHANGED <<sizes, wire, lost>>

BadHeader ==
  /\ state = "receiving" /\ HeaderThere /\ ~HeaderOk
  /\ state' = "invalid_usb_frame_header"
  /\ UNCHANGED <<sizes, wire, buffer, received, lost>>

\* Padding fills up the last packet behind the end of a frame.
Transfer(n, p) == SubSeq(wire, 1, n) \o [k \in 1..p |-> Pad]
Chunks == {Transfer(n, p) : n \in 0..Len(wire), p \in 0..MaxPad}
Padded(chunk, n) == Len(chunk) > n => n > 0 /\ LastOf(chunk[n])

FitsAlone(chunk) == chunk # <<>> /\ Len(chunk) <= Limit
Fits(chunk) == chunk # <<>> /\ Len(buffer) + Len(chunk) <= Limit

Read ==
  /\ state = "receiving" /\ MoreNeeded
  /\ \E chunk \in Chunks :
       LET n == Cardinality({k \in DOMAIN chunk : chunk[k] # Pad})
       IN  /\ Padded(chunk, n)
           /\ wire' = From(wire, n + 1)
           /\ IF Fits(chunk)
              THEN buffer' = buffer \o chunk /\ UNCHANGED <<state, lost>>
              ELSE /\ state' = "invalid_usb_read_size" /\ lost' = (lost \/ n > 0)
                   /\ UNCHANGED buffer
  /\ UNCHANGED <<sizes, received>>

\* The transfer's 2 s, or the window, are over: with nothing buffered the caller
\* goes on (receive_or_timeout, receive_window), else a frame was cut short.
ReadTimeout ==
  /\ state = "receiving" /\ MoreNeeded
  /\ state' = IF buffer = <<>> THEN "idle" ELSE "partial"
  /\ UNCHANGED <<sizes, wire, buffer, received, lost>>

\* fdt_down's handler, after a failure or Ctrl-C: wire.buffer = b''. Ctrl-C may
\* take a transfer that has just completed with it.
Discard ==
  /\ ~lost \/ state = "invalid_usb_read_size"
  /\ \/ UNCHANGED wire
     \/ state = "receiving" /\ MoreNeeded /\ \E n \in 1..Len(wire) : wire' = From(wire, n + 1)
  /\ buffer' = <<>> /\ state' = "idle" /\ lost' = TRUE
  /\ UNCHANGED <<sizes, received>>

Next == ReaderSends \/ Call \/ Return \/ BadHeader \/ Read \/ ReadTimeout \/ Discard

Spec == Init /\ [][Next]_vars
-----------------------------------------------------------------------------
TypeOK ==
  /\ sizes \in Seq(1..MaxBody) /\ Len(sizes) <= MaxFrames
  /\ wire \in Seq(Cells \ {Pad})
  /\ buffer \in Seq(Cells) /\ Len(buffer) <= Limit
  /\ received \in Seq(1..MaxFrames)
  /\ state \in {"idle", "receiving"} \cup Failures
  /\ lost \in BOOLEAN

\* The frames come back in the order they were sent, each once; and until bytes
\* are thrown away there is no gap: what was not returned is still to come.
InOrder ==
  /\ \A i, j \in DOMAIN received : i < j => received[i] < received[j]
  /\ ~lost =>
       /\ \A i \in DOMAIN received : received[i] = i
       /\ Len(received) + Cardinality({c \in {buffer[k] : k \in DOMAIN buffer}
                                          \cup {wire[k] : k \in DOMAIN wire} : c[2] = 1})
            = Len(sizes)

\* However the bytes are cut into transfers and padded, the tool finds fault
\* with a header only after bytes were thrown away.
NoFalseHeader == state = "invalid_usb_frame_header" => lost

-----------------------------------------------------------------------------
(* ReaderLink's view: whole frames, of which `got` are in the buffer. A frame
   whose head was thrown away is its "bad" one. *)

\* Nothing reads the buffer once the chunk behind it is lost.
readable == IF state = "invalid_usb_read_size" THEN <<>> ELSE buffer

FramesOf(s) == {s[k][1] : k \in DOMAIN s} \ {0}
Coming == FramesOf(readable) \cup FramesOf(wire)
Complete == FramesOf(readable) \ FramesOf(wire)
first == IF readable # <<>> THEN readable[1] ELSE wire[1]

BadFrame == <<"bad", "TLS">>
linkPipe == [j \in 1..Cardinality(Coming) |->
               IF j = 1 /\ first[2] # 1 THEN BadFrame ELSE <<"frame", first[1] + j - 1>>]
linkGot == IF Len(readable) < Header THEN 0 ELSE Cardinality(Complete)
linkSplit == linkGot < Cardinality(FramesOf(readable))

Link == INSTANCE ReaderLink WITH
  pipe <- linkPipe, got <- linkGot, split <- linkSplit,
  fdt <- "off", seen <- <<>>, faults <- 0, mode <- <<>>, armed <- <<>>, sent <- <<>>,
  Leftovers <- {}, MaxFaults <- 0

\* Every step of the reassembly is a Transfer, Consume, Discard or LostTransfer
\* of ReaderLink, or a frame appended by the reader: ReaderRun's frames are safe.
ReceiveIsLink ==
  [][Link!Transfer \/ (Link!Ready /\ Link!Consume) \/ Link!Discard \/ Link!LostTransfer
     \/ (UNCHANGED <<linkGot, linkSplit>> /\ linkPipe' = Append(linkPipe, <<"frame", Len(sizes) + 1>>))
    ]_<<linkPipe, linkGot, linkSplit>>
=============================================================================
