----------------------------- MODULE CaptureFile -----------------------------
(* One segment from the bus to the tools: the hub's requests, the records
   USBPcap makes of them, the writer that puts whole records on disk
   (RecordWriter) and what the offline tools (OfflineTools) then say of the
   file, at every record they have read. The bus and USBPcap are outside the
   repository; they are modelled as the tools expect them: an IRP pointer names
   one request from submission to completion and is used again, and a record
   may be missing (the window opened between the two, or USBPcap's buffer was
   full). The writer sees nothing of the bus but the stream, so the steps of the
   bus are taken first; the recorder may end after any byte of what they left. *)
EXTENDS RecordWriter, OfflineTools

CONSTANTS
  Windows,    \* what the host may do in a window: requests in submission order
  Snaplen,    \* payload bytes USBPcapCMD keeps of a record (-s, less the headers)
  MaxLost     \* bound on missing records

VARIABLES
  requests,   \* what it does in this one
  submitted,  \* requests submitted
  flight,     \* IRP -> the request it carries, None when it is free
  lost        \* records missing from the stream, as <<request, completion>>

busVars == <<requests, submitted, flight, lost>>
vars == <<stream, badHeader, faults, busVars, writerVars, toolVars>>

ASSUME WindowsAssumption ==
  Windows \subseteq Seq([bulk : BOOLEAN, ours : BOOLEAN, ep : Nat, framed : BOOLEAN, length : Nat])
ASSUME IrpsAssumption == IsFiniteSet(Irps)
ASSUME BoundsAssumption == MaxLost \in Nat /\ MaxFaults \in Nat /\ Snaplen \in Nat

-----------------------------------------------------------------------------
\* An OUT request carries its bytes in the submission, an IN one (an endpoint
\* from 0x80) in the completion.
Record(q, irp, completion, defect) ==
  LET r == requests[q]
      length == IF (r.ep >= 128) = completion THEN r.length ELSE 0
  IN  [request |-> q, irp |-> irp, bulk |-> r.bulk, completion |-> completion, ep |-> r.ep,
       ours |-> r.ours, framed |-> r.framed, length |-> length,
       kept |-> IF length > Snaplen THEN Snaplen ELSE length, defect |-> defect]

\* The record reaches the stream, good or corrupt, or is missing from it.
Recorded(q, irp, completion) ==
  \/ \E defect \in {"none"} \cup Corruptions :
       /\ IF defect = "none" THEN UNCHANGED faults
          ELSE faults < MaxFaults /\ faults' = faults + 1
       /\ stream' = Append(stream, Record(q, irp, completion, defect))
       /\ UNCHANGED lost
  \/ /\ Cardinality(lost) < MaxLost
     /\ lost' = lost \cup {<<q, completion>>}
     /\ UNCHANGED <<stream, faults>>

Submit(irp) ==
  /\ arrived = 0 /\ life = "open" /\ submitted < Len(requests) /\ flight[irp] = None
  /\ submitted' = submitted + 1 /\ flight' = [flight EXCEPT ![irp] = submitted']
  /\ Recorded(submitted', irp, FALSE)
  /\ UNCHANGED <<requests, badHeader, writerVars, toolVars>>

Complete(irp) ==
  /\ arrived = 0 /\ life = "open" /\ flight[irp] # None
  /\ flight' = [flight EXCEPT ![irp] = None]
  /\ Recorded(flight[irp], irp, TRUE)
  /\ UNCHANGED <<requests, submitted, badHeader, writerVars, toolVars>>

OnDisk == SubSeq(stream, 1, WholeIn(disk))
Readable == life # "open" /\ disk > 0 /\ ~Torn(disk)    \* else the tools raise

\* The tools go on to the next record of the file.
ReadRecord ==
  /\ Readable /\ read < Len(OnDisk)
  /\ ReadNext(OnDisk[read + 1])
  /\ UNCHANGED <<stream, badHeader, faults, busVars, writerVars>>

Init ==
  /\ requests \in Windows
  /\ submitted = 0 /\ flight = [irp \in Irps |-> None] /\ lost = {}
  /\ stream = <<>> /\ badHeader \in BOOLEAN
  /\ faults = (IF badHeader THEN 1 ELSE 0) /\ faults <= MaxFaults
  /\ WriterInit /\ ToolsInit

Next ==
  \/ \E irp \in Irps : Submit(irp) \/ Complete(irp)
  \/ /\ Feed \/ ReadFails \/ Close
     /\ UNCHANGED <<stream, badHeader, busVars, toolVars>>
  \/ ReadRecord

Spec == Init /\ [][Next]_vars

-----------------------------------------------------------------------------
\* Values; no two pointers carry one request, what has no record was due one,
\* and the tools are within the file.
TypeOK ==
  /\ WriterTypeOK
  /\ submitted \in 0..Len(requests)
  /\ \A irp \in Irps : flight[irp] \in 0..submitted
  /\ \A a, b \in Irps : flight[a] = flight[b] => a = b \/ flight[a] = None
  /\ lost \subseteq (1..submitted) \X BOOLEAN /\ Cardinality(lost) <= MaxLost
  /\ Len(stream) + Cardinality(lost) = 2 * submitted - Cardinality({irp \in Irps : flight[irp] # None})
  /\ read \in 0..WholeIn(disk) /\ Len(named) \in 0..read /\ Len(cycles) \in 0..read
  /\ \A irp \in Irps : pending[irp] \in 0..Len(cycles)

\* The file ends between two records wherever the recorder is stopped or the
\* controller dies, unless a write itself failed or was cut (docs/
\* WINDOWS_CAPTURE_CLI.md: a forced recorder exit cannot leave a torn record on
\* disk), and nothing good is lost before what is bad: every whole record that
\* arrived ahead of the first defect is in it. When the report says
\* output_valid, the file is every whole record that arrived, its count is the
\* report's, what is missing is the report's discarded bytes, and no offline
\* tool raises at it: feed() and the tools, each with checks of its own, draw
\* one line.
FileIsPrefix ==
  /\ readError # "write" /\ life # "crashed" =>
       /\ disk = 0 \/ ~Torn(disk)
       /\ ~badHeader => \A i \in 1..WholeIn(arrived) :
            (\A k \in 1..i : stream[k].defect = "none") => End(i) <= disk
  /\ OutputValid =>
       /\ disk = End(records) /\ records = WholeIn(arrived)
       /\ Discarded = arrived - disk
       /\ \A tool \in Tools : Accepts(tool, OnDisk, Torn(disk))

\* index_bulk_cycles pairs by IRP pointer alone. Though pointers are used again
\* and records are missing, a cycle joins the submission and completion of one
\* request, except where that submission's own completion and the completion's
\* own submission are both missing; every request with both records is a cycle;
\* no two cycles have one label; every bulk record is in exactly one. All of it
\* holds of every beginning of the file, and so of the file.
CyclesAreReal ==
  LET rs == SubSeq(stream, 1, read)
      Paired(c) == c.submitted # None /\ c.completed # None
  IN  /\ \A n \in DOMAIN cycles : Paired(cycles[n]) =>
           LET s == rs[cycles[n].submitted].request
               c == rs[cycles[n].completed].request
           IN  s = c \/ {<<s, TRUE>>, <<c, FALSE>>} \subseteq lost
      /\ \A i, j \in BulkIndex(rs) :
           (i < j /\ rs[i].request = rs[j].request) =>
             \E n \in DOMAIN cycles : cycles[n].submitted = i /\ cycles[n].completed = j
      /\ \A m, n \in DOMAIN cycles :
           (cycles[m].operation = cycles[n].operation /\ cycles[m].number = cycles[n].number) => m = n
      /\ \A i \in BulkIndex(rs) : Cardinality({n \in DOMAIN cycles :
           i \in {cycles[n].submitted, cycles[n].completed}}) = 1

\* The tools' answers about a file that ends between two records can be joined:
\* none raises, as feed() let nothing bad through even where a write failed
\* later; record_index means the same record to each; the two that name IRPs
\* give a record the same name; an envelope or command is at a record the
\* others see as its submission or completion. summarize_capture, on whose count
\* the operator is told that the reader was heard, counts the reader's transfers:
\* each one whose data was kept whole, once, though it has two records, and none
\* of another device that uses endpoints of the same number. Its count covers the
\* large ones and, of the envelopes, those of the reader whose payload is whole;
\* the envelope tools also find the other devices' and what snaplen cut.
ToolsAgree ==
  LET rs == SubSeq(stream, 1, read)
      Side(completion) == {e.index : e \in {f \in ToSet(named) : f.completion = completion}}
      DataRead(q) == \E i \in DOMAIN rs :
        rs[i].request = q /\ rs[i].completion = (requests[q].ep = InData)
      Transfers == {q \in 1..submitted :
        /\ requests[q].bulk /\ requests[q].ours /\ requests[q].ep \in {OutData, InData}
        /\ requests[q].length \in 1..Snaplen /\ DataRead(q)}
      WholeOfReader(found) == {i \in found : rs[i].ours /\ rs[i].kept = rs[i].length}
      summary == Summary(rs)
  IN  /\ Readable => \A tool \in Tools : Accepts(tool, OnDisk, FALSE)
      /\ {e.index : e \in ToSet(named)} = BulkIndex(rs)
      /\ \A c \in ToSet(cycles), e \in ToSet(named) :
           e.index \in {c.submitted, c.completed} =>
             e.operation = c.operation /\ (e.completion <=> e.index = c.completed)
      /\ OutboundCommands(rs) \subseteq OutboundEnvelopes(rs)
      /\ OutboundEnvelopes(rs) \subseteq Side(FALSE)
      /\ SmallInboundCommands(rs) \subseteq SmallInboundEnvelopes(rs)
      /\ SmallInboundEnvelopes(rs) \subseteq Side(TRUE)
      /\ summary.reader_data_records = Cardinality(Transfers)
      /\ Cardinality(WholeOfReader(OutboundEnvelopes(rs) \cup SmallInboundEnvelopes(rs)))
           + summary.large_reader_in_records <= summary.reader_data_records
=============================================================================
