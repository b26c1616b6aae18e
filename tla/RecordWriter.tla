---------------------------- MODULE RecordWriter ----------------------------
(* PcapRecordWriter (tools/goodix_pipe_capture.py) as its thread uses it: bytes
   come in chunks cut anywhere, whole good records go to disk. A byte range the
   code looks at as one is a cell: the global header is two, so that it can be
   cut, and a record three, the two halves of its header and its body. *)
EXTENDS Naturals, Sequences, FiniteSets, FiniteSetsExt

CONSTANTS
  Corruptions,  \* the defects a record of the stream may have
  MaxFaults     \* bound on corruption, failing reads and writes, and a crash

VARIABLES
  stream,     \* the records USBPcapCMD writes, in order
  badHeader,  \* its global header is none of classic little-endian USBPcap
  arrived,    \* cells fed to the writer
  taken,      \* of these, no longer in writer.pending
  records,    \* writer.records
  header,     \* writer.header_written
  error,      \* writer.error is set
  disk,       \* cells in the file
  unflushed,  \* cells a failed write left in the file object's buffer: all or,
              \* when they never fitted it, none
  readError,  \* the OSError the thread saw, by the call that raised it
  life,       \* "open", then how the file was left
  faults

writerVars == <<arrived, taken, records, header, error, disk, unflushed, readError, life>>

\* Why feed() refuses a record: from its header, or once it is whole.
HeaderDefects == {"oversize", "short", "captured", "micros"}
ASSUME CorruptionsAssumption == Corruptions \subseteq HeaderDefects \cup {"hlen"}

-----------------------------------------------------------------------------
\* The cells that end with record i, and the record whole in d cells.
End(i) == 2 + 3 * i
WholeIn(d) == IF d < 2 THEN 0 ELSE (d - 2) \div 3
Torn(d) == d \notin {End(i) : i \in 0..Len(stream)}

\* Records feed() objects to while n cells have arrived.
Refused(n) ==
  {i \in DOMAIN stream : \/ stream[i].defect \in HeaderDefects /\ n >= End(i) - 1
                         \/ stream[i].defect = "hlen" /\ n >= End(i)}

\* The records feed() gets through: the whole ones before the first refused one.
Passed(n) == Min({WholeIn(n)} \cup {i - 1 : i \in Refused(n)})

\* commit: up to the last whole record; what is left is pending.
\* CommitAll and CommitEarly are slips the runs must find.
CommitAll(n) == n
CommitEarly(n) == End(Passed(n) + 1)
Commit(n) == End(Passed(n))

Feed ==
  /\ life = "open" /\ ~error /\ readError = "none"
  /\ \E n \in arrived + 1 .. End(Len(stream)) :
       /\ arrived' = n
       /\ IF n < 2 THEN UNCHANGED <<taken, records, header, error, disk, unflushed, readError, life, faults>>
          ELSE IF badHeader
          THEN error' = TRUE /\ UNCHANGED <<taken, records, header, disk, unflushed, readError, life, faults>>
          ELSE /\ records' = Passed(n)
               /\ \/ \* write() and flush()
                     /\ disk' = Commit(n) /\ header' = TRUE
                     /\ error' = (Refused(n) # {})
                     /\ taken' = IF error' THEN n ELSE Commit(n)
                     /\ UNCHANGED <<unflushed, readError, life, faults>>
                  \/ \* an OSError, after any part of it
                     /\ faults < MaxFaults /\ faults' = faults + 1
                     /\ Commit(n) > disk /\ disk' \in disk .. Commit(n) - 1
                     /\ unflushed' \in {0, Commit(n) - disk'} /\ readError' = "write"
                     /\ UNCHANGED <<taken, header, error, life>>
                  \/ \* the controller dies in it
                     /\ faults < MaxFaults /\ faults' = faults + 1
                     /\ Commit(n) > disk /\ disk' \in disk .. Commit(n)
                     /\ life' = "crashed"
                     /\ UNCHANGED <<taken, header, error, unflushed, readError>>

\* PeekNamedPipe or os.read() fails.
ReadFails ==
  /\ life = "open" /\ ~error /\ readError = "none"
  /\ faults < MaxFaults /\ faults' = faults + 1
  /\ readError' = "read"
  /\ UNCHANGED <<arrived, taken, records, header, error, disk, unflushed, life>>

\* close(), whenever the recorder has ended or stop() was called: pending bytes
\* are dropped; the file object tries once more to write what it still holds.
Close ==
  /\ life = "open"
  /\ \/ life' = "closed" /\ disk' = disk + unflushed
     \/ /\ unflushed > 0 /\ life' = "raised"
        /\ disk' \in disk .. disk + unflushed - 1
  /\ unflushed' = disk + unflushed - disk'
  /\ UNCHANGED <<arrived, taken, records, header, error, readError, faults>>

WriterInit ==
  /\ arrived = 0 /\ taken = 0 /\ records = 0 /\ header = FALSE /\ error = FALSE
  /\ disk = 0 /\ unflushed = 0 /\ readError = "none" /\ life = "open"

Writer == Feed \/ ReadFails \/ Close

\* stop_report["output_valid"] and ["discarded_partial_bytes"].
OutputValid == life = "closed" /\ header /\ ~error /\ readError = "none"
Discarded == arrived - taken

WriterTypeOK ==
  /\ arrived \in 0..End(Len(stream)) /\ taken \in 0..arrived /\ disk \in 0..arrived
  /\ records \in 0..Len(stream) /\ unflushed \in 0..arrived - disk
  /\ {header, error, badHeader} \subseteq BOOLEAN /\ readError \in {"none", "read", "write"}
  /\ life \in {"open", "closed", "raised", "crashed"} /\ faults \in 0..MaxFaults
=============================================================================
