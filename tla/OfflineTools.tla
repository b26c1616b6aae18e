---------------------------- MODULE OfflineTools ----------------------------
(* The tools that read a stopped capture (tools/usbpcap_bulk_*.py, tools/
   goodix_*_envelopes.py and _commands.py, tools/pcap_metadata.py, and
   summarize_capture of tools/goodix_capture_core.py). A record of the file is
     [irp, bulk, completion, ep, ours, framed, length, kept, defect]:
   the IRP pointer, whether it is a bulk transfer, the PDO-to-FDO bit, the
   endpoint, whether the address is one of the segment's targets (the recorder
   takes every device of the hub), whether the payload begins with flags 0xa0,
   the payload bytes its header names and those of them that are in the record.
   The two tools that keep a table of pointers are loops over the records; the
   others answer from each record alone and are functions of rs, the records in
   order. *)
EXTENDS Naturals, Sequences, FiniteSets, SequencesExt

CONSTANT Irps   \* the IRP pointers

VARIABLES
  read,        \* record_index of both loops: the records they have read
  aliases,     \* correlate_bulk_transfers: the pointers, in order of appearance,
  named,       \* and its records
  operations,  \* index_bulk_cycles: the same table of its own,
  counts,      \* the cycles of each pointer,
  pending,     \* the cycle a completion of the pointer ends,
  cycles       \* and all cycles

toolVars == <<read, aliases, named, operations, counts, pending, cycles>>

None == 0
Tools == {"metadata", "index", "correlation", "cycles", "envelopes", "commands", "summary"}

\* The records a tool raises at; it reads every other field as it comes.
RefusedBy(tool) ==
  CASE tool = "metadata" -> {}
    [] tool = "summary" -> {"short", "captured", "micros", "hlen"}
    [] OTHER -> {"short", "hlen"}

\* A tool's whole answer: it raises at a file that ends inside a record.
Accepts(tool, rs, torn) == ~torn /\ \A i \in DOMAIN rs : rs[i].defect \notin RefusedBy(tool)

-----------------------------------------------------------------------------
\* bulk_transfers: record_index counts every record of the file.
BulkOnly(rs) == SelectSeq(rs, LAMBDA r : r.bulk)
IndexOfBulk(rs) == DOMAIN BulkOnly(rs)    \* a slip the runs must find
BulkIndex(rs) == {i \in DOMAIN rs : rs[i].bulk}

\* aliases.setdefault(): a name is the pointer's place in the table.
SetDefault(table, irp) == IF Contains(table, irp) THEN table ELSE Append(table, irp)
Operation(table, irp) == CHOOSE n \in DOMAIN table : table[n] = irp

-----------------------------------------------------------------------------
\* correlate_bulk_transfers, with the next record.
Correlate(r) ==
  IF r.bulk
  THEN /\ aliases' = SetDefault(aliases, r.irp)
       /\ named' = Append(named, [index |-> read + 1, operation |-> Operation(aliases', r.irp),
                                  completion |-> r.completion])
  ELSE UNCHANGED <<aliases, named>>

\* index_bulk_cycles, with the next record.
NewCycle(irp, submitted, completed) ==
  /\ counts' = [counts EXCEPT ![irp] = @ + 1]
  /\ cycles' = Append(cycles, [operation |-> Operation(operations', irp), number |-> counts'[irp],
                               submitted |-> submitted, completed |-> completed])

\* A slip the runs must find: the submission still pending is kept.
SubmissionOnce(irp) ==
  /\ NewCycle(irp, read + 1, None)
  /\ pending' = IF pending[irp] # None THEN pending ELSE [pending EXCEPT ![irp] = Len(cycles')]
Submission(irp) ==
  /\ NewCycle(irp, read + 1, None)
  /\ pending' = [pending EXCEPT ![irp] = Len(cycles')]

Completion(irp) ==
  IF pending[irp] # None
  THEN /\ cycles' = [cycles EXCEPT ![pending[irp]].completed = read + 1]
       /\ pending' = [pending EXCEPT ![irp] = None]
       /\ UNCHANGED counts
  ELSE NewCycle(irp, None, read + 1) /\ UNCHANGED pending

Pair(r) ==
  IF r.bulk
  THEN /\ operations' = SetDefault(operations, r.irp)
       /\ IF r.completion THEN Completion(r.irp) ELSE Submission(r.irp)
  ELSE UNCHANGED <<operations, counts, pending, cycles>>

\* One turn of the two loops. They share nothing but a file that no longer
\* changes, and raise at the same records: taken side by side, each has its own
\* answer for every beginning of the file.
ReadNext(r) ==
  /\ r.defect \notin RefusedBy("correlation") \cup RefusedBy("cycles")
  /\ read' = read + 1
  /\ Correlate(r) /\ Pair(r)

ToolsInit ==
  /\ read = 0 /\ aliases = <<>> /\ named = <<>>
  /\ operations = <<>> /\ cycles = <<>>
  /\ counts = [irp \in Irps |-> 0] /\ pending = [irp \in Irps |-> None]

-----------------------------------------------------------------------------
OutData == 1      \* the endpoints of the reader's two bulk pipes: 0x01
InData == 130     \* and 0x82; another device may well have the same

\* An OUT submission, or an IN completion of at most 64 bytes, with the four
\* bytes of an envelope; with a fifth, under 0xa0 flags, a command. These tools
\* name the bus and device of what they find and select neither.
Outbound(r, least) ==
  r.bulk /\ r.ep = OutData /\ ~r.completion /\ r.length >= least /\ r.kept >= least
SmallInbound(r, least) ==
  r.bulk /\ r.ep = InData /\ r.completion /\ r.length \in least..64 /\ r.kept >= least

OutboundEnvelopes(rs) == {i \in DOMAIN rs : Outbound(rs[i], 4)}
OutboundCommands(rs) == {i \in DOMAIN rs : Outbound(rs[i], 5) /\ rs[i].framed}
SmallInboundEnvelopes(rs) == {i \in DOMAIN rs : SmallInbound(rs[i], 4)}
SmallInboundCommands(rs) == {i \in DOMAIN rs : SmallInbound(rs[i], 5) /\ rs[i].framed}

\* summarize_capture: the reader's records by its addresses, and those of them
\* that carry a transfer's data, whole, on the side that has it.
ReaderRecord(r) == r.bulk /\ r.ours /\ r.ep \in {OutData, InData}
DataSide(r) == (r.ep = OutData /\ ~r.completion) \/ (r.ep = InData /\ r.completion)
\* AnyDevice is a slip the runs must find.
AnyDevice(r) == r.bulk /\ r.ep \in {OutData, InData} /\ r.length > 0 /\ r.kept >= r.length /\ DataSide(r)
DataRecord(r) == ReaderRecord(r) /\ r.length > 0 /\ r.kept >= r.length /\ DataSide(r)
DataRecords(rs) == {i \in DOMAIN rs : DataRecord(rs[i])}
LargeRecords(rs) == {i \in DataRecords(rs) : rs[i].ep = InData /\ rs[i].length > 128}

Summary(rs) ==
  [record_count |-> Len(rs),
   reader_bulk_records |-> Cardinality({i \in DOMAIN rs : ReaderRecord(rs[i])}),
   reader_data_records |-> Cardinality(DataRecords(rs)),
   large_reader_in_records |-> Cardinality(LargeRecords(rs))]
=============================================================================
