------------------------- MODULE CaptureFile_proofs -------------------------
(* Theorems about the capture file, for any windows of requests, any number of
   pointers, missing records and faults, and any defects of the records. *)
EXTENDS CaptureFile, FiniteSetTheorems, SequenceTheorems, WellFoundedInduction, TLAPS

-----------------------------------------------------------------------------
(* Cells and whole records. *)

LEMMA WholeIs ==
  ASSUME NEW n \in Nat
  PROVE  /\ WholeIn(n) \in Nat
         /\ n < 2 => WholeIn(n) = 0
         /\ n >= 2 => End(WholeIn(n)) <= n /\ n < End(WholeIn(n) + 1)
<1>1. CASE n < 2
  BY <1>1 DEF WholeIn
<1>2. CASE n >= 2
  <2>1. WholeIn(n) = (n - 2) \div 3
    BY <1>2 DEF WholeIn
  <2> QED BY <1>2, <2>1 DEF End
<1> QED BY <1>1, <1>2

LEMMA WholeOfEnd == ASSUME NEW i \in Nat PROVE WholeIn(End(i)) = i
<1>1. End(i) \in Nat /\ End(i) >= 2
  BY DEF End
<1>2. WholeIn(End(i)) \in Nat /\ End(WholeIn(End(i))) <= End(i) /\ End(i) < End(WholeIn(End(i)) + 1)
  BY <1>1, WholeIs
<1> QED BY <1>2 DEF End

LEMMA WholeWithin == ASSUME NEW m \in Nat, NEW n \in 0..End(m) PROVE WholeIn(n) \in 0..m
<1>1. n \in Nat /\ n <= 2 + 3 * m
  BY DEF End
<1>2. CASE n < 2
  BY <1>1, <1>2, WholeIs
<1>3. CASE n >= 2
  <2>1. WholeIn(n) \in Nat /\ 2 + 3 * WholeIn(n) <= n
    BY <1>1, <1>3, WholeIs DEF End
  <2> QED BY <1>1, <2>1
<1> QED BY <1>1, <1>2, <1>3

\* A set of numbers has a least one.
LEMMA Least ==
  ASSUME NEW S \in SUBSET Nat, S # {}
  PROVE  Min(S) \in S /\ \A y \in S : Min(S) <= y
<1>1. PICK x \in S : \A y \in S : ~(<<y, x>> \in OpToRel(<, Nat))
  BY NatLessThanWellFounded, WFMin
<1>2. \A y \in S : ~(y < x)
  BY <1>1 DEF OpToRel
<1>3. \A y \in S : x <= y
  BY <1>2
<1> QED BY <1>3 DEF Min

\* The stream is a sequence.
Stream == \E S : stream \in Seq(S)

LEMMA StreamIs == ASSUME Stream PROVE Len(stream) \in Nat /\ DOMAIN stream = 1..Len(stream)
BY DEF Stream

\* feed() gets through whole records only, none that it refuses, and through
\* all of them when it refuses none.
LEMMA PassedIs ==
  ASSUME Stream, NEW n \in 0..End(Len(stream)), n >= 2
  PROVE  /\ Passed(n) \in 0..WholeIn(n) /\ Passed(n) \in 0..Len(stream)
         /\ Commit(n) \in 2..n /\ WholeIn(Commit(n)) = Passed(n)
         /\ Refused(n) = {} => Passed(n) = WholeIn(n)
         /\ \A i \in 1..Passed(n) : i \notin Refused(n)
         /\ \A j \in 0..WholeIn(n) : (\A i \in Refused(n) : j < i) => j <= Passed(n)
<1>1. /\ n \in Nat /\ Len(stream) \in Nat /\ DOMAIN stream = 1..Len(stream)
      /\ WholeIn(n) \in 0..Len(stream) /\ End(WholeIn(n)) <= n
  <2>1. n \in Nat /\ Len(stream) \in Nat /\ DOMAIN stream = 1..Len(stream)
    BY StreamIs DEF End
  <2> QED BY <2>1, WholeIs, WholeWithin
<1> DEFINE S == {WholeIn(n)} \cup {i - 1 : i \in Refused(n)}
<1>2. S \subseteq Nat
  <2>1. \A i \in Refused(n) : i \in 1..Len(stream)
    BY <1>1 DEF Refused
  <2>2. \A i \in Refused(n) : i - 1 \in Nat
    BY <1>1, <2>1
  <2> QED BY <1>1, <2>2
<1>3. /\ Min(S) \in S /\ Min(S) <= WholeIn(n) /\ Min(S) \in Nat
      /\ \A i \in Refused(n) : Min(S) <= i - 1
  <2>1. S # {} /\ WholeIn(n) \in S /\ \A i \in Refused(n) : i - 1 \in S
    OBVIOUS
  <2> HIDE DEF S
  <2> QED BY <1>2, <2>1, Least
<1>4. Passed(n) = Min(S)
  BY DEF Passed
<1>10. ASSUME NEW j \in 0..WholeIn(n), \A i \in Refused(n) : j < i PROVE j <= Passed(n)
  <2>1. \A i \in Refused(n) : i \in Int
    BY <1>1 DEF Refused
  <2>2. CASE Min(S) = WholeIn(n)
    BY <1>1, <1>3, <1>4, <2>2
  <2>3. ASSUME NEW i \in Refused(n), Min(S) = i - 1 PROVE j <= Passed(n)
    BY <1>1, <1>3, <1>4, <1>10, <2>1, <2>3
  <2> QED BY <1>3, <2>2, <2>3
<1>5. Refused(n) = {} => Passed(n) = WholeIn(n)
  BY <1>3, <1>4
<1> HIDE DEF S
<1>6. Passed(n) \in 0..WholeIn(n) /\ Passed(n) \in 0..Len(stream)
  BY <1>1, <1>3, <1>4
<1>7. Commit(n) \in 2..n
  BY <1>1, <1>6 DEF Commit, End
<1>8. WholeIn(Commit(n)) = Passed(n)
  BY <1>6, WholeOfEnd DEF Commit
<1>9. \A i \in 1..Passed(n) : i \notin Refused(n)
  BY <1>3, <1>4
<1> QED BY <1>5, <1>6, <1>7, <1>8, <1>9, <1>10

-----------------------------------------------------------------------------
(* Types. *)

Busy == {irp \in Irps : flight[irp] # None}

\* A request in flight is still due its completion.
Bus ==
  /\ Stream
  /\ requests \in Windows /\ submitted \in 0..Len(requests)
  /\ flight \in [Irps -> 0..submitted]
  /\ \A a, b \in Irps : flight[a] = flight[b] => a = b \/ flight[a] = None
  /\ lost \subseteq (1..submitted) \X BOOLEAN /\ IsFiniteSet(lost) /\ Cardinality(lost) <= MaxLost
  /\ \A irp \in Irps : <<flight[irp], TRUE>> \notin lost
  /\ Len(stream) + Cardinality(lost) = 2 * submitted - Cardinality(Busy)

\* A record missing is one more missing, and a record in the stream one more there.
LEMMA RecordedIs ==
  ASSUME Stream, IsFiniteSet(lost), Cardinality(lost) <= MaxLost, faults \in 0..MaxFaults,
         NEW q, NEW irp, NEW completion, <<q, completion>> \notin lost, Recorded(q, irp, completion)
  PROVE  /\ Stream' /\ faults' \in 0..MaxFaults
         /\ IsFiniteSet(lost') /\ Cardinality(lost') <= MaxLost
         /\ lost' \subseteq lost \cup {<<q, completion>>}
         /\ Len(stream') + Cardinality(lost') = Len(stream) + Cardinality(lost) + 1
         /\ Len(stream) <= Len(stream')
         /\ Len(stream) \in Nat /\ Len(stream') \in Nat /\ Cardinality(lost) \in Nat /\ Cardinality(lost') \in Nat
<1>1. Cardinality(lost) \in Nat /\ Len(stream) \in Nat
  BY FS_CardinalityType, StreamIs
<1>2. ASSUME NEW x, stream' = Append(stream, x), lost' = lost
      PROVE  Stream' /\ Len(stream') = Len(stream) + 1
  <2>1. PICK S : stream \in Seq(S)
    BY DEF Stream
  <2>2. stream \in Seq(S \cup {x})
    BY <2>1
  <2>3. stream' \in Seq(S \cup {x}) /\ Len(stream') = Len(stream) + 1
    BY <1>2, <2>2, AppendProperties
  <2> QED BY <2>3 DEF Stream
<1>3. ASSUME Cardinality(lost) < MaxLost, lost' = lost \cup {<<q, completion>>}
      PROVE  IsFiniteSet(lost') /\ Cardinality(lost') = Cardinality(lost) + 1
  BY <1>3, FS_AddElement
<1>4. faults' \in 0..MaxFaults
  BY BoundsAssumption DEF Recorded
<1>5. CASE lost' = lost
  <2>1. <<q, completion>> \in lost \cup {<<q, completion>>}
    OBVIOUS
  <2>2. \E x : stream' = Append(stream, x)
    BY <1>5, <2>1 DEF Recorded
  <2>3. Stream' /\ Len(stream') = Len(stream) + 1
    BY <1>2, <1>5, <2>2
  <2>4. Cardinality(lost') = Cardinality(lost) /\ IsFiniteSet(lost')
    BY <1>5
  <2> QED BY <1>1, <1>4, <1>5, <2>3, <2>4
<1>6. CASE lost' # lost
  <2>1. Cardinality(lost) < MaxLost /\ lost' = lost \cup {<<q, completion>>} /\ stream' = stream
    BY <1>6 DEF Recorded
  <2>2. IsFiniteSet(lost') /\ Cardinality(lost') = Cardinality(lost) + 1
    BY <1>3, <2>1
  <2>3. Stream'
    BY <2>1 DEF Stream
  <2> QED BY <1>1, <1>4, <2>1, <2>2, <2>3, BoundsAssumption
<1> QED BY <1>5, <1>6

LEMMA SubmitBus ==
  ASSUME Bus, faults \in 0..MaxFaults, NEW irp \in Irps, Submit(irp)
  PROVE  Bus' /\ faults' \in 0..MaxFaults /\ Len(stream') \in Nat /\ Len(stream) <= Len(stream')
<1>1. /\ submitted \in Nat /\ Len(requests) \in Nat /\ submitted < Len(requests)
      /\ submitted' = submitted + 1 /\ requests' = requests
      /\ flight' = [flight EXCEPT ![irp] = submitted + 1] /\ flight[irp] = None
      /\ Recorded(submitted + 1, irp, FALSE)
  <2>1. Len(requests) \in Nat
    BY WindowsAssumption DEF Bus
  <2>2. submitted \in Nat /\ submitted' = submitted + 1
    BY <2>1 DEF Submit, Bus
  <2>3. Recorded(submitted + 1, irp, FALSE)
    BY <2>2 DEF Submit, Recorded, Record
  <2> QED BY <2>1, <2>2, <2>3 DEF Submit
<1>2. <<submitted + 1, FALSE>> \notin lost
  BY <1>1 DEF Bus
<1>3. /\ Stream' /\ faults' \in 0..MaxFaults
      /\ IsFiniteSet(lost') /\ Cardinality(lost') <= MaxLost
      /\ lost' \subseteq lost \cup {<<submitted + 1, FALSE>>}
      /\ Len(stream') + Cardinality(lost') = Len(stream) + Cardinality(lost) + 1
      /\ Len(stream) <= Len(stream')
      /\ Len(stream) \in Nat /\ Len(stream') \in Nat /\ Cardinality(lost) \in Nat /\ Cardinality(lost') \in Nat
  BY <1>1, <1>2, RecordedIs DEF Bus
<1>4. lost' \subseteq (1..submitted') \X BOOLEAN
  <2>1. \A i \in 1..submitted : i \in 1..submitted'
    BY <1>1
  <2>2. submitted + 1 \in 1..submitted'
    BY <1>1
  <2>3. (1..submitted) \X BOOLEAN \subseteq (1..submitted') \X BOOLEAN
    BY <2>1
  <2>4. <<submitted + 1, FALSE>> \in (1..submitted') \X BOOLEAN
    BY <2>2
  <2>5. lost \subseteq (1..submitted) \X BOOLEAN
    BY DEF Bus
  <2> QED BY <1>3, <2>3, <2>4, <2>5
<1>5. flight' \in [Irps -> 0..submitted'] /\ submitted' \in 0..Len(requests)
  BY <1>1 DEF Bus
<1>6. \A a \in Irps : flight'[a] = IF a = irp THEN submitted + 1 ELSE flight[a]
  BY <1>1 DEF Bus
<1>7. \A a \in Irps : flight[a] \in Nat /\ flight[a] # submitted + 1
  BY <1>1 DEF Bus
<1>8. \A a, b \in Irps : flight'[a] = flight'[b] => a = b \/ flight'[a] = None
  BY <1>6, <1>7 DEF Bus
<1>9. \A a \in Irps : <<flight'[a], TRUE>> \notin lost'
  <2>1. <<submitted + 1, TRUE>> \notin lost
    BY <1>1 DEF Bus
  <2>2. \A a \in Irps : <<flight'[a], TRUE>> \notin lost
    BY <1>6, <2>1 DEF Bus
  <2> QED BY <1>3, <2>2
<1>10. Cardinality(Busy') = Cardinality(Busy) + 1 /\ Cardinality(Busy) \in Nat
  <2>1. IsFiniteSet(Busy) /\ irp \notin Busy
    BY <1>1, FS_Subset, IrpsAssumption DEF Busy
  <2>2. Busy' = Busy \cup {irp}
    BY <1>1, <1>6 DEF Busy, None
  <2> QED BY <2>1, <2>2, FS_AddElement, FS_CardinalityType
<1>11. Len(stream') + Cardinality(lost') = 2 * submitted' - Cardinality(Busy')
  <2>1. Len(stream) + Cardinality(lost) = 2 * submitted - Cardinality(Busy)
    BY DEF Bus
  <2> QED BY <1>1, <1>3, <1>10, <2>1
<1> QED BY <1>1, <1>3, <1>4, <1>5, <1>8, <1>9, <1>11 DEF Bus

LEMMA CompleteBus ==
  ASSUME Bus, faults \in 0..MaxFaults, NEW irp \in Irps, Complete(irp)
  PROVE  Bus' /\ faults' \in 0..MaxFaults /\ Len(stream') \in Nat /\ Len(stream) <= Len(stream')
<1>1. /\ submitted \in Nat /\ submitted' = submitted /\ requests' = requests
      /\ flight' = [flight EXCEPT ![irp] = None] /\ flight[irp] # None /\ flight[irp] \in 1..submitted
      /\ Recorded(flight[irp], irp, TRUE)
  <2>1. submitted \in Nat /\ flight[irp] \in 0..submitted
    <3>1. Len(requests) \in Nat
      BY WindowsAssumption DEF Bus
    <3> QED BY <3>1 DEF Bus
  <2>2. Recorded(flight[irp], irp, TRUE) /\ flight[irp] # None /\ flight' = [flight EXCEPT ![irp] = None]
        /\ submitted' = submitted /\ requests' = requests
    BY Zenon DEF Complete
  <2>3. flight[irp] \in 1..submitted
    BY <2>1, <2>2 DEF None
  <2> QED BY <2>1, <2>2, <2>3
<1>2. /\ Stream' /\ faults' \in 0..MaxFaults
      /\ IsFiniteSet(lost') /\ Cardinality(lost') <= MaxLost
      /\ lost' \subseteq lost \cup {<<flight[irp], TRUE>>}
      /\ Len(stream') + Cardinality(lost') = Len(stream) + Cardinality(lost) + 1
      /\ Len(stream) <= Len(stream')
      /\ Len(stream) \in Nat /\ Len(stream') \in Nat /\ Cardinality(lost) \in Nat /\ Cardinality(lost') \in Nat
  BY <1>1, RecordedIs DEF Bus
<1>3. lost' \subseteq (1..submitted) \X BOOLEAN
  <2>1. <<flight[irp], TRUE>> \in (1..submitted) \X BOOLEAN
    BY <1>1
  <2>2. lost \subseteq (1..submitted) \X BOOLEAN
    BY DEF Bus
  <2> QED BY <1>2, <2>1, <2>2
<1>4. flight' \in [Irps -> 0..submitted]
  BY <1>1 DEF Bus, None
<1>5. \A a \in Irps : flight'[a] = IF a = irp THEN None ELSE flight[a]
  BY <1>1 DEF Bus
<1>6. \A a, b \in Irps : flight'[a] = flight'[b] => a = b \/ flight'[a] = None
  BY <1>5 DEF Bus
<1>7. \A a \in Irps : <<flight'[a], TRUE>> \notin lost'
  <2>1. <<None, TRUE>> \notin lost /\ None # flight[irp]
    BY <1>1 DEF Bus, None
  <2>2. \A a \in Irps : flight'[a] # flight[irp] /\ <<flight'[a], TRUE>> \notin lost
    BY <1>1, <1>5, <2>1 DEF Bus
  <2> QED BY <1>2, <2>2
<1>8. Cardinality(Busy') = Cardinality(Busy) - 1 /\ Cardinality(Busy) \in Nat
  <2>1. IsFiniteSet(Busy) /\ irp \in Busy
    BY <1>1, FS_Subset, IrpsAssumption DEF Busy
  <2>2. Busy' = Busy \ {irp}
    BY <1>5 DEF Busy
  <2> QED BY <2>1, <2>2, FS_RemoveElement, FS_CardinalityType
<1>9. Len(stream') + Cardinality(lost') = 2 * submitted - Cardinality(Busy')
  <2>1. Len(stream) + Cardinality(lost) = 2 * submitted - Cardinality(Busy)
    BY DEF Bus
  <2> QED BY <1>1, <1>2, <1>8, <2>1
<1> QED BY <1>1, <1>2, <1>3, <1>4, <1>6, <1>7, <1>9 DEF Bus

\* One chunk fed: nothing but a header that is cut or wrong, whole records
\* written, a write that fails, or the end of the controller in it.
Nothing(n) == /\ \/ n < 2 /\ error' = error
                 \/ n >= 2 /\ badHeader /\ error' = TRUE
              /\ UNCHANGED <<taken, records, header, disk, unflushed, readError, life, faults>>
Written(n) == /\ records' = Passed(n) /\ disk' = Commit(n) /\ header' = TRUE
              /\ error' = (Refused(n) # {}) /\ (error' => taken' = n) /\ (~error' => taken' = Commit(n))
              /\ UNCHANGED <<unflushed, readError, life, faults>>
Cut(n) == /\ records' = Passed(n) /\ faults < MaxFaults /\ faults' = faults + 1
          /\ Commit(n) > disk /\ UNCHANGED <<taken, header, error>>
          /\ \/ /\ disk' \in disk .. Commit(n) - 1 /\ (unflushed' = 0 \/ unflushed' = Commit(n) - disk')
                /\ readError' = "write" /\ UNCHANGED life
             \/ disk' \in disk .. Commit(n) /\ life' = "crashed" /\ UNCHANGED <<unflushed, readError>>

LEMMA FeedIs ==
  ASSUME Feed
  PROVE  /\ life = "open" /\ ~error /\ readError = "none"
         /\ \E n \in arrived + 1 .. End(Len(stream)) :
              arrived' = n /\ (Nothing(n) \/ (n >= 2 /\ ~badHeader /\ (Written(n) \/ Cut(n))))
<1>1. PICK n \in arrived + 1 .. End(Len(stream)) :
        /\ arrived' = n
        /\ IF n < 2 THEN UNCHANGED <<taken, records, header, error, disk, unflushed, readError, life, faults>>
           ELSE IF badHeader
           THEN error' = TRUE /\ UNCHANGED <<taken, records, header, disk, unflushed, readError, life, faults>>
           ELSE /\ records' = Passed(n)
                /\ \/ /\ disk' = Commit(n) /\ header' = TRUE
                      /\ error' = (Refused(n) # {})
                      /\ taken' = IF error' THEN n ELSE Commit(n)
                      /\ UNCHANGED <<unflushed, readError, life, faults>>
                   \/ /\ faults < MaxFaults /\ faults' = faults + 1
                      /\ Commit(n) > disk /\ disk' \in disk .. Commit(n) - 1
                      /\ unflushed' \in {0, Commit(n) - disk'} /\ readError' = "write"
                      /\ UNCHANGED <<taken, header, error, life>>
                   \/ /\ faults < MaxFaults /\ faults' = faults + 1
                      /\ Commit(n) > disk /\ disk' \in disk .. Commit(n)
                      /\ life' = "crashed"
                      /\ UNCHANGED <<taken, header, error, unflushed, readError>>
  BY DEF Feed
<1>2. life = "open" /\ ~error /\ readError = "none" /\ (n < 2 \/ n >= 2)
  <2>1. arrived + 1 .. End(Len(stream)) \subseteq Int
    OBVIOUS
  <2> QED BY <2>1 DEF Feed
<1>3. CASE n < 2
  <2>1. Nothing(n)
    BY <1>1, <1>3, Zenon DEF Nothing
  <2> QED BY <1>1, <1>2, <2>1
<1>4. CASE ~(n < 2) /\ badHeader
  <2>1. Nothing(n)
    BY <1>1, <1>2, <1>4, Zenon DEF Nothing
  <2> QED BY <1>1, <1>2, <2>1
<1>5. CASE ~(n < 2) /\ ~badHeader
  <2>1. Written(n) \/ Cut(n)
    BY <1>1, <1>5 DEF Written, Cut
  <2> QED BY <1>1, <1>2, <1>5, <2>1
<1> QED BY <1>2, <1>3, <1>4, <1>5, <1>1

\* The counts, and the flags.
Cells == /\ arrived \in 0..End(Len(stream)) /\ taken \in 0..arrived /\ disk \in 0..arrived
         /\ records \in 0..Len(stream) /\ unflushed \in 0..arrived - disk /\ faults \in 0..MaxFaults
Flags == /\ {header, error, badHeader} \subseteq BOOLEAN /\ readError \in {"none", "read", "write"}
         /\ life \in {"open", "closed", "raised", "crashed"}

\* What a failed write left to be written again.
Leftover == life = "open" /\ readError # "write" => unflushed = 0

LEMMA WriterCells ==
  ASSUME Stream, Cells, Leftover, Writer, UNCHANGED stream
  PROVE  Cells' /\ Leftover'
<1>1. /\ Len(stream) \in Nat /\ End(Len(stream)) \in Nat
      /\ arrived \in Nat /\ arrived <= End(Len(stream))
      /\ taken \in Nat /\ taken <= arrived /\ disk \in Nat /\ disk <= arrived
      /\ unflushed \in Nat /\ unflushed <= arrived - disk /\ faults \in Nat /\ faults <= MaxFaults
  BY StreamIs, BoundsAssumption DEF Cells, End
<1>2. ASSUME NEW n \in arrived + 1 .. End(Len(stream)), life = "open", readError = "none", arrived' = n,
             Nothing(n) \/ (n >= 2 /\ (Written(n) \/ Cut(n)))
      PROVE  Cells' /\ Leftover'
  <2>1. n \in Nat /\ arrived < n /\ n <= End(Len(stream)) /\ unflushed = 0
    BY <1>1, <1>2 DEF Leftover
  <2>2. CASE Nothing(n)
    <3>1. UNCHANGED <<taken, records, disk, unflushed, faults, readError, life>>
      BY <2>2 DEF Nothing
    <3>2. Cells'
      BY <1>1, <1>2, <2>1, <3>1 DEF Cells
    <3> QED BY <2>1, <3>1, <3>2 DEF Leftover
  <2>3. ASSUME n >= 2, Written(n) \/ Cut(n) PROVE Cells' /\ Leftover'
    <3>1. Passed(n) \in 0..Len(stream) /\ Commit(n) \in Nat /\ Commit(n) <= n /\ records' = Passed(n)
      BY <1>1, <2>1, <2>3, PassedIs DEF Written, Cut
    <3>2. CASE Written(n)
      <4>1. disk' = Commit(n) /\ (taken' = n \/ taken' = Commit(n)) /\ faults' = faults /\ unflushed' = unflushed
        BY <3>2 DEF Written
      <4>2. Cells'
        BY <1>1, <1>2, <2>1, <3>1, <4>1 DEF Cells
      <4> QED BY <2>1, <4>1, <4>2 DEF Leftover
    <3>3. CASE Cut(n)
      <4>1. /\ taken' = taken /\ faults < MaxFaults /\ faults' = faults + 1 /\ Commit(n) > disk
            /\ disk' \in disk .. Commit(n) - 1 \/ disk' \in disk .. Commit(n)
            /\ unflushed' = 0 \/ unflushed' = Commit(n) - disk'
        BY <2>1, <3>3 DEF Cut
      <4>2. disk' \in Nat /\ disk' <= Commit(n)
        BY <1>1, <3>1, <4>1
      <4>3. disk' \in 0..n /\ unflushed' \in 0..n - disk'
        BY <2>1, <3>1, <4>1, <4>2
      <4>4. Cells'
        <5>1. taken' \in 0..n /\ faults' \in 0..MaxFaults
          BY <1>1, <2>1, <4>1, BoundsAssumption
        <5>2. arrived' = n /\ n \in 0..End(Len(stream')) /\ records' \in 0..Len(stream')
          BY <1>1, <1>2, <2>1, <3>1
        <5> QED BY <4>3, <5>1, <5>2 DEF Cells
      <4>5. Leftover'
        BY <3>3 DEF Cut, Leftover
      <4> QED BY <4>4, <4>5
    <3> QED BY <2>3, <3>2, <3>3
  <2> QED BY <1>2, <2>2, <2>3
<1>3. CASE Feed
  BY <1>2, <1>3, FeedIs
<1>4. CASE ReadFails
  <2>1. /\ faults < MaxFaults /\ faults' = faults + 1
        /\ UNCHANGED <<arrived, taken, records, disk, unflushed>>
    BY <1>4 DEF ReadFails
  <2>2. Cells'
    BY <1>1, <2>1, BoundsAssumption DEF Cells
  <2>3. Leftover'
    BY <1>4 DEF ReadFails, Leftover
  <2> QED BY <2>2, <2>3
<1>5. CASE Close
  <2>1. /\ UNCHANGED <<arrived, taken, records, faults>>
        /\ unflushed' = disk + unflushed - disk'
        /\ disk' = disk + unflushed \/ disk' \in disk .. disk + unflushed - 1
        /\ life' # "open"
    BY <1>5 DEF Close
  <2>2. disk' \in 0..arrived /\ unflushed' \in 0..arrived - disk'
    BY <1>1, <2>1
  <2>3. Cells'
    BY <1>1, <2>1, <2>2 DEF Cells
  <2> QED BY <2>1, <2>3 DEF Leftover
<1> QED BY <1>3, <1>4, <1>5 DEF Writer

LEMMA WriterFlags == ASSUME Flags, Writer, UNCHANGED badHeader PROVE Flags'
<1>1. CASE Feed
  <2>1. PICK n : Nothing(n) \/ Written(n) \/ Cut(n)
    BY <1>1, FeedIs
  <2> QED BY <2>1 DEF Nothing, Written, Cut, Flags
<1>2. CASE ReadFails \/ Close
  BY <1>2 DEF ReadFails, Close, Flags
<1> QED BY <1>1, <1>2 DEF Writer

Types == Bus /\ Cells /\ Flags /\ Leftover

\* The bus moves only while the writer is as it was begun.
LEMMA BusTypes ==
  ASSUME Types, NEW irp \in Irps, Submit(irp) \/ Complete(irp)
  PROVE  Types' /\ arrived = 0 /\ UNCHANGED <<badHeader, writerVars, toolVars>>
<1>1. /\ Bus' /\ faults' \in 0..MaxFaults
      /\ Len(stream) \in Nat /\ Len(stream') \in Nat /\ Len(stream) <= Len(stream')
  BY SubmitBus, CompleteBus, StreamIs DEF Types, Cells, Bus
<1>2. arrived = 0 /\ UNCHANGED <<badHeader, writerVars, toolVars>>
  BY DEF Submit, Complete
<1>3. Flags' /\ Leftover'
  BY <1>2 DEF Types, Flags, Leftover, writerVars
<1>4. Cells'
  <2>1. UNCHANGED <<arrived, taken, records, disk, unflushed>>
    BY <1>2 DEF writerVars
  <2>2. 0 \in 0..End(Len(stream'))
    BY <1>1 DEF End
  <2>3. records \in 0..Len(stream')
    BY <1>1 DEF Types, Cells
  <2> QED BY <1>1, <1>2, <2>1, <2>2, <2>3 DEF Types, Cells
<1> QED BY <1>1, <1>2, <1>3, <1>4 DEF Types

LEMMA TypesStep == ASSUME Types, [Next]_vars PROVE Types'
<1>1. ASSUME NEW irp \in Irps, Submit(irp) \/ Complete(irp) PROVE Types'
  BY <1>1, BusTypes
<1>2. CASE Writer /\ UNCHANGED <<stream, badHeader, busVars>>
  <2>1. Bus'
    BY <1>2 DEF Types, Bus, Stream, Busy, busVars
  <2>2. Cells' /\ Leftover' /\ Flags'
    BY <1>2, WriterCells, WriterFlags DEF Types, Bus
  <2> QED BY <2>1, <2>2 DEF Types
<1>3. CASE ReadRecord \/ UNCHANGED vars
  <2>1. UNCHANGED <<stream, badHeader, faults, busVars, writerVars>>
    BY <1>3 DEF ReadRecord, vars
  <2> QED BY <2>1 DEF busVars, writerVars, Types, Bus, Stream, Busy, Cells, Flags, Leftover
<1> QED BY <1>1, <1>2, <1>3 DEF Next, Writer

LEMMA AlwaysTypes == Spec => []Types
<1>1. ASSUME Init PROVE Types
  <2>1. stream = <<>> /\ Len(stream) = 0 /\ Stream
    <3>1. stream \in Seq({})
      BY <1>1 DEF Init
    <3> QED BY <1>1, <3>1 DEF Init, Stream
  <2>2. Busy = {}
    BY <1>1 DEF Init, Busy
  <2>3. Cardinality(Busy) = 0 /\ Cardinality(lost) = 0 /\ IsFiniteSet(lost)
    BY <1>1, <2>2, FS_EmptySet DEF Init
  <2>4. Bus
    <3>1. Len(requests) \in Nat /\ requests \in Windows
      BY <1>1, WindowsAssumption DEF Init
    <3>2. flight \in [Irps -> 0..submitted] /\ submitted = 0 /\ lost = {} /\ \A irp \in Irps : flight[irp] = None
      BY <1>1 DEF Init, None
    <3> QED BY <2>1, <2>3, <3>1, <3>2, BoundsAssumption DEF Bus
  <2>5. Cells
    BY <1>1, <2>1, BoundsAssumption DEF Init, WriterInit, Cells, End
  <2>6. Flags /\ Leftover
    BY <1>1 DEF Init, WriterInit, Flags, Leftover
  <2> QED BY <2>4, <2>5, <2>6 DEF Types
<1> QED BY <1>1, TypesStep, PTL DEF Spec

-----------------------------------------------------------------------------
(* What is in the file. *)

\* While no call of the system has failed, the file is empty or ends with the
\* last record feed() got through, and the counters say so.
Kept ==
  readError # "write" /\ life # "crashed" =>
    IF header
    THEN /\ ~badHeader /\ arrived >= 2 /\ records = Passed(arrived) /\ disk = Commit(arrived)
         /\ error = FALSE => Refused(arrived) = {} /\ taken = disk
    ELSE disk = 0 /\ (arrived < 2 \/ badHeader)

LEMMA KeptStep == ASSUME Types, Kept, [Next]_vars PROVE Kept'
<1> USE DEF Types
<1>1. ASSUME NEW irp \in Irps, Submit(irp) \/ Complete(irp) PROVE Kept'
  <2>1. arrived = 0 /\ UNCHANGED writerVars
    BY <1>1, BusTypes
  <2>2. readError # "write" /\ life # "crashed" => ~header /\ disk = 0
    BY <2>1 DEF Kept
  <2> QED BY <2>1, <2>2 DEF Kept, writerVars
<1>2. CASE Feed /\ UNCHANGED <<stream, badHeader, busVars>>
  <2>1. PICK n \in arrived + 1 .. End(Len(stream)) :
          arrived' = n /\ (Nothing(n) \/ (n >= 2 /\ ~badHeader /\ (Written(n) \/ Cut(n))))
    BY <1>2, FeedIs
  <2>2. n \in Nat /\ arrived \in Nat /\ n > arrived /\ life = "open" /\ readError = "none"
    BY <1>2, FeedIs, StreamIs DEF Bus, Cells, End
  <2>3. CASE Nothing(n)
    <3>1. UNCHANGED <<header, disk>> /\ (n < 2 \/ badHeader)
      BY <2>3 DEF Nothing
    <3>2. ~header /\ disk = 0
      BY <2>2, <3>1 DEF Kept
    <3>3. arrived' < 2 \/ badHeader'
      BY <1>2, <2>1, <3>1
    <3> QED BY <3>1, <3>2, <3>3 DEF Kept
  <2>4. CASE n >= 2 /\ ~badHeader /\ Written(n)
    <3>1. records' = Passed(n) /\ disk' = Commit(n)
      BY <2>4 DEF Written
    <3>2. Refused(arrived)' = Refused(n) /\ Passed(arrived)' = Passed(n) /\ Commit(arrived)' = Commit(n)
      BY <1>2, <2>1 DEF Refused, Passed, Commit
    <3>3. error' = FALSE => Refused(n) = {} /\ taken' = Commit(n)
      BY <2>4 DEF Written
    <3>4. ~badHeader' /\ arrived' >= 2
      BY <1>2, <2>1, <2>4
    <3>5. header' = TRUE
      BY <2>4 DEF Written
    <3> HIDE DEF Types
    <3> QED BY <3>1, <3>2, <3>3, <3>4, <3>5 DEF Kept
  <2>5. CASE Cut(n)
    BY <2>5 DEF Cut, Kept
  <2> QED BY <2>1, <2>3, <2>4, <2>5
<1>3. CASE (ReadFails \/ ReadRecord \/ UNCHANGED vars) /\ UNCHANGED <<stream, badHeader>>
  <2>1. UNCHANGED <<stream, badHeader, arrived, taken, records, header, error, disk, life>>
    BY <1>3 DEF ReadFails, ReadRecord, vars, writerVars
  <2>2. readError' # "write" => readError # "write"
    BY <1>3 DEF ReadFails, ReadRecord, vars, writerVars
  <2> QED BY <2>1, <2>2 DEF Kept, Passed, Refused, Commit
<1>4. CASE Close /\ UNCHANGED <<stream, badHeader>>
  <2>1. readError # "write" => disk' = disk
    BY <1>4 DEF Close, Leftover, Cells
  <2>2. UNCHANGED <<arrived, taken, records, header, error, readError>> /\ life # "crashed"
    BY <1>4 DEF Close
  <2> QED BY <1>4, <2>1, <2>2 DEF Kept, Passed, Refused, Commit
<1> QED BY <1>1, <1>2, <1>3, <1>4 DEF Next, vars, ReadRecord

LEMMA AlwaysKept == Spec => []Kept
<1>1. Init => Kept
  BY DEF Init, WriterInit, Kept
<1> QED BY <1>1, KeptStep, AlwaysTypes, PTL DEF Spec

\* A record that feed() gets through has none of its defects.
LEMMA PassedAreGood ==
  ASSUME Stream, NEW n \in 0..End(Len(stream)), n >= 2, NEW i \in 1..Passed(n)
  PROVE  stream[i].defect \notin HeaderDefects \cup {"hlen"}
<1>1. /\ n \in Nat /\ Len(stream) \in Nat /\ WholeIn(n) \in 0..Len(stream) /\ End(WholeIn(n)) <= n
  <2>1. n \in Nat /\ Len(stream) \in Nat
    BY StreamIs DEF End
  <2> QED BY <2>1, WholeIs, WholeWithin
<1>2. Passed(n) \in 0..WholeIn(n) /\ i \notin Refused(n)
  BY PassedIs
<1>3. i \in DOMAIN stream /\ n >= End(i) /\ n >= End(i) - 1
  <2>1. i \in 1..Len(stream) /\ End(i) \in Nat /\ End(i) <= End(WholeIn(n))
    BY <1>1, <1>2 DEF End
  <2> QED BY <1>1, <2>1, StreamIs DEF End
<1> QED BY <1>2, <1>3 DEF Refused

\* What is on disk, or may still come there, feed() got through.
Good == \A i \in 1..WholeIn(disk + unflushed) : stream[i].defect \notin HeaderDefects \cup {"hlen"}

LEMMA WholeGrows == ASSUME NEW n \in Nat, NEW m \in 0..n PROVE WholeIn(m) <= WholeIn(n)
<1>1. /\ m \in Nat /\ WholeIn(m) \in Nat /\ WholeIn(n) \in Nat
      /\ m < 2 => WholeIn(m) = 0
      /\ m >= 2 => End(WholeIn(m)) <= m
      /\ n >= 2 => n < End(WholeIn(n) + 1)
  BY WholeIs
<1> QED BY <1>1 DEF End

LEMMA GoodStep == ASSUME Types, Good, [Next]_vars PROVE Good'
<1>1. /\ arrived \in Nat /\ disk \in Nat /\ unflushed \in Nat /\ disk + unflushed <= arrived
      /\ Stream /\ arrived <= End(Len(stream)) /\ Len(stream) \in Nat
  BY StreamIs DEF Types, Bus, Cells, End
<1>2. ASSUME NEW irp \in Irps, Submit(irp) \/ Complete(irp) PROVE Good'
  <2>1. arrived = 0 /\ disk' = disk /\ unflushed' = unflushed
    BY <1>2, BusTypes DEF writerVars
  <2>2. disk' + unflushed' = 0 /\ WholeIn(0) = 0
    BY <1>1, <2>1 DEF WholeIn
  <2>3. WholeIn(disk' + unflushed') = 0
    BY <2>2
  <2> QED BY <2>3 DEF Good
<1>3. CASE Feed /\ UNCHANGED stream
  <2>1. PICK n \in arrived + 1 .. End(Len(stream)) :
          arrived' = n /\ (Nothing(n) \/ (n >= 2 /\ ~badHeader /\ (Written(n) \/ Cut(n))))
    BY <1>3, FeedIs
  <2>2. n \in 0..End(Len(stream)) /\ n \in Nat /\ unflushed = 0
    BY <1>1, <1>3, FeedIs DEF Types, Leftover, End
  <2>3. CASE Nothing(n)
    BY <1>3, <2>3 DEF Nothing, Good
  <2>4. CASE n >= 2 /\ (Written(n) \/ Cut(n))
    <3>1. /\ Commit(n) \in Nat /\ WholeIn(Commit(n)) = Passed(n) /\ Passed(n) \in Nat
          /\ \A i \in 1..Passed(n) : stream[i].defect \notin HeaderDefects \cup {"hlen"}
      BY <1>1, <2>2, <2>4, PassedIs, PassedAreGood
    <3>2. disk' + unflushed' \in 0..Commit(n)
      <4>1. CASE Written(n)
        BY <1>1, <2>2, <3>1, <4>1 DEF Written
      <4>2. CASE Cut(n)
        <5>1. disk' \in disk .. Commit(n) /\ unflushed' \in {0, Commit(n) - disk'}
          BY <1>1, <2>2, <3>1, <4>2 DEF Cut
        <5>2. PICK c \in Nat, d \in Nat : d <= c /\ c = Commit(n) /\ d = disk'
          BY <1>1, <3>1, <5>1
        <5>3. d <= c
          BY <5>2, Zenon
        <5>4. d + 0 \in 0..c /\ d + (c - d) \in 0..c
          BY <5>3
        <5>5. unflushed' \in {0, c - d}
          BY <5>1, <5>2, Zenon
        <5>6. disk' + unflushed' \in {d + 0, d + (c - d)}
          BY <5>2, <5>5, Zenon
        <5> QED BY <5>2, <5>4, <5>6, Zenon
      <4> QED BY <2>4, <4>1, <4>2
    <3>3. PICK m \in 0..Commit(n) : m = disk' + unflushed'
      BY <3>2
    <3>4. WholeIn(m) <= Passed(n) /\ WholeIn(m) \in Nat
      BY <3>1, WholeGrows, WholeIs
    <3>5. \A i \in 1..WholeIn(m) : stream'[i].defect \notin HeaderDefects \cup {"hlen"}
      BY <1>3, <3>1, <3>4
    <3> QED BY <3>3, <3>5 DEF Good
  <2> QED BY <2>1, <2>3, <2>4
<1>4. CASE Close /\ UNCHANGED stream
  <2>1. unflushed' = disk + unflushed - disk' /\ disk' \in Nat
    <3>1. disk' = disk + unflushed \/ disk' \in disk .. disk + unflushed - 1
      BY <1>4 DEF Close
    <3> QED BY <1>1, <1>4, <3>1 DEF Close
  <2>2. disk' + unflushed' = disk + unflushed
    <3>1. PICK a \in Nat, b \in Nat, c \in Nat : a = disk /\ b = unflushed /\ c = disk'
      BY <1>1, <2>1
    <3>2. unflushed' = a + b - c
      BY <2>1, <3>1
    <3>3. c + (a + b - c) = a + b
      OBVIOUS
    <3> QED BY <3>1, <3>2, <3>3, Zenon
  <2>3. WholeIn(disk' + unflushed') = WholeIn(disk + unflushed)
    BY <2>2, Zenon
  <2> QED BY <1>4, <2>3 DEF Good
<1>5. CASE UNCHANGED <<stream, disk, unflushed>>
  BY <1>5 DEF Good
<1> QED BY <1>2, <1>3, <1>4, <1>5 DEF Next, ReadFails, ReadRecord, vars, writerVars

LEMMA AlwaysGood == Spec => []Good
<1>1. Init => Good
  BY DEF Init, WriterInit, Good, WholeIn
<1> QED BY <1>1, GoodStep, AlwaysTypes, PTL DEF Spec

\* The first records of the file, as the tools read them.
LEMMA FirstRecords ==
  ASSUME Stream, NEW n \in 0..Len(stream)
  PROVE  /\ DOMAIN SubSeq(stream, 1, n) = 1..n /\ Len(SubSeq(stream, 1, n)) = n
         /\ \A i \in 1..n : SubSeq(stream, 1, n)[i] = stream[i]
<1>1. PICK S : stream \in Seq(S)
  BY DEF Stream
<1> QED BY <1>1, StreamIs, SubSeqProperties

LEMMA FileWithin ==
  ASSUME Types
  PROVE  WholeIn(disk) \in 0..Len(stream) /\ WholeIn(disk) <= WholeIn(disk + unflushed)
<1>1. /\ disk \in Nat /\ disk + unflushed \in Nat /\ disk <= disk + unflushed
      /\ disk \in 0..End(Len(stream)) /\ Len(stream) \in Nat
  BY StreamIs DEF Types, Bus, Cells, End
<1> QED BY <1>1, WholeWithin, WholeGrows

\* None of the tools raises at a file that ends between two records.
LEMMA AllAccept == ASSUME Types, Good PROVE \A tool \in Tools : Accepts(tool, OnDisk, FALSE)
<1>1. WholeIn(disk) \in 0..Len(stream) /\ WholeIn(disk) <= WholeIn(disk + unflushed)
  BY FileWithin
<1>2. WholeIn(disk) \in Nat /\ WholeIn(disk + unflushed) \in Nat
  BY WholeIs DEF Types, Cells
<1>3. DOMAIN OnDisk = 1..WholeIn(disk) /\ \A i \in 1..WholeIn(disk) : OnDisk[i] = stream[i]
  BY <1>1, FirstRecords DEF OnDisk, Types, Bus
<1>4. \A i \in 1..WholeIn(disk) : stream[i].defect \notin HeaderDefects \cup {"hlen"}
  BY <1>1, <1>2 DEF Good
<1>5. \A tool \in Tools : RefusedBy(tool) \subseteq HeaderDefects \cup {"hlen"}
  BY DEF RefusedBy, HeaderDefects, Tools
<1> QED BY <1>3, <1>4, <1>5 DEF Accepts

\* The file ends between two records wherever the recorder stops, with every good
\* record that came before a bad one; when the report says it is valid, it is
\* what arrived, and every tool reads it.
THEOREM FileIsWhole == Spec => []FileIsPrefix
<1>1. Types /\ Kept /\ Good => FileIsPrefix
  <2> SUFFICES ASSUME Types, Kept, Good PROVE FileIsPrefix
    OBVIOUS
  <2>1. /\ Stream /\ Len(stream) \in Nat /\ arrived \in 0..End(Len(stream)) /\ arrived \in Nat
    BY StreamIs DEF Types, Bus, Cells, End
  <2>2. ASSUME readError # "write", life # "crashed" PROVE disk = 0 \/ ~Torn(disk)
    <3>1. CASE header
      <4>1. disk = End(Passed(arrived)) /\ arrived >= 2
        BY <2>2, <3>1 DEF Kept, Commit
      <4>2. Passed(arrived) \in 0..Len(stream)
        BY <2>1, <4>1, PassedIs
      <4> QED BY <4>1, <4>2 DEF Torn
    <3>2. CASE ~header
      BY <2>2, <3>2 DEF Kept
    <3> QED BY <3>1, <3>2
  <2>3. ASSUME readError # "write", life # "crashed", ~badHeader, NEW i \in 1..WholeIn(arrived),
               \A k \in 1..i : stream[k].defect = "none"
        PROVE  End(i) <= disk
    <3>1. arrived >= 2 /\ i <= Passed(arrived) /\ Passed(arrived) \in Nat /\ i \in Nat
      <4>1. arrived >= 2 /\ i \in Nat /\ i <= WholeIn(arrived) /\ WholeIn(arrived) \in 0..Len(stream)
        BY <2>1, WholeIs, WholeWithin
      <4>2. \A k \in Refused(arrived) : k \in 1..Len(stream) /\ i < k
        BY <2>1, <2>3, <4>1, StreamIs DEF Refused, HeaderDefects
      <4> QED BY <2>1, <4>1, <4>2, PassedIs
    <3>2. disk = End(Passed(arrived))
      <4>1. ~(arrived < 2)
        BY <2>1, <3>1
      <4> QED BY <2>3, <4>1 DEF Kept, Commit
    <3>3. PICK p \in Nat : p = Passed(arrived)
      BY <3>1
    <3>4. End(i) <= End(p)
      BY <3>1, <3>3 DEF End
    <3> QED BY <3>2, <3>3, <3>4
  <2>4. ASSUME OutputValid
        PROVE  /\ disk = End(records) /\ records = WholeIn(arrived)
               /\ Discarded = arrived - disk
               /\ \A tool \in Tools : Accepts(tool, OnDisk, Torn(disk))
    <3>1. /\ arrived >= 2 /\ records = Passed(arrived) /\ disk = Commit(arrived)
          /\ Refused(arrived) = {} /\ taken = disk
          /\ readError = "none" /\ life # "crashed" /\ header
      <4>1. error = FALSE
        BY <2>4 DEF OutputValid, Types, Flags
      <4> QED BY <2>4, <4>1 DEF OutputValid, Kept
    <3>2. records = WholeIn(arrived) /\ WholeIn(disk) = records /\ records \in 0..Len(stream)
      BY <2>1, <3>1, PassedIs
    <3>3. disk = End(records)
      BY <3>1 DEF Commit
    <3>4. ~Torn(disk)
      BY <3>2, <3>3 DEF Torn
    <3>5. \A tool \in Tools : Accepts(tool, OnDisk, Torn(disk))
      BY <3>4, AllAccept DEF Accepts
    <3> QED BY <3>1, <3>2, <3>3, <3>5 DEF Discarded
  <2> QED BY <2>2, <2>3, <2>4 DEF FileIsPrefix
<1> QED BY <1>1, AlwaysTypes, AlwaysKept, AlwaysGood, PTL

-----------------------------------------------------------------------------
(* The order of the records. *)

\* Record i's request has completed before record j: it is the completion, the
\* completion lies between, or is missing.
Ended(i, j) ==
  \/ stream[i].completion \/ <<stream[i].request, TRUE>> \in lost
  \/ \E k \in DOMAIN stream : i < k /\ k < j /\ stream[k].request = stream[i].request /\ stream[k].completion

\* Request q was submitted between records i and j.
Begun(q, i, j) ==
  \/ <<q, FALSE>> \in lost
  \/ \E k \in DOMAIN stream : i < k /\ k < j /\ stream[k].request = q /\ ~stream[k].completion

\* A record of request r: what it says of the request, and the bytes of its side.
Says(x, r) ==
  /\ x.bulk = r.bulk /\ x.ours = r.ours /\ x.ep = r.ep /\ x.length \in Nat /\ x.kept \in Nat
  /\ x.length = (IF (r.ep >= 128) = x.completion THEN r.length ELSE 0)
  /\ x.kept = (IF x.length > Snaplen THEN Snaplen ELSE x.length)

\* A record is one side of a request made, and not missing.
Sides ==
  \A i \in DOMAIN stream :
    /\ stream[i].request \in 1..submitted /\ stream[i].irp \in Irps /\ stream[i].completion \in BOOLEAN
    /\ Says(stream[i], requests[stream[i].request])
    /\ <<stream[i].request, stream[i].completion>> \notin lost

\* Two records of one request are its submission and its completion, of one
\* pointer; of two requests of one pointer, the one ended and the other began
\* in between.
Ordered ==
  \A i, j \in DOMAIN stream : i < j =>
    IF stream[i].request = stream[j].request
    THEN stream[i].irp = stream[j].irp /\ ~stream[i].completion /\ stream[j].completion
    ELSE stream[i].irp = stream[j].irp =>
           Ended(i, j) /\ (stream[j].completion => Begun(stream[j].request, i, j))

\* What a pointer carries has at most been submitted; the requests it carried
\* before have ended, and what it carries began after their records.
Carried ==
  \A p \in Irps : \A i \in DOMAIN stream :
    IF stream[i].request = flight[p]
    THEN stream[i].irp = p /\ ~stream[i].completion
    ELSE stream[i].irp = p =>
           Ended(i, Len(stream) + 1) /\ (flight[p] # None => Begun(flight[p], i, Len(stream) + 1))

Order == Sides /\ Ordered /\ Carried

\* What Recorded() does to the stream and to what is missing from it.
Appended(q, irp, completion) ==
  /\ lost' = lost /\ Len(stream') = Len(stream) + 1 /\ DOMAIN stream' = 1..Len(stream')
  /\ \A i \in DOMAIN stream : stream'[i] = stream[i]
  /\ LET r == stream'[Len(stream) + 1]
     IN  /\ r.request = q /\ r.irp = irp /\ r.completion = completion
         /\ Says(r, requests[q])
Missed(q, completion) == stream' = stream /\ lost' = lost \cup {<<q, completion>>}

LEMMA AppendedOrMissed ==
  ASSUME Stream, requests \in Windows, NEW q \in 1..Len(requests), NEW irp, NEW completion,
         Recorded(q, irp, completion)
  PROVE  Appended(q, irp, completion) \/ Missed(q, completion)
<1>1. requests[q].length \in Nat
  <2>1. requests \in Seq([bulk : BOOLEAN, ours : BOOLEAN, ep : Nat, framed : BOOLEAN, length : Nat])
    BY WindowsAssumption
  <2>2. requests[q] \in [bulk : BOOLEAN, ours : BOOLEAN, ep : Nat, framed : BOOLEAN, length : Nat]
    BY <2>1, ElementOfSeq
  <2> QED BY <2>2
<1>2. ASSUME NEW defect, stream' = Append(stream, Record(q, irp, completion, defect)), lost' = lost
      PROVE  Appended(q, irp, completion)
  <2> DEFINE x == Record(q, irp, completion, defect)
  <2>1. x.request = q /\ x.irp = irp /\ x.completion = completion
    BY DEF Record
  <2>6. Says(x, requests[q])
    BY <1>1, BoundsAssumption DEF Record, Says
  <2> HIDE DEF x
  <2>2. PICK S : stream \in Seq(S)
    BY DEF Stream
  <2>3. stream \in Seq(S \cup {x})
    BY <2>2
  <2>4. stream' = Append(stream, x)
    BY <1>2 DEF x
  <2>5. Len(stream') = Len(stream) + 1 /\ DOMAIN stream' = 1..Len(stream') /\ stream'[Len(stream) + 1] = x
        /\ \A i \in 1..Len(stream) : stream'[i] = stream[i]
    BY <2>3, <2>4, AppendProperties
  <2> QED BY <1>2, <2>1, <2>5, <2>6, StreamIs DEF Appended
<1>3. CASE \E defect \in {"none"} \cup Corruptions :
             stream' = Append(stream, Record(q, irp, completion, defect)) /\ lost' = lost
  BY <1>2, <1>3
<1>4. CASE stream' = stream /\ lost' = lost \cup {<<q, completion>>}
  BY <1>4 DEF Missed
<1> QED BY <1>3, <1>4, Zenon DEF Recorded

\* The stream grows at its end, and what is missing stays so.
Grew == /\ Len(stream) \in Nat /\ Len(stream') \in Nat /\ Len(stream) <= Len(stream')
        /\ DOMAIN stream = 1..Len(stream) /\ DOMAIN stream' = 1..Len(stream')
        /\ \A i \in DOMAIN stream : stream'[i] = stream[i]
        /\ lost \subseteq lost'

LEMMA Grows ==
  ASSUME Stream, NEW q, NEW irp, NEW completion,
         Appended(q, irp, completion) \/ Missed(q, completion)
  PROVE  Grew
<1>1. Len(stream) \in Nat /\ DOMAIN stream = 1..Len(stream)
  BY StreamIs
<1>2. Len(stream') \in Nat /\ DOMAIN stream' = 1..Len(stream')
  BY <1>1 DEF Appended, Missed
<1>3. Len(stream) <= Len(stream') /\ lost \subseteq lost' /\ \A i \in DOMAIN stream : stream'[i] = stream[i]
  BY <1>1 DEF Appended, Missed
<1> QED BY <1>1, <1>2, <1>3 DEF Grew

LEMMA EndedStays ==
  ASSUME Grew, NEW i \in DOMAIN stream, NEW j \in Nat, NEW m \in Nat, j <= m, Ended(i, j)
  PROVE  Ended(i, m)'
<1>1. stream'[i] = stream[i] /\ lost \subseteq lost'
  BY DEF Grew
<1>2. \A k \in DOMAIN stream : k \in DOMAIN stream' /\ stream'[k] = stream[k] /\ k \in Nat
  BY DEF Grew
<1>3. \A k \in Nat : k < j => k < m
  OBVIOUS
<1> QED BY <1>1, <1>2, <1>3 DEF Ended

LEMMA BegunStays ==
  ASSUME Grew, NEW q, NEW i, NEW j \in Nat, NEW m \in Nat, j <= m, Begun(q, i, j)
  PROVE  Begun(q, i, m)'
<1>1. \A k \in DOMAIN stream : k \in DOMAIN stream' /\ stream'[k] = stream[k] /\ k \in Nat
  BY DEF Grew
<1>2. \A k \in Nat : k < j => k < m
  OBVIOUS
<1> QED BY <1>1, <1>2 DEF Grew, Begun

\* What a step that records one side of q for irp must bring along.
Follows(q, irp, completion) ==
  \A i \in DOMAIN stream :
    IF stream[i].request = q
    THEN stream[i].irp = irp /\ ~stream[i].completion /\ completion
    ELSE stream[i].irp = irp =>
           Ended(i, Len(stream) + 1) /\ (completion => Begun(q, i, Len(stream) + 1))

LEMMA OrderedStays ==
  ASSUME Stream, Ordered, NEW q, NEW irp, NEW completion, Follows(q, irp, completion),
         Appended(q, irp, completion) \/ Missed(q, completion)
  PROVE  Ordered'
<1> SUFFICES ASSUME NEW i \in DOMAIN stream', NEW j \in DOMAIN stream', i < j
             PROVE  IF stream'[i].request = stream'[j].request
                    THEN stream'[i].irp = stream'[j].irp /\ ~stream'[i].completion /\ stream'[j].completion
                    ELSE stream'[i].irp = stream'[j].irp =>
                           Ended(i, j)' /\ (stream'[j].completion => Begun(stream[j].request, i, j)')
  BY DEF Ordered
<1>1. Grew
  BY Grows
<1>2. i \in Nat /\ j \in Nat
  BY <1>1 DEF Grew
<1>3. CASE j \in DOMAIN stream
  <2>1. i \in DOMAIN stream /\ stream'[i] = stream[i] /\ stream'[j] = stream[j]
    BY <1>1, <1>2, <1>3 DEF Grew
  <2>2. IF stream[i].request = stream[j].request
        THEN stream[i].irp = stream[j].irp /\ ~stream[i].completion /\ stream[j].completion
        ELSE stream[i].irp = stream[j].irp =>
               Ended(i, j) /\ (stream[j].completion => Begun(stream[j].request, i, j))
    BY <1>3, <2>1 DEF Ordered
  <2>3. Ended(i, j) => Ended(i, j)'
    BY <1>1, <1>2, <2>1, EndedStays
  <2>4. PICK r : r = stream[j].request
    OBVIOUS
  <2>5. Begun(r, i, j) => Begun(r, i, j)'
    BY <1>1, <1>2, BegunStays
  <2>6. stream'[j].request = r
    BY <2>1, <2>4
  <2>7. Begun(r, i, j)' => Begun(stream[j].request, i, j)'
    BY <2>6 DEF Begun
  <2> QED BY <2>1, <2>2, <2>3, <2>4, <2>5, <2>7
<1>4. CASE j \notin DOMAIN stream
  <2>1. Appended(q, irp, completion) /\ Len(stream) \in Nat /\ DOMAIN stream = 1..Len(stream)
    BY <1>4, StreamIs DEF Missed
  <2>2. j = Len(stream) + 1 /\ i \in DOMAIN stream /\ stream'[i] = stream[i]
    BY <1>2, <1>4, <2>1 DEF Appended
  <2>3. stream'[j].request = q /\ stream'[j].irp = irp /\ stream'[j].completion = completion
    BY <2>1, <2>2 DEF Appended
  <2>4. IF stream[i].request = q
        THEN stream[i].irp = irp /\ ~stream[i].completion /\ completion
        ELSE stream[i].irp = irp => Ended(i, j) /\ (completion => Begun(q, i, j))
    BY <2>2 DEF Follows
  <2>5. Ended(i, j) => Ended(i, j)'
    BY <1>1, <1>2, <2>2, EndedStays
  <2>6. Begun(q, i, j) => Begun(q, i, j)'
    BY <1>1, <1>2, BegunStays
  <2>7. Begun(q, i, j)' => Begun(stream[j].request, i, j)'
    BY <2>3 DEF Begun
  <2> QED BY <2>2, <2>3, <2>4, <2>5, <2>6, <2>7
<1> QED BY <1>3, <1>4

LEMMA SidesStay ==
  ASSUME Stream, Sides, NEW q \in 1..submitted', NEW irp \in Irps, NEW completion \in BOOLEAN,
         Follows(q, irp, completion), <<q, completion>> \notin lost,
         submitted \in Nat, submitted' \in Nat, submitted <= submitted', UNCHANGED requests,
         Appended(q, irp, completion) \/ Missed(q, completion)
  PROVE  Sides'
<1> SUFFICES ASSUME NEW i \in DOMAIN stream'
             PROVE  /\ stream'[i].request \in 1..submitted' /\ stream'[i].irp \in Irps
                    /\ stream'[i].completion \in BOOLEAN
                    /\ Says(stream'[i], requests'[stream'[i].request])
                    /\ <<stream'[i].request, stream'[i].completion>> \notin lost'
  BY DEF Sides, Says
<1>1. Grew
  BY Grows
<1>2. CASE i \in DOMAIN stream
  <2>1. stream'[i] = stream[i]
    BY <1>1, <1>2 DEF Grew
  <2>2. <<stream[i].request, stream[i].completion>> \notin lost \cup {<<q, completion>>}
    <3>1. <<stream[i].request, stream[i].completion>> \notin lost
      BY <1>2 DEF Sides
    <3>2. stream[i].request = q => ~stream[i].completion /\ completion
      BY <1>2, Zenon DEF Follows
    <3>3. <<stream[i].request, stream[i].completion>> # <<q, completion>>
      BY <3>2
    <3> QED BY <3>1, <3>3
  <2>3. lost' \subseteq lost \cup {<<q, completion>>}
    BY DEF Appended, Missed
  <2>4. stream[i].request \in 1..submitted'
    <3>1. stream[i].request \in 1..submitted
      BY <1>2 DEF Sides
    <3> QED BY <3>1
  <2>5. <<stream'[i].request, stream'[i].completion>> \notin lost'
    BY <2>1, <2>2, <2>3
  <2>6. requests' = requests
    OBVIOUS
  <2>7. /\ stream[i].irp \in Irps /\ stream[i].completion \in BOOLEAN
        /\ Says(stream[i], requests[stream[i].request])
    BY <1>2 DEF Sides
  <2> QED BY <2>1, <2>4, <2>5, <2>6, <2>7
<1>3. CASE i \notin DOMAIN stream
  <2>1. Appended(q, irp, completion) /\ Len(stream) \in Nat /\ DOMAIN stream = 1..Len(stream)
    BY <1>3, StreamIs DEF Missed
  <2>2. i = Len(stream) + 1
    BY <1>3, <2>1 DEF Appended
  <2> QED BY <2>1, <2>2 DEF Appended
<1> QED BY <1>2, <1>3

\* The order of the records survives a step that adds one side of a request,
\* or misses it; what the pointers carry is for the step to say.
LEMMA CarriedStays ==
  ASSUME Stream, Carried, NEW p \in Irps, flight'[p] = flight[p],
         NEW q, NEW irp, NEW completion, Appended(q, irp, completion) \/ Missed(q, completion),
         flight[p] # q, irp # p, NEW i \in DOMAIN stream'
  PROVE  IF stream'[i].request = flight'[p]
         THEN stream'[i].irp = p /\ ~stream'[i].completion
         ELSE stream'[i].irp = p =>
                Ended(i, Len(stream) + 1)' /\ (flight'[p] # None => Begun(flight[p], i, Len(stream) + 1)')
<1>1. Grew
  BY Grows
<1>2. CASE i \in DOMAIN stream
  <2>1. stream'[i] = stream[i]
    BY <1>1, <1>2 DEF Grew
  <2>2. IF stream[i].request = flight[p]
        THEN stream[i].irp = p /\ ~stream[i].completion
        ELSE stream[i].irp = p =>
               Ended(i, Len(stream) + 1) /\ (flight[p] # None => Begun(flight[p], i, Len(stream) + 1))
    BY <1>2, Zenon DEF Carried
  <2>3. PICK j, m, r : j = Len(stream) + 1 /\ m = Len(stream') + 1 /\ r = flight[p]
    OBVIOUS
  <2>4. j \in Nat /\ m \in Nat /\ j <= m
    BY <1>1, <2>3 DEF Grew
  <2>5. Ended(i, j) => Ended(i, m)'
    BY <1>1, <1>2, <2>4, EndedStays
  <2>6. Begun(r, i, j) => Begun(r, i, m)'
    BY <1>1, <2>4, BegunStays
  <2>7. Ended(i, m)' = Ended(i, Len(stream) + 1)'
    BY <2>3 DEF Ended
  <2>8. Begun(r, i, m)' = Begun(flight[p], i, Len(stream) + 1)'
    BY <2>3 DEF Begun
  <2> QED BY <2>1, <2>2, <2>3, <2>5, <2>6, <2>7, <2>8
<1>3. CASE i \notin DOMAIN stream
  <2>1. Appended(q, irp, completion) /\ Len(stream) \in Nat /\ DOMAIN stream = 1..Len(stream)
    BY <1>3, StreamIs DEF Missed
  <2>2. i = Len(stream) + 1
    BY <1>3, <2>1 DEF Appended
  <2> QED BY <2>1, <2>2 DEF Appended
<1> QED BY <1>2, <1>3

LEMMA SubmitOrder ==
  ASSUME Bus, Order, NEW irp \in Irps, Submit(irp)
  PROVE  Order'
<1>1. PICK q : q = submitted + 1
  OBVIOUS
<1>2. /\ submitted \in Nat /\ submitted' = q /\ q \in 1..Len(requests) /\ q \in Nat /\ requests' = requests
      /\ flight' = [flight EXCEPT ![irp] = q] /\ flight[irp] = None
      /\ Recorded(q, irp, FALSE)
  <2>1. Len(requests) \in Nat
    BY WindowsAssumption DEF Bus
  <2>2. submitted \in Nat /\ submitted' = q /\ submitted < Len(requests)
    BY <1>1, <2>1 DEF Submit, Bus
  <2>3. Recorded(q, irp, FALSE)
    BY <2>2 DEF Submit, Recorded, Record
  <2>4. flight' = [flight EXCEPT ![irp] = submitted'] /\ flight[irp] = None /\ requests' = requests
    BY Zenon DEF Submit
  <2>5. q \in 1..Len(requests) /\ q \in Nat
    BY <1>1, <2>1, <2>2
  <2>6. flight' = [flight EXCEPT ![irp] = q]
    BY <2>2, <2>4, Zenon
  <2> QED BY <2>2, <2>3, <2>4, <2>5, <2>6, Zenon
<1>3. /\ flight'[irp] = q
      /\ \A p \in Irps : p # irp => flight'[p] = flight[p] /\ flight[p] # q
  BY <1>1, <1>2 DEF Bus
<1>4. Stream /\ (Appended(q, irp, FALSE) \/ Missed(q, FALSE))
  BY <1>2, AppendedOrMissed DEF Bus
<1>5. Grew
  BY <1>4, Grows
<1>6. \A i \in DOMAIN stream : stream[i].request # q /\ stream[i].request # None
  <2>1. \A x \in 1..submitted : x # q /\ x # None
    BY <1>1, <1>2 DEF None
  <2> QED BY <2>1 DEF Order, Sides
<1>7. Follows(q, irp, FALSE)
  <2>1. ASSUME NEW i \in DOMAIN stream, stream[i].irp = irp PROVE Ended(i, Len(stream) + 1)
    BY <1>2, <1>6, <2>1 DEF Order, Carried
  <2> QED BY <1>6, <2>1, Zenon DEF Follows
<1>8. Ordered'
  BY <1>4, <1>7, OrderedStays DEF Order
<1>9. Sides'
  <2>1. <<q, FALSE>> \notin lost
    BY <1>1, <1>2 DEF Bus
  <2>2. q \in 1..submitted' /\ submitted <= submitted' /\ submitted' \in Nat
    BY <1>1, <1>2
  <2> QED BY <1>2, <1>4, <1>7, <2>1, <2>2, SidesStay DEF Order
<1>10. Carried'
  <2> SUFFICES ASSUME NEW p \in Irps, NEW i \in DOMAIN stream'
               PROVE  IF stream'[i].request = flight'[p]
                      THEN stream'[i].irp = p /\ ~stream'[i].completion
                      ELSE stream'[i].irp = p =>
                             Ended(i, Len(stream) + 1)' /\ (flight'[p] # None => Begun(flight[p], i, Len(stream) + 1)')
    BY DEF Carried
  <2>1. CASE p # irp
    BY <1>3, <1>4, <2>1, CarriedStays DEF Order
  <2>2. CASE p = irp /\ i \notin DOMAIN stream
    <3>1. Appended(q, irp, FALSE) /\ Len(stream) \in Nat /\ DOMAIN stream = 1..Len(stream)
      BY <1>4, <2>2, StreamIs DEF Missed
    <3>2. i = Len(stream) + 1
      BY <2>2, <3>1 DEF Appended
    <3> QED BY <1>3, <2>2, <3>1, <3>2 DEF Appended
  <2>3. CASE p = irp /\ i \in DOMAIN stream
    <3>1. stream'[i] = stream[i] /\ stream[i].request # flight'[irp]
      BY <1>3, <1>5, <1>6, <2>3 DEF Grew
    <3>2. ASSUME stream[i].irp = irp
          PROVE  Ended(i, Len(stream) + 1)' /\ Begun(flight[p], i, Len(stream) + 1)'
      <4>1. PICK j, m : j = Len(stream) + 1 /\ m = Len(stream') + 1
        OBVIOUS
      <4>2. j \in Nat /\ m \in Nat /\ j <= m
        BY <1>5, <4>1 DEF Grew
      <4>3. Ended(i, j)
        BY <1>2, <1>6, <2>3, <3>2, <4>1 DEF Order, Carried
      <4>4. Ended(i, m)'
        BY <1>5, <2>3, <4>2, <4>3, EndedStays
      <4>5. CASE Missed(q, FALSE)
        <5>1. <<q, FALSE>> \in lost'
          BY <4>5 DEF Missed
        <5>2. Begun(flight[p], i, Len(stream) + 1)'
          BY <1>3, <2>3, <5>1 DEF Begun
        <5>3. Ended(i, Len(stream) + 1)'
          BY <4>1, <4>4 DEF Ended
        <5> QED BY <5>2, <5>3
      <4>6. CASE Appended(q, irp, FALSE)
        <5>1. j \in DOMAIN stream' /\ i < j /\ j < m /\ stream'[j].request = q /\ ~stream'[j].completion
          BY <1>5, <2>3, <4>1, <4>6 DEF Grew, Appended
        <5>2. Begun(flight[p], i, Len(stream) + 1)'
          BY <1>3, <2>3, <4>1, <5>1 DEF Begun
        <5>3. Ended(i, Len(stream) + 1)'
          BY <4>1, <4>4 DEF Ended
        <5> QED BY <5>2, <5>3
      <4> QED BY <1>4, <4>5, <4>6
    <3> QED BY <2>3, <3>1, <3>2
  <2> QED BY <2>1, <2>2, <2>3
<1> QED BY <1>8, <1>9, <1>10 DEF Order

LEMMA CompleteOrder ==
  ASSUME Bus, Order, NEW irp \in Irps, Complete(irp)
  PROVE  Order'
<1>1. PICK q : q = flight[irp]
  OBVIOUS
<1>2. /\ submitted \in Nat /\ submitted' = submitted /\ q \in 1..Len(requests) /\ q \in 1..submitted
      /\ q # None /\ requests' = requests /\ requests \in Windows
      /\ flight' = [flight EXCEPT ![irp] = None]
      /\ Recorded(q, irp, TRUE)
  <2>1. Len(requests) \in Nat /\ requests \in Windows
    BY WindowsAssumption DEF Bus
  <2>2. Recorded(q, irp, TRUE) /\ q # None /\ flight' = [flight EXCEPT ![irp] = None]
        /\ submitted' = submitted /\ requests' = requests
    BY <1>1, Zenon DEF Complete
  <2>3. submitted \in Nat /\ submitted <= Len(requests) /\ q \in 0..submitted
    BY <1>1, <2>1 DEF Bus
  <2>4. q \in 1..Len(requests) /\ q \in 1..submitted
    BY <2>1, <2>2, <2>3 DEF None
  <2> QED BY <2>1, <2>2, <2>3, <2>4
<1>3. /\ flight'[irp] = None
      /\ \A p \in Irps : p # irp => flight'[p] = flight[p] /\ flight[p] # q
  BY <1>1, <1>2 DEF Bus
<1>4. Stream /\ (Appended(q, irp, TRUE) \/ Missed(q, TRUE))
  BY <1>2, AppendedOrMissed DEF Bus
<1>5. Grew
  BY <1>4, Grows
<1>6. Follows(q, irp, TRUE)
  BY <1>1, <1>2, Zenon DEF Order, Carried, Follows
<1>7. Ordered'
  BY <1>4, <1>6, OrderedStays DEF Order
<1>8. Sides'
  <2>1. <<q, TRUE>> \notin lost
    BY <1>1, <1>2 DEF Bus
  <2>2. q \in 1..submitted' /\ submitted <= submitted' /\ submitted' \in Nat
    BY <1>2
  <2> QED BY <1>2, <1>4, <1>6, <2>1, <2>2, SidesStay DEF Order
<1>9. Carried'
  <2> SUFFICES ASSUME NEW p \in Irps, NEW i \in DOMAIN stream'
               PROVE  IF stream'[i].request = flight'[p]
                      THEN stream'[i].irp = p /\ ~stream'[i].completion
                      ELSE stream'[i].irp = p =>
                             Ended(i, Len(stream) + 1)' /\ (flight'[p] # None => Begun(flight[p], i, Len(stream) + 1)')
    BY DEF Carried
  <2>1. CASE p # irp
    BY <1>3, <1>4, <2>1, CarriedStays DEF Order
  <2>2. stream'[i].request # None
    <3>1. stream'[i].request \in 1..submitted
      BY <1>2, <1>8 DEF Sides
    <3> QED BY <1>2, <3>1 DEF None
  <2>3. ASSUME p = irp, stream'[i].irp = irp PROVE Ended(i, Len(stream) + 1)'
    <3>1. CASE i \notin DOMAIN stream
      <4>1. Appended(q, irp, TRUE) /\ Len(stream) \in Nat /\ DOMAIN stream = 1..Len(stream)
        BY <1>4, <3>1, StreamIs DEF Missed
      <4>2. i = Len(stream) + 1
        BY <3>1, <4>1 DEF Appended
      <4>3. stream'[i].completion
        BY <4>1, <4>2 DEF Appended
      <4> QED BY <4>3 DEF Ended
    <3>2. CASE i \in DOMAIN stream /\ stream[i].request # q /\ stream[i].irp = irp
      <4>1. PICK j, m : j = Len(stream) + 1 /\ m = Len(stream') + 1
        OBVIOUS
      <4>2. j \in Nat /\ m \in Nat /\ j <= m
        BY <1>5, <4>1 DEF Grew
      <4>3. Ended(i, j)
        BY <3>2, <1>6, <4>1, Zenon DEF Follows
      <4>4. Ended(i, m)'
        BY <1>5, <3>2, <4>2, <4>3, EndedStays
      <4> QED BY <4>1, <4>4 DEF Ended
    <3>3. CASE i \in DOMAIN stream /\ stream[i].request = q
      <4>1. stream'[i] = stream[i]
        BY <1>5, <3>3 DEF Grew
      <4>2. CASE Missed(q, TRUE)
        <5>1. <<q, TRUE>> \in lost'
          BY <4>2 DEF Missed
        <5> QED BY <3>3, <4>1, <5>1 DEF Ended
      <4>3. CASE Appended(q, irp, TRUE)
        <5>1. PICK j : j = Len(stream) + 1
          OBVIOUS
        <5>2. j \in DOMAIN stream' /\ i < j /\ j < Len(stream') + 1 /\ stream'[j].request = q /\ stream'[j].completion
          BY <1>5, <3>3, <4>3, <5>1 DEF Grew, Appended
        <5> QED BY <3>3, <4>1, <5>2 DEF Ended
      <4> QED BY <1>4, <4>2, <4>3
    <3>4. i \in DOMAIN stream => stream[i].irp = irp
      BY <1>5, <2>3 DEF Grew
    <3> QED BY <3>1, <3>2, <3>3, <3>4
  <2> QED BY <1>3, <2>1, <2>2, <2>3
<1> QED BY <1>7, <1>8, <1>9 DEF Order

\* The bus keeps the order; nobody else adds to the stream.
LEMMA OrderStep == ASSUME Types, Order, [Next]_vars PROVE Order'
<1>1. ASSUME NEW irp \in Irps, Submit(irp) \/ Complete(irp) PROVE Order'
  BY <1>1, SubmitOrder, CompleteOrder DEF Types
<1>2. CASE UNCHANGED <<stream, busVars>>
  <2>1. stream' = stream /\ requests' = requests /\ submitted' = submitted /\ flight' = flight /\ lost' = lost
    BY <1>2 DEF busVars
  <2>2. Sides'
    BY <2>1, Zenon DEF Order, Sides
  <2>3. Ordered'
    <3> SUFFICES ASSUME NEW i \in DOMAIN stream, NEW j \in DOMAIN stream, i < j
                 PROVE  IF stream[i].request = stream[j].request
                        THEN stream[i].irp = stream[j].irp /\ ~stream[i].completion /\ stream[j].completion
                        ELSE stream[i].irp = stream[j].irp =>
                               Ended(i, j)' /\ (stream[j].completion => Begun(stream[j].request, i, j)')
      BY <2>1 DEF Ordered
    <3>1. Ended(i, j) => Ended(i, j)'
      BY <2>1 DEF Ended
    <3>2. Begun(stream[j].request, i, j) => Begun(stream[j].request, i, j)'
      BY <2>1 DEF Begun
    <3> QED BY <3>1, <3>2, Zenon DEF Order, Ordered
  <2>4. Carried'
    <3>1. \A i : Ended(i, Len(stream) + 1) => Ended(i, Len(stream) + 1)'
      BY <2>1 DEF Ended
    <3>2. \A i, q : Begun(q, i, Len(stream) + 1) => Begun(q, i, Len(stream) + 1)'
      BY <2>1 DEF Begun
    <3> SUFFICES ASSUME NEW p \in Irps, NEW i \in DOMAIN stream
                 PROVE  IF stream[i].request = flight[p]
                        THEN stream[i].irp = p /\ ~stream[i].completion
                        ELSE stream[i].irp = p =>
                               Ended(i, Len(stream) + 1)' /\ (flight[p] # None => Begun(flight[p], i, Len(stream) + 1)')
      BY <2>1 DEF Carried
    <3>3. PICK q : q = flight[p]
      OBVIOUS
    <3>4. Begun(q, i, Len(stream) + 1)' => Begun(flight[p], i, Len(stream) + 1)'
      BY <2>1, <3>3 DEF Begun
    <3> QED BY <3>1, <3>2, <3>3, <3>4, Zenon DEF Order, Carried
  <2> QED BY <2>2, <2>3, <2>4 DEF Order
<1> QED BY <1>1, <1>2 DEF Next, ReadRecord, vars

LEMMA AlwaysOrder == Spec => []Order
<1>1. ASSUME Init PROVE Order
  <2>1. DOMAIN stream = {}
    <3>1. stream = <<>>
      BY <1>1 DEF Init
    <3> QED BY <3>1
  <2> QED BY <2>1 DEF Order, Sides, Ordered, Carried
<1> QED BY <1>1, OrderStep, AlwaysTypes, PTL DEF Spec

\* Nothing of a pointer lies between the two records of a request.
LEMMA NothingBetween ==
  ASSUME Order, Stream, NEW i \in DOMAIN stream, NEW j \in DOMAIN stream, i < j,
         stream[i].request = stream[j].request
  PROVE  /\ stream[i].irp = stream[j].irp /\ ~stream[i].completion /\ stream[j].completion
         /\ \A k \in DOMAIN stream : i < k /\ k < j => stream[k].irp # stream[i].irp
<1>1. \A a, b \in DOMAIN stream : a < b /\ stream[a].request = stream[b].request =>
        stream[a].irp = stream[b].irp /\ ~stream[a].completion /\ stream[b].completion
  BY Zenon DEF Order, Ordered
<1>2. stream[i].irp = stream[j].irp /\ ~stream[i].completion /\ stream[j].completion
  BY <1>1
<1>3. ASSUME NEW k \in DOMAIN stream, i < k, k < j, stream[k].irp = stream[i].irp PROVE FALSE
  <2>1. stream[k].request # stream[i].request
    <3>1. stream[k].request = stream[i].request => stream[k].completion /\ ~stream[k].completion
      BY <1>1, <1>3
    <3> QED BY <3>1
  <2>2. Ended(i, k)
    BY <1>3, <2>1, Zenon DEF Order, Ordered
  <2>3. <<stream[j].request, stream[j].completion>> \notin lost
    BY DEF Order, Sides
  <2>4. stream[j].completion = TRUE
    BY <1>2 DEF Order, Sides
  <2>5. PICK m \in DOMAIN stream : i < m /\ m < k /\ stream[m].request = stream[i].request /\ stream[m].completion
    BY <1>2, <2>2, <2>3, <2>4 DEF Ended
  <2>6. m < j
    BY <1>3, <2>5, StreamIs
  <2> QED BY <1>1, <2>5, <2>6
<1> QED BY <1>2, <1>3

\* Where a submission and a completion of one pointer, of two bulk requests, have
\* nothing of the pointer in between, what would be there is missing.
LEMMA MissingBetween ==
  ASSUME Order, NEW i \in DOMAIN stream, NEW j \in DOMAIN stream, i < j,
         stream[i].request # stream[j].request, stream[i].irp = stream[j].irp,
         ~stream[i].completion, stream[j].completion, stream[i].bulk, stream[j].bulk,
         \A k \in DOMAIN stream : i < k /\ k < j /\ stream[k].bulk => stream[k].irp # stream[i].irp
  PROVE  {<<stream[i].request, TRUE>>, <<stream[j].request, FALSE>>} \subseteq lost
<1>1. Ended(i, j) /\ Begun(stream[j].request, i, j)
  BY Zenon DEF Order, Ordered
<1>2. \A k, m \in DOMAIN stream : stream[k].request = stream[m].request => stream[k].bulk = stream[m].bulk
  <2>1. \A k \in DOMAIN stream : stream[k].bulk = requests[stream[k].request].bulk
    BY DEF Order, Sides, Says
  <2> QED BY <2>1
<1>3. \A a, b \in DOMAIN stream : a < b /\ stream[a].request = stream[b].request => stream[a].irp = stream[b].irp
  BY Zenon DEF Order, Ordered
<1>4. ASSUME NEW k \in DOMAIN stream, i < k, k < j, stream[k].request = stream[i].request PROVE FALSE
  BY <1>2, <1>3, <1>4
<1>5. ASSUME NEW k \in DOMAIN stream, i < k, k < j, stream[k].request = stream[j].request PROVE FALSE
  BY <1>2, <1>3, <1>5
<1>6. <<stream[i].request, TRUE>> \in lost
  BY <1>1, <1>4 DEF Ended
<1>7. <<stream[j].request, FALSE>> \in lost
  BY <1>1, <1>5 DEF Begun
<1> QED BY <1>6, <1>7

-----------------------------------------------------------------------------
(* The two loops. *)

\* The bulk records read; the last of its pointer; a submission and a completion
\* of one pointer with nothing of it in between.
Bulks == {i \in 1..read : stream[i].bulk}
Latest(i) == \A k \in Bulks : i < k => stream[k].irp # stream[i].irp
Adjacent(i, j) ==
  /\ i < j /\ stream[i].irp = stream[j].irp /\ ~stream[i].completion /\ stream[j].completion
  /\ \A k \in Bulks : i < k /\ k < j => stream[k].irp # stream[i].irp

NoneTwice(table) == \A m, n \in DOMAIN table : table[m] = table[n] => m = n

Entry == [index : Nat, operation : Nat, completion : BOOLEAN]
Cycle == [operation : Nat, number : Nat, submitted : Nat, completed : Nat]

\* Values; the two tables of pointers are one.
Tables ==
  /\ read \in 0..WholeIn(disk) /\ (life = "open" => read = 0)
  /\ aliases \in Seq(Irps) /\ NoneTwice(aliases) /\ operations = aliases
  /\ named \in Seq(Entry) /\ Len(named) <= read
  /\ cycles \in Seq(Cycle) /\ Len(cycles) <= read
  /\ counts \in [Irps -> Nat] /\ pending \in [Irps -> Nat]

\* correlate_bulk_transfers has every bulk record, by its pointer's name.
Names ==
  /\ \A m \in DOMAIN named :
       /\ named[m].index \in Bulks /\ named[m].completion = stream[named[m].index].completion
       /\ named[m].operation \in DOMAIN aliases /\ aliases[named[m].operation] = stream[named[m].index].irp
  /\ \A i \in Bulks : \E m \in DOMAIN named : named[m].index = i

\* A cycle is of the pointer of its records, which are what it says of them.
OfPointer(c, i) == i \in Bulks /\ operations[c.operation] = stream[i].irp
Whose ==
  \A n \in DOMAIN cycles :
    /\ cycles[n].operation \in DOMAIN operations
    /\ cycles[n].submitted # None \/ cycles[n].completed # None
    /\ cycles[n].submitted # None =>
         OfPointer(cycles[n], cycles[n].submitted) /\ ~stream[cycles[n].submitted].completion
    /\ cycles[n].completed # None =>
         OfPointer(cycles[n], cycles[n].completed) /\ stream[cycles[n].completed].completion
    /\ cycles[n].number <= counts[operations[cycles[n].operation]]

Labels ==
  \A m, n \in DOMAIN cycles :
    cycles[m].operation = cycles[n].operation /\ cycles[m].number = cycles[n].number => m = n

Has(n, i) == i = cycles[n].submitted \/ i = cycles[n].completed
Once ==
  /\ \A i \in Bulks : \E n \in DOMAIN cycles : Has(n, i)
  /\ \A i \in Bulks : \A m, n \in DOMAIN cycles : Has(m, i) /\ Has(n, i) => m = n

Joined ==
  /\ \A n \in DOMAIN cycles : cycles[n].submitted # None /\ cycles[n].completed # None =>
       Adjacent(cycles[n].submitted, cycles[n].completed)
  /\ \A i, j \in Bulks : Adjacent(i, j) =>
       \E n \in DOMAIN cycles : cycles[n].submitted = i /\ cycles[n].completed = j

\* The cycle a completion would end is that of the pointer's last record, if
\* that is a submission.
Due ==
  /\ \A p \in Irps : pending[p] # None =>
       /\ pending[p] \in DOMAIN cycles
       /\ cycles[pending[p]].submitted # None /\ cycles[pending[p]].completed = None
       /\ stream[cycles[pending[p]].submitted].irp = p /\ Latest(cycles[pending[p]].submitted)
  /\ \A i \in Bulks : ~stream[i].completion /\ Latest(i) =>
       pending[stream[i].irp] # None /\ cycles[pending[stream[i].irp]].submitted = i

Pairing == Whose /\ Labels /\ Once /\ Joined /\ Due

\* A name is never given to another pointer.
Extends(t, u) ==
  /\ u \in Seq(Irps) /\ NoneTwice(u)
  /\ DOMAIN t \subseteq DOMAIN u /\ \A n \in DOMAIN t : u[n] = t[n]

LEMMA SetDefaultIs ==
  ASSUME NEW t \in Seq(Irps), NoneTwice(t), NEW p \in Irps
  PROVE  /\ Extends(t, SetDefault(t, p))
         /\ Operation(SetDefault(t, p), p) \in DOMAIN SetDefault(t, p)
         /\ SetDefault(t, p)[Operation(SetDefault(t, p), p)] = p
<1> DEFINE u == SetDefault(t, p)
<1>1. DOMAIN t = 1..Len(t) /\ Len(t) \in Nat
  OBVIOUS
<1>2. CASE Contains(t, p)
  <2>1. u = t
    BY <1>2 DEF SetDefault
  <2>2. \E n \in DOMAIN u : u[n] = p
    BY <1>1, <1>2, <2>1 DEF Contains
  <2>3. Extends(t, u)
    BY <2>1 DEF Extends
  <2> HIDE DEF u
  <2>4. Operation(u, p) \in DOMAIN u /\ u[Operation(u, p)] = p
    BY <2>2 DEF Operation
  <2> QED BY <2>3, <2>4 DEF u
<1>3. CASE ~Contains(t, p)
  <2>1. u = Append(t, p)
    BY <1>3 DEF SetDefault
  <2> HIDE DEF u
  <2>2. u \in Seq(Irps) /\ Len(u) = Len(t) + 1 /\ u[Len(t) + 1] = p /\ \A n \in 1..Len(t) : u[n] = t[n]
    BY <2>1, AppendProperties
  <2>3. DOMAIN u = 1..Len(t) + 1
    BY <2>2
  <2>4. NoneTwice(u)
    <3>1. \A n \in 1..Len(t) : t[n] # p
      BY <1>3 DEF Contains
    <3>2. \A m, n \in 1..Len(t) : t[m] = t[n] => m = n
      BY <1>1 DEF NoneTwice
    <3>3. \A n \in 1..Len(t) + 1 : n \in 1..Len(t) \/ n = Len(t) + 1
      BY <1>1
    <3> QED BY <2>2, <2>3, <3>1, <3>2, <3>3 DEF NoneTwice
  <2>5. Extends(t, u)
    BY <1>1, <2>2, <2>3, <2>4 DEF Extends
  <2>6. \E n \in DOMAIN u : u[n] = p
    BY <1>1, <2>2, <2>3
  <2>7. Operation(u, p) \in DOMAIN u /\ u[Operation(u, p)] = p
    BY <2>6 DEF Operation
  <2> QED BY <2>5, <2>7 DEF u
<1> QED BY <1>2, <1>3

\* A cycle opened for pointer p, or cycle k closed.
Opened(p, s, c) ==
  /\ DOMAIN cycles' = 1..Len(cycles) + 1 /\ \A n \in DOMAIN cycles : cycles'[n] = cycles[n]
  /\ LET d == cycles'[Len(cycles) + 1]
     IN  /\ d.operation \in DOMAIN operations' /\ operations'[d.operation] = p
         /\ d.number = counts[p] + 1 /\ d.submitted = s /\ d.completed = c
  /\ \A a \in Irps : counts'[a] = IF a = p THEN counts[p] + 1 ELSE counts[a]
Closed(k, c) ==
  /\ DOMAIN cycles' = DOMAIN cycles /\ \A n \in DOMAIN cycles : n # k => cycles'[n] = cycles[n]
  /\ LET d == cycles'[k]
     IN  /\ d.operation = cycles[k].operation /\ d.number = cycles[k].number
         /\ d.submitted = cycles[k].submitted /\ d.completed = c

LEMMA NewCycleIs ==
  ASSUME Tables, NEW p \in Irps, NEW s \in Nat, NEW c \in Nat,
         operations' = SetDefault(operations, p), NewCycle(p, s, c)
  PROVE  /\ Opened(p, s, c) /\ Extends(operations, operations')
         /\ cycles' \in Seq(Cycle) /\ Len(cycles') = Len(cycles) + 1 /\ counts' \in [Irps -> Nat]
<1>1. operations \in Seq(Irps) /\ NoneTwice(operations) /\ cycles \in Seq(Cycle) /\ counts \in [Irps -> Nat]
  BY DEF Tables
<1>2. PICK o : o = Operation(operations', p)
  OBVIOUS
<1>3. Extends(operations, operations') /\ o \in DOMAIN operations' /\ operations'[o] = p
  BY <1>1, <1>2, SetDefaultIs
<1>4. o \in Nat
  <2>1. operations' \in Seq(Irps)
    BY <1>3 DEF Extends
  <2> QED BY <1>3, <2>1
<1>5. PICK d : d = [operation |-> o, number |-> counts[p] + 1, submitted |-> s, completed |-> c]
  OBVIOUS
<1>6. d \in Cycle /\ d.operation = o /\ d.number = counts[p] + 1 /\ d.submitted = s /\ d.completed = c
  BY <1>1, <1>4, <1>5 DEF Cycle
<1>7. counts' = [counts EXCEPT ![p] = @ + 1] /\ counts'[p] = counts[p] + 1
  BY <1>1 DEF NewCycle
<1>8. cycles' = Append(cycles, d)
  BY <1>2, <1>5, <1>7 DEF NewCycle
<1>9. /\ cycles' \in Seq(Cycle) /\ Len(cycles') = Len(cycles) + 1 /\ cycles'[Len(cycles) + 1] = d
      /\ \A n \in 1..Len(cycles) : cycles'[n] = cycles[n]
  BY <1>1, <1>6, <1>8, AppendProperties
<1>10. DOMAIN cycles' = 1..Len(cycles) + 1 /\ DOMAIN cycles = 1..Len(cycles)
  BY <1>1, <1>9
<1>11. counts' \in [Irps -> Nat] /\ \A a \in Irps : counts'[a] = IF a = p THEN counts[p] + 1 ELSE counts[a]
  BY <1>1, <1>7
<1>12. Opened(p, s, c)
  BY <1>3, <1>6, <1>9, <1>10, <1>11 DEF Opened
<1> QED BY <1>3, <1>9, <1>11, <1>12

LEMMA ClosedIs ==
  ASSUME Tables, NEW k \in DOMAIN cycles, NEW c \in Nat, cycles' = [cycles EXCEPT ![k].completed = c]
  PROVE  Closed(k, c) /\ cycles' \in Seq(Cycle) /\ Len(cycles') = Len(cycles)
<1>1. cycles \in Seq(Cycle) /\ cycles[k] \in Cycle /\ DOMAIN cycles = 1..Len(cycles)
  BY DEF Tables
<1>2. PICK d : d = [cycles[k] EXCEPT !.completed = c]
  OBVIOUS
<1>3. /\ d \in Cycle /\ d.operation = cycles[k].operation /\ d.number = cycles[k].number
      /\ d.submitted = cycles[k].submitted /\ d.completed = c
  BY <1>1, <1>2 DEF Cycle
<1>4. cycles' = [cycles EXCEPT ![k] = d]
  BY <1>2
<1>5. cycles' \in Seq(Cycle) /\ Len(cycles') = Len(cycles) /\ DOMAIN cycles' = DOMAIN cycles
  BY <1>1, <1>3, <1>4, ExceptSeq
<1>6. cycles'[k] = d /\ \A n \in DOMAIN cycles : n # k => cycles'[n] = cycles[n]
  BY <1>1, <1>4
<1> QED BY <1>3, <1>5, <1>6 DEF Closed

\* One turn of the loops, at record i.
Turn(i) ==
  /\ i = read + 1 /\ read' = i /\ i <= WholeIn(disk) /\ life # "open"
  /\ UNCHANGED <<stream, disk, life>>
  /\ Correlate(stream[i]) /\ Pair(stream[i])

LEMMA TurnIs ==
  ASSUME Types, Tables, ReadRecord
  PROVE  \E i \in DOMAIN stream : Turn(i)
<1>1. /\ WholeIn(disk) \in 0..Len(stream) /\ Len(stream) \in Nat /\ DOMAIN stream = 1..Len(stream)
      /\ read \in Nat
  <2>1. WholeIn(disk) \in 0..Len(stream)
    BY FileWithin
  <2>2. Len(stream) \in Nat /\ DOMAIN stream = 1..Len(stream)
    BY StreamIs DEF Types, Bus
  <2>3. read \in 0..WholeIn(disk)
    BY DEF Tables
  <2> QED BY <2>1, <2>2, <2>3
<1>2. Len(OnDisk) = WholeIn(disk) /\ \A i \in 1..WholeIn(disk) : OnDisk[i] = stream[i]
  BY <1>1, FirstRecords DEF OnDisk, Types, Bus
<1>3. PICK i : i = read + 1
  OBVIOUS
<1>4. i \in 1..WholeIn(disk) /\ i \in DOMAIN stream
  <2>1. read < Len(OnDisk)
    BY DEF ReadRecord
  <2> QED BY <1>1, <1>2, <1>3, <2>1
<1>5. OnDisk[read + 1] = stream[i]
  BY <1>2, <1>3, <1>4
<1>6. read' = i /\ life # "open" /\ UNCHANGED <<stream, disk, life>>
  BY <1>3 DEF ReadRecord, ReadNext, Readable, writerVars
<1>7. Correlate(stream[i])
  BY <1>5, Zenon DEF ReadRecord, ReadNext, Correlate
<1>8. Pair(stream[i])
  BY <1>5, Zenon DEF ReadRecord, ReadNext, Pair, Completion, Submission, NewCycle
<1> QED BY <1>3, <1>4, <1>6, <1>7, <1>8 DEF Turn

\* A bulk record i after all that were read.
Adds(i) ==
  /\ UNCHANGED stream /\ Bulks' = Bulks \cup {i} /\ i \in Nat /\ i # None
  /\ \A k \in Bulks : k \in Nat /\ k # None /\ k < i

LEMMA BulksTurn ==
  ASSUME Types, Tables, NEW i \in DOMAIN stream, Turn(i)
  PROVE  /\ Bulks \subseteq DOMAIN stream
         /\ stream[i].bulk => Adds(i)
         /\ ~stream[i].bulk => Bulks' = Bulks
<1>1. /\ read \in Nat /\ i = read + 1 /\ read' = i /\ stream' = stream /\ i \in Nat
      /\ DOMAIN stream = 1..Len(stream) /\ Len(stream) \in Nat
  <2>1. read \in 0..WholeIn(disk)
    BY DEF Tables
  <2>2. DOMAIN stream = 1..Len(stream) /\ Len(stream) \in Nat
    BY StreamIs DEF Types, Bus
  <2> QED BY <2>1, <2>2 DEF Turn
<1>2. 1..read' = 1..read \cup {i}
  BY <1>1
<1>3. Bulks' = {k \in 1..read \cup {i} : stream[k].bulk}
  BY <1>1, <1>2 DEF Bulks
<1>4. \A k \in Bulks : k \in Nat /\ k # None /\ k < i /\ k \in DOMAIN stream
  BY <1>1 DEF Bulks, None
<1>5. CASE stream[i].bulk
  BY <1>1, <1>3, <1>4, <1>5 DEF Adds, Bulks, None
<1>6. CASE ~stream[i].bulk
  BY <1>3, <1>4, <1>6 DEF Bulks
<1> QED BY <1>4, <1>5, <1>6

\* What a new record changes of the order of the others.
LEMMA AdjacentTurn ==
  ASSUME NEW i, Adds(i)
  PROVE  /\ Latest(i)'
         /\ \A a \in Bulks : Latest(a)' <=> Latest(a) /\ stream[a].irp # stream[i].irp
         /\ \A a, b \in Bulks : Adjacent(a, b)' <=> Adjacent(a, b)
         /\ \A b \in Bulks' : ~Adjacent(i, b)'
         /\ \A a \in Bulks : Adjacent(a, i)' <=>
              /\ stream[a].irp = stream[i].irp /\ ~stream[a].completion /\ stream[i].completion
              /\ Latest(a)
<1>1. /\ stream' = stream /\ Bulks' = Bulks \cup {i} /\ i \in Nat
      /\ \A k \in Bulks : k \in Nat /\ k < i
  BY DEF Adds
<1>2. \A k \in Bulks' : ~(i < k)
  BY <1>1
<1>3. Latest(i)' /\ \A b \in Bulks' : ~Adjacent(i, b)'
  BY <1>2 DEF Latest, Adjacent
<1>4. ASSUME NEW a \in Bulks PROVE Latest(a)' <=> Latest(a) /\ stream[a].irp # stream[i].irp
  BY <1>1 DEF Latest
<1>5. ASSUME NEW a \in Bulks, NEW b \in Bulks PROVE Adjacent(a, b)' <=> Adjacent(a, b)
  <2>1. ~(i < b)
    BY <1>1
  <2> QED BY <1>1, <2>1 DEF Adjacent
<1>6. ASSUME NEW a \in Bulks
      PROVE  Adjacent(a, i)' <=>
               /\ stream[a].irp = stream[i].irp /\ ~stream[a].completion /\ stream[i].completion
               /\ Latest(a)
  <2>1. a < i /\ ~(i < i)
    BY <1>1
  <2>2. \A k \in Bulks : k < i
    BY <1>1
  <2> QED BY <1>1, <2>1, <2>2 DEF Adjacent, Latest
<1> QED BY <1>3, <1>4, <1>5, <1>6

LEMMA OpenedWhose ==
  ASSUME Tables, Pairing, NEW i, Adds(i), NEW p \in Irps, p = stream[i].irp,
         NEW s, NEW c, Opened(p, s, c), Extends(operations, operations'),
         \/ s = i /\ c = None /\ ~stream[i].completion
         \/ s = None /\ c = i /\ stream[i].completion
  PROVE  Whose' /\ Labels'
<1>1. PICK l : l = Len(cycles) + 1
  OBVIOUS
<1>2. /\ DOMAIN cycles = 1..Len(cycles) /\ Len(cycles) \in Nat /\ l \in Nat /\ l \notin DOMAIN cycles
      /\ DOMAIN cycles' = DOMAIN cycles \cup {l} /\ \A n \in DOMAIN cycles : cycles'[n] = cycles[n]
  <2>1. cycles \in Seq(Cycle)
    BY DEF Tables
  <2>2. DOMAIN cycles = 1..Len(cycles) /\ Len(cycles) \in Nat
    BY <2>1
  <2> QED BY <1>1, <2>2 DEF Opened
<1>3. /\ cycles'[l].operation \in DOMAIN operations' /\ operations'[cycles'[l].operation] = p
      /\ cycles'[l].number = counts[p] + 1 /\ cycles'[l].submitted = s /\ cycles'[l].completed = c
      /\ \A a \in Irps : counts'[a] = IF a = p THEN counts[p] + 1 ELSE counts[a]
  BY <1>1 DEF Opened
<1>4. /\ operations \in Seq(Irps) /\ NoneTwice(operations)
      /\ DOMAIN operations \subseteq DOMAIN operations' /\ \A n \in DOMAIN operations : operations'[n] = operations[n]
      /\ NoneTwice(operations')
  BY DEF Tables, Extends
<1>5. /\ stream' = stream /\ Bulks' = Bulks \cup {i} /\ i # None
  BY DEF Adds
<1>6. \A a \in Irps : counts[a] \in Nat /\ counts'[a] \in Nat /\ counts[a] <= counts'[a]
  <2>1. counts \in [Irps -> Nat]
    BY DEF Tables
  <2>2. \A a \in Irps : counts[a] \in Nat
    BY <2>1
  <2> QED BY <1>3, <2>2
<1>7. Whose'
  <2> SUFFICES ASSUME NEW n \in DOMAIN cycles'
               PROVE  /\ cycles'[n].operation \in DOMAIN operations'
                      /\ cycles'[n].submitted # None \/ cycles'[n].completed # None
                      /\ cycles'[n].submitted # None =>
                           /\ cycles'[n].submitted \in Bulks'
                           /\ operations'[cycles'[n].operation] = stream'[cycles'[n].submitted].irp
                           /\ ~stream'[cycles'[n].submitted].completion
                      /\ cycles'[n].completed # None =>
                           /\ cycles'[n].completed \in Bulks'
                           /\ operations'[cycles'[n].operation] = stream'[cycles'[n].completed].irp
                           /\ stream'[cycles'[n].completed].completion
                      /\ cycles'[n].number <= counts'[operations'[cycles'[n].operation]]
    BY DEF Whose, OfPointer
  <2>1. CASE n = l
    BY <1>3, <1>5, <1>6, <2>1
  <2>2. CASE n \in DOMAIN cycles
    <3>1. cycles'[n] = cycles[n]
      BY <1>2, <2>2
    <3>2. /\ cycles[n].operation \in DOMAIN operations
          /\ cycles[n].submitted # None \/ cycles[n].completed # None
          /\ cycles[n].submitted # None =>
               /\ cycles[n].submitted \in Bulks
               /\ operations[cycles[n].operation] = stream[cycles[n].submitted].irp
               /\ ~stream[cycles[n].submitted].completion
          /\ cycles[n].completed # None =>
               /\ cycles[n].completed \in Bulks
               /\ operations[cycles[n].operation] = stream[cycles[n].completed].irp
               /\ stream[cycles[n].completed].completion
          /\ cycles[n].number <= counts[operations[cycles[n].operation]]
      BY <2>2 DEF Pairing, Whose, OfPointer
    <3>3. operations'[cycles[n].operation] = operations[cycles[n].operation] /\ operations[cycles[n].operation] \in Irps
      BY <1>4, <3>2
    <3>4. cycles[n].number \in Nat
      <4>1. cycles \in Seq(Cycle)
        BY DEF Tables
      <4>2. cycles[n] \in Cycle
        BY <1>2, <2>2, <4>1
      <4> QED BY <4>2 DEF Cycle
    <3>5. cycles[n].number <= counts'[operations[cycles[n].operation]]
      BY <1>6, <3>2, <3>3, <3>4
    <3> QED BY <1>4, <1>5, <3>1, <3>2, <3>3, <3>5
  <2> QED BY <1>2, <2>1, <2>2
<1>8. Labels'
  <2> SUFFICES ASSUME NEW m \in DOMAIN cycles', NEW n \in DOMAIN cycles',
                      cycles'[m].operation = cycles'[n].operation, cycles'[m].number = cycles'[n].number
               PROVE  m = n
    BY DEF Labels
  <2>1. ASSUME NEW x \in DOMAIN cycles, cycles'[x].operation = cycles'[l].operation,
               cycles'[x].number = cycles'[l].number
        PROVE  FALSE
    <3>1. cycles'[x] = cycles[x]
      BY <1>2
    <3>2. cycles[x].operation \in DOMAIN operations /\ cycles[x].number <= counts[operations[cycles[x].operation]]
      BY DEF Pairing, Whose
    <3>3. operations[cycles[x].operation] = p
      BY <1>3, <1>4, <2>1, <3>1, <3>2
    <3>4. counts[p] + 1 <= counts[p]
      BY <1>3, <2>1, <3>1, <3>2, <3>3
    <3> QED BY <1>6, <3>4
  <2>2. CASE m \in DOMAIN cycles /\ n \in DOMAIN cycles
    BY <1>2, <2>2 DEF Pairing, Labels
  <2> QED BY <1>2, <2>1, <2>2
<1> QED BY <1>7, <1>8

\* The cycles, one longer, at their old places and the new one.
Longer(l, s, c) ==
  /\ l # None /\ l = Len(cycles) + 1 /\ l \notin DOMAIN cycles
  /\ DOMAIN cycles' = DOMAIN cycles \cup {l} /\ \A n \in DOMAIN cycles : cycles'[n] = cycles[n]
  /\ cycles'[l].submitted = s /\ cycles'[l].completed = c

LEMMA OpenedIs ==
  ASSUME Tables, NEW p, NEW s, NEW c, Opened(p, s, c)
  PROVE  \E l \in Nat : Longer(l, s, c)
<1>1. PICK l : l = Len(cycles) + 1
  OBVIOUS
<1>2. DOMAIN cycles = 1..Len(cycles) /\ Len(cycles) \in Nat
  <2>1. cycles \in Seq(Cycle)
    BY DEF Tables
  <2> QED BY <2>1
<1>3. l \in Nat /\ l # None /\ l \notin DOMAIN cycles
  BY <1>1, <1>2 DEF None
<1>4. DOMAIN cycles' = DOMAIN cycles \cup {l}
  BY <1>1, <1>2 DEF Opened
<1> QED BY <1>1, <1>3, <1>4 DEF Opened, Longer

LEMMA OpenedOnce ==
  ASSUME Tables, Pairing, NEW i, Adds(i), NEW p, NEW s, NEW c, Opened(p, s, c),
         (s = i /\ c = None) \/ (s = None /\ c = i)
  PROVE  Once'
<1>1. PICK l \in Nat : Longer(l, s, c)
  BY OpenedIs
<1> USE DEF Longer
<1>2. /\ Bulks' = Bulks \cup {i} /\ i # None /\ i \notin Bulks /\ \A k \in Bulks : k # None
  BY DEF Adds
<1>3. \A k \in Bulks' : Has(l, k)' <=> k = i
  BY <1>1, <1>2 DEF Has
<1>4. \A n \in DOMAIN cycles : \A k : Has(n, k)' <=> Has(n, k)
  BY <1>1 DEF Has
<1>5. \A n \in DOMAIN cycles : ~Has(n, i)
  BY <1>2 DEF Has, Pairing, Whose, OfPointer
<1>6. ASSUME NEW k \in Bulks' PROVE \E n \in DOMAIN cycles' : Has(n, k)'
  <2>1. CASE k = i
    BY <1>1, <1>3, <2>1
  <2>2. CASE k \in Bulks
    <3>1. PICK n \in DOMAIN cycles : Has(n, k)
      BY <2>2 DEF Pairing, Once
    <3> QED BY <1>1, <1>4, <3>1
  <2> QED BY <1>2, <2>1, <2>2
<1>7. ASSUME NEW k \in Bulks', NEW m \in DOMAIN cycles', NEW n \in DOMAIN cycles', Has(m, k)', Has(n, k)'
      PROVE  m = n
  <2>1. CASE k = i
    BY <1>1, <1>4, <1>5, <1>7, <2>1
  <2>2. CASE k \in Bulks
    <3>1. m \in DOMAIN cycles /\ n \in DOMAIN cycles /\ Has(m, k) /\ Has(n, k)
      BY <1>1, <1>2, <1>3, <1>4, <1>7, <2>2
    <3> QED BY <2>2, <3>1 DEF Pairing, Once
  <2> QED BY <1>2, <2>1, <2>2
<1> QED BY <1>6, <1>7 DEF Once

LEMMA OpenedJoined ==
  ASSUME Tables, Pairing, NEW i, Adds(i), NEW p, p = stream[i].irp, NEW s, NEW c, Opened(p, s, c),
         \/ s = i /\ c = None /\ ~stream[i].completion
         \/ s = None /\ c = i /\ pending[p] = None
  PROVE  Joined'
<1>1. PICK l \in Nat : Longer(l, s, c)
  BY OpenedIs
<1> USE DEF Longer
<1>2. Bulks' = Bulks \cup {i}
  BY DEF Adds
<1>3. ASSUME NEW n \in DOMAIN cycles', cycles'[n].submitted # None, cycles'[n].completed # None
      PROVE  Adjacent(cycles[n].submitted, cycles[n].completed)'
  <2>1. n \in DOMAIN cycles /\ cycles'[n] = cycles[n]
    BY <1>1, <1>3
  <2>2. cycles[n].submitted \in Bulks /\ cycles[n].completed \in Bulks
    BY <1>3, <2>1 DEF Pairing, Whose, OfPointer
  <2>3. Adjacent(cycles[n].submitted, cycles[n].completed)
    BY <1>3, <2>1 DEF Pairing, Joined
  <2>4. PICK a, b : a = cycles[n].submitted /\ b = cycles[n].completed
    OBVIOUS
  <2>5. Adjacent(a, b)'
    BY <2>2, <2>3, <2>4, AdjacentTurn
  <2> QED BY <2>1, <2>4, <2>5 DEF Adjacent
<1>4. ASSUME NEW a \in Bulks', NEW b \in Bulks', Adjacent(a, b)'
      PROVE  \E n \in DOMAIN cycles' : cycles'[n].submitted = a /\ cycles'[n].completed = b
  <2>1. a # i
    BY <1>4, AdjacentTurn
  <2>2. CASE b = i
    <3>1. /\ a \in Bulks /\ stream[a].irp = p /\ ~stream[a].completion /\ stream[i].completion /\ Latest(a)
      BY <1>2, <1>4, <2>1, <2>2, AdjacentTurn
    <3>2. pending[p] # None
      BY <3>1 DEF Pairing, Due
    <3> QED BY <3>1, <3>2
  <2>3. CASE b \in Bulks
    <3>1. Adjacent(a, b) /\ a \in Bulks
      BY <1>2, <1>4, <2>1, <2>3, AdjacentTurn
    <3>2. PICK n \in DOMAIN cycles : cycles[n].submitted = a /\ cycles[n].completed = b
      BY <2>3, <3>1 DEF Pairing, Joined
    <3> QED BY <1>1, <3>2
  <2> QED BY <1>2, <2>2, <2>3
<1> QED BY <1>3, <1>4 DEF Joined

\* The cycles that are due elsewhere stay so.
LEMMA DueElsewhere ==
  ASSUME Pairing, NEW i, Adds(i), NEW p, p = stream[i].irp,
         NEW q \in Irps, q # p, pending[q] # None, cycles'[pending[q]] = cycles[pending[q]]
  PROVE  /\ pending[q] \in DOMAIN cycles
         /\ cycles'[pending[q]].submitted # None /\ cycles'[pending[q]].completed = None
         /\ \E a : a = cycles'[pending[q]].submitted /\ stream'[a].irp = q /\ Latest(a)'
<1>1. /\ pending[q] \in DOMAIN cycles
      /\ cycles[pending[q]].submitted # None /\ cycles[pending[q]].completed = None
      /\ stream[cycles[pending[q]].submitted].irp = q /\ Latest(cycles[pending[q]].submitted)
  BY DEF Pairing, Due
<1>2. PICK a : a = cycles[pending[q]].submitted
  OBVIOUS
<1>3. a \in Bulks
  BY <1>1, <1>2 DEF Pairing, Whose, OfPointer
<1>4. Latest(a)'
  BY <1>1, <1>2, <1>3, AdjacentTurn
<1>5. stream' = stream
  BY DEF Adds
<1>6. cycles'[pending[q]].submitted = a
  BY <1>2
<1> QED BY <1>1, <1>2, <1>4, <1>5, <1>6

LEMMA SubmittedDue ==
  ASSUME Tables, Pairing, NEW i, Adds(i), NEW p \in Irps, p = stream[i].irp, Opened(p, i, None),
         \A k \in Bulks : stream[k].irp \in Irps,
         NEW l \in Nat, Longer(l, i, None), \A q \in Irps : pending'[q] = IF q = p THEN l ELSE pending[q]
  PROVE  Due'
<1>1. /\ l # None /\ DOMAIN cycles' = DOMAIN cycles \cup {l}
      /\ \A n \in DOMAIN cycles : cycles'[n] = cycles[n]
      /\ cycles'[l].submitted = i /\ cycles'[l].completed = None
  BY DEF Longer
<1>2. Bulks' = Bulks \cup {i} /\ stream' = stream /\ i # None
  BY DEF Adds
<1>3. ASSUME NEW q \in Irps, pending'[q] # None
      PROVE  /\ pending'[q] \in DOMAIN cycles'
             /\ cycles'[pending'[q]].submitted # None /\ cycles'[pending'[q]].completed = None
             /\ stream'[cycles'[pending'[q]].submitted].irp = q /\ Latest(cycles[pending[q]].submitted)'
  <2>1. CASE q = p
    <3>1. pending'[q] = l
      BY <2>1
    <3>2. Latest(i)'
      BY AdjacentTurn
    <3>3. Latest(cycles[pending[q]].submitted)'
      BY <1>1, <3>1, <3>2 DEF Latest
    <3> QED BY <1>1, <1>2, <2>1, <3>1, <3>3
  <2>2. CASE q # p
    <3>1. pending'[q] = pending[q] /\ pending[q] # None
      BY <1>3, <2>2
    <3>2. pending[q] \in DOMAIN cycles
      BY <3>1 DEF Pairing, Due
    <3>3. cycles'[pending[q]] = cycles[pending[q]]
      BY <1>1, <3>2
    <3>4. /\ cycles'[pending[q]].submitted # None /\ cycles'[pending[q]].completed = None
          /\ \E a : a = cycles'[pending[q]].submitted /\ stream'[a].irp = q /\ Latest(a)'
      BY <2>2, <3>1, <3>3, DueElsewhere
    <3>5. Latest(cycles[pending[q]].submitted)'
      BY <3>1, <3>4 DEF Latest
    <3> QED BY <1>1, <3>1, <3>2, <3>4, <3>5
  <2> QED BY <2>1, <2>2
<1>4. ASSUME NEW k \in Bulks', ~stream'[k].completion, Latest(k)'
      PROVE  pending'[stream'[k].irp] # None /\ cycles'[pending'[stream'[k].irp]].submitted = k
  <2>1. CASE k = i
    BY <1>1, <1>2, <2>1
  <2>2. CASE k \in Bulks
    <3>1. Latest(k) /\ stream[k].irp # p
      BY <1>4, <2>2, AdjacentTurn
    <3>2. stream[k].irp \in Irps /\ pending'[stream[k].irp] = pending[stream[k].irp]
      BY <2>2, <3>1
    <3>3. pending[stream[k].irp] # None /\ cycles[pending[stream[k].irp]].submitted = k
      BY <1>2, <1>4, <2>2, <3>1 DEF Pairing, Due
    <3>4. pending[stream[k].irp] \in DOMAIN cycles
      BY <3>2, <3>3 DEF Pairing, Due
    <3> QED BY <1>1, <1>2, <3>2, <3>3, <3>4
  <2> QED BY <1>2, <2>1, <2>2
<1> QED BY <1>3, <1>4 DEF Due

LEMMA CompletedDue ==
  ASSUME Tables, Pairing, NEW i, Adds(i), NEW p \in Irps, p = stream[i].irp, stream[i].completion,
         \A k \in Bulks : stream[k].irp \in Irps,
         NEW l \in Nat, Longer(l, None, i), pending[p] = None, pending' = pending
  PROVE  Due'
<1>1. \A n \in DOMAIN cycles : n \in DOMAIN cycles' /\ cycles'[n] = cycles[n]
  BY DEF Longer
<1>2. Bulks' = Bulks \cup {i} /\ stream' = stream
  BY DEF Adds
<1>3. ASSUME NEW q \in Irps, pending[q] # None
      PROVE  /\ pending[q] \in DOMAIN cycles'
             /\ cycles'[pending[q]].submitted # None /\ cycles'[pending[q]].completed = None
             /\ stream'[cycles'[pending[q]].submitted].irp = q /\ Latest(cycles[pending[q]].submitted)'
  <2>1. q # p /\ pending[q] \in DOMAIN cycles
    BY <1>3 DEF Pairing, Due
  <2>2. cycles'[pending[q]] = cycles[pending[q]]
    BY <1>1, <2>1
  <2>3. /\ cycles'[pending[q]].submitted # None /\ cycles'[pending[q]].completed = None
        /\ \E a : a = cycles'[pending[q]].submitted /\ stream'[a].irp = q /\ Latest(a)'
    BY <1>3, <2>1, <2>2, DueElsewhere
  <2>4. Latest(cycles[pending[q]].submitted)'
    BY <2>3 DEF Latest
  <2> QED BY <1>1, <2>1, <2>3, <2>4
<1>4. ASSUME NEW k \in Bulks', ~stream[k].completion, Latest(k)'
      PROVE  pending[stream[k].irp] # None /\ cycles'[pending[stream[k].irp]].submitted = k
  <2>1. k \in Bulks
    BY <1>2, <1>4
  <2>2. Latest(k)
    BY <1>4, <2>1, AdjacentTurn
  <2>3. pending[stream[k].irp] # None /\ cycles[pending[stream[k].irp]].submitted = k
    BY <1>4, <2>1, <2>2 DEF Pairing, Due
  <2>4. pending[stream[k].irp] \in DOMAIN cycles
    BY <2>1, <2>3 DEF Pairing, Due
  <2> QED BY <1>1, <2>3, <2>4
<1> QED BY <1>2, <1>3, <1>4 DEF Due

LEMMA ClosedPairing ==
  ASSUME Tables, Pairing, NEW i, Adds(i), NEW p \in Irps, p = stream[i].irp, stream[i].completion,
         \A k \in Bulks : stream[k].irp \in Irps,
         NEW e, e = pending[p], e # None, Closed(e, i), Extends(operations, operations'), counts' = counts,
         \A q \in Irps : pending'[q] = IF q = p THEN None ELSE pending[q]
  PROVE  Pairing'
<1>1. /\ Bulks' = Bulks \cup {i} /\ stream' = stream /\ i # None /\ i \notin Bulks
      /\ \A k \in Bulks : k # None
  BY DEF Adds
<1>2. /\ DOMAIN cycles' = DOMAIN cycles /\ \A n \in DOMAIN cycles : n # e => cycles'[n] = cycles[n]
      /\ cycles'[e].operation = cycles[e].operation /\ cycles'[e].number = cycles[e].number
      /\ cycles'[e].submitted = cycles[e].submitted /\ cycles'[e].completed = i
  BY DEF Closed
<1>3. /\ e \in DOMAIN cycles /\ cycles[e].submitted # None /\ cycles[e].completed = None
      /\ stream[cycles[e].submitted].irp = p /\ Latest(cycles[e].submitted)
  BY DEF Pairing, Due
<1>4. \A n \in DOMAIN cycles :
        /\ cycles'[n].operation = cycles[n].operation /\ cycles'[n].number = cycles[n].number
        /\ cycles'[n].submitted = cycles[n].submitted
        /\ cycles'[n].completed = IF n = e THEN i ELSE cycles[n].completed
  BY <1>2
<1>5. /\ DOMAIN operations \subseteq DOMAIN operations'
      /\ \A n \in DOMAIN operations : operations'[n] = operations[n]
  BY DEF Extends
<1>6. \A n \in DOMAIN cycles :
        /\ cycles[n].operation \in DOMAIN operations
        /\ cycles[n].submitted # None \/ cycles[n].completed # None
        /\ cycles[n].submitted # None =>
             /\ cycles[n].submitted \in Bulks
             /\ operations[cycles[n].operation] = stream[cycles[n].submitted].irp
             /\ ~stream[cycles[n].submitted].completion
        /\ cycles[n].completed # None =>
             /\ cycles[n].completed \in Bulks
             /\ operations[cycles[n].operation] = stream[cycles[n].completed].irp
             /\ stream[cycles[n].completed].completion
        /\ cycles[n].number <= counts[operations[cycles[n].operation]]
  BY DEF Pairing, Whose, OfPointer
<1>7. Whose'
  <2> SUFFICES ASSUME NEW n \in DOMAIN cycles
               PROVE  /\ cycles'[n].operation \in DOMAIN operations'
                      /\ cycles'[n].submitted # None \/ cycles'[n].completed # None
                      /\ cycles'[n].submitted # None =>
                           /\ cycles'[n].submitted \in Bulks'
                           /\ operations'[cycles'[n].operation] = stream'[cycles'[n].submitted].irp
                           /\ ~stream'[cycles'[n].submitted].completion
                      /\ cycles'[n].completed # None =>
                           /\ cycles'[n].completed \in Bulks'
                           /\ operations'[cycles'[n].operation] = stream'[cycles'[n].completed].irp
                           /\ stream'[cycles'[n].completed].completion
                      /\ cycles'[n].number <= counts'[operations'[cycles'[n].operation]]
    BY <1>2 DEF Whose, OfPointer
  <2>1. operations'[cycles'[n].operation] = operations[cycles[n].operation]
    BY <1>4, <1>5, <1>6
  <2>2. cycles'[n].operation \in DOMAIN operations'
    BY <1>4, <1>5, <1>6
  <2>3. cycles'[n].number <= counts'[operations'[cycles'[n].operation]]
    BY <1>4, <1>6, <2>1
  <2>4. cycles'[n].submitted # None =>
          /\ cycles'[n].submitted \in Bulks'
          /\ operations'[cycles'[n].operation] = stream'[cycles'[n].submitted].irp
          /\ ~stream'[cycles'[n].submitted].completion
    BY <1>1, <1>4, <1>6, <2>1
  <2>5. CASE n = e
    <3>1. cycles'[n].completed = i /\ cycles[n].submitted # None /\ i \in Bulks'
      BY <1>1, <1>3, <1>4, <2>5
    <3>2. operations'[cycles'[n].operation] = stream'[i].irp
      BY <1>1, <1>3, <1>6, <2>1, <2>5
    <3>3. stream'[i].completion
      BY <1>1
    <3>4. cycles'[n].submitted # None
      BY <1>4, <3>1
    <3> QED BY <2>2, <2>3, <2>4, <3>1, <3>2, <3>3, <3>4
  <2>6. CASE n # e
    <3>1. cycles'[n].completed = cycles[n].completed /\ cycles'[n].submitted = cycles[n].submitted
      BY <1>4, <2>6
    <3>2. cycles'[n].completed # None =>
            /\ cycles'[n].completed \in Bulks'
            /\ operations'[cycles'[n].operation] = stream'[cycles'[n].completed].irp
            /\ stream'[cycles'[n].completed].completion
      BY <1>1, <1>6, <2>1, <3>1
    <3>3. cycles'[n].submitted # None \/ cycles'[n].completed # None
      BY <1>6, <3>1
    <3> QED BY <2>2, <2>3, <2>4, <3>2, <3>3
  <2> QED BY <2>5, <2>6
<1>8. Labels'
  BY <1>2, <1>4 DEF Pairing, Labels
<1>9. Once'
  <2>1. \A n \in DOMAIN cycles : \A k \in Bulks : Has(n, k)' <=> Has(n, k)
    BY <1>1, <1>3, <1>4 DEF Has
  <2>2. \A n \in DOMAIN cycles : Has(n, i)' <=> n = e
    BY <1>1, <1>4, <1>6 DEF Has
  <2>3. \A k \in Bulks' : \E n \in DOMAIN cycles' : Has(n, k)'
    BY <1>1, <1>2, <1>3, <2>1, <2>2 DEF Pairing, Once
  <2>4. \A k \in Bulks' : \A m, n \in DOMAIN cycles' : Has(m, k)' /\ Has(n, k)' => m = n
    BY <1>1, <1>2, <2>1, <2>2 DEF Pairing, Once
  <2> QED BY <2>3, <2>4 DEF Once
<1>10. Joined'
  <2>1. ASSUME NEW n \in DOMAIN cycles, cycles'[n].submitted # None, cycles'[n].completed # None
        PROVE  Adjacent(cycles[n].submitted, cycles[n].completed)'
    <3>1. PICK a, b : a = cycles'[n].submitted /\ b = cycles'[n].completed
      OBVIOUS
    <3>2. a \in Bulks /\ ~stream[a].completion
      BY <1>4, <1>6, <2>1, <3>1
    <3>3. CASE n = e
      <4>1. b = i /\ Latest(a) /\ stream[a].irp = p
        BY <1>3, <1>4, <3>1, <3>3
      <4>2. Adjacent(a, b)'
        BY <3>2, <4>1, AdjacentTurn
      <4> QED BY <3>1, <4>2 DEF Adjacent
    <3>4. CASE n # e
      <4>1. a = cycles[n].submitted /\ b = cycles[n].completed /\ a # None /\ b # None
        BY <1>4, <2>1, <3>1, <3>4
      <4>2. b \in Bulks /\ Adjacent(a, b)
        BY <1>6, <4>1 DEF Pairing, Joined
      <4>3. Adjacent(a, b)'
        BY <3>2, <4>2, AdjacentTurn
      <4> QED BY <3>1, <4>3 DEF Adjacent
    <3> QED BY <3>3, <3>4
  <2>2. ASSUME NEW a \in Bulks', NEW b \in Bulks', Adjacent(a, b)'
        PROVE  \E n \in DOMAIN cycles : cycles'[n].submitted = a /\ cycles'[n].completed = b
    <3>1. a \in Bulks
      BY <1>1, <2>2, AdjacentTurn
    <3>2. CASE b = i
      <4>1. stream[a].irp = p /\ ~stream[a].completion /\ Latest(a)
        BY <2>2, <3>1, <3>2, AdjacentTurn
      <4>2. cycles[e].submitted = a
        BY <3>1, <4>1 DEF Pairing, Due
      <4> QED BY <1>3, <1>4, <3>2, <4>2
    <3>3. CASE b \in Bulks
      <4>1. Adjacent(a, b)
        BY <2>2, <3>1, <3>3, AdjacentTurn
      <4>2. PICK n \in DOMAIN cycles : cycles[n].submitted = a /\ cycles[n].completed = b
        BY <3>1, <3>3, <4>1 DEF Pairing, Joined
      <4>3. n # e
        BY <1>1, <1>3, <3>3, <4>2
      <4> QED BY <1>4, <4>2, <4>3
    <3> QED BY <1>1, <3>2, <3>3
  <2> QED BY <1>2, <2>1, <2>2 DEF Joined
<1>11. Due'
  <2>1. ASSUME NEW q \in Irps, pending'[q] # None
        PROVE  /\ pending'[q] \in DOMAIN cycles'
               /\ cycles'[pending'[q]].submitted # None /\ cycles'[pending'[q]].completed = None
               /\ stream'[cycles'[pending'[q]].submitted].irp = q /\ Latest(cycles[pending[q]].submitted)'
    <3>1. q # p /\ pending'[q] = pending[q] /\ pending[q] # None
      BY <2>1
    <3>2. pending[q] \in DOMAIN cycles /\ stream[cycles[pending[q]].submitted].irp = q
      BY <3>1 DEF Pairing, Due
    <3>3. cycles'[pending[q]] = cycles[pending[q]]
      BY <1>2, <1>3, <3>1, <3>2
    <3>4. /\ cycles'[pending[q]].submitted # None /\ cycles'[pending[q]].completed = None
          /\ \E a : a = cycles'[pending[q]].submitted /\ stream'[a].irp = q /\ Latest(a)'
      BY <3>1, <3>3, DueElsewhere
    <3>5. Latest(cycles[pending[q]].submitted)'
      BY <3>1, <3>4 DEF Latest
    <3> QED BY <1>2, <3>1, <3>2, <3>4, <3>5
  <2>2. ASSUME NEW k \in Bulks', ~stream[k].completion, Latest(k)'
        PROVE  pending'[stream[k].irp] # None /\ cycles'[pending'[stream[k].irp]].submitted = k
    <3>1. k \in Bulks
      BY <1>1, <2>2
    <3>2. Latest(k) /\ stream[k].irp # p
      BY <2>2, <3>1, AdjacentTurn
    <3>3. pending[stream[k].irp] # None /\ cycles[pending[stream[k].irp]].submitted = k
      BY <2>2, <3>1, <3>2 DEF Pairing, Due
    <3>4. pending[stream[k].irp] \in DOMAIN cycles /\ pending'[stream[k].irp] = pending[stream[k].irp]
      BY <3>1, <3>2, <3>3 DEF Pairing, Due
    <3> QED BY <1>4, <3>3, <3>4
  <2> QED BY <1>1, <2>1, <2>2 DEF Due
<1> QED BY <1>7, <1>8, <1>9, <1>10, <1>11 DEF Pairing

\* A record that is no bulk transfer is nothing to either loop.
LEMMA PairingStays ==
  ASSUME Pairing, UNCHANGED <<stream, operations, counts, pending, cycles>>, Bulks' = Bulks
  PROVE  Pairing'
<1>1. Whose' /\ Labels'
  BY DEF Pairing, Whose, OfPointer, Labels
<1>2. Once'
  BY DEF Pairing, Once, Has
<1>3. Joined'
  <2>1. \A i, j : Adjacent(i, j)' <=> Adjacent(i, j)
    BY DEF Adjacent
  <2> SUFFICES /\ \A n \in DOMAIN cycles : cycles[n].submitted # None /\ cycles[n].completed # None =>
                    Adjacent(cycles[n].submitted, cycles[n].completed)'
               /\ \A i, j \in Bulks : Adjacent(i, j)' =>
                    \E n \in DOMAIN cycles : cycles[n].submitted = i /\ cycles[n].completed = j
    BY DEF Joined
  <2>2. ASSUME NEW n \in DOMAIN cycles, cycles[n].submitted # None, cycles[n].completed # None
        PROVE  Adjacent(cycles[n].submitted, cycles[n].completed)'
    <3>1. Adjacent(cycles[n].submitted, cycles[n].completed)
      BY <2>2 DEF Pairing, Joined
    <3> QED BY <3>1 DEF Adjacent
  <2> QED BY <2>1, <2>2 DEF Pairing, Joined
<1>4. Due'
  BY DEF Pairing, Due, Latest
<1> QED BY <1>1, <1>2, <1>3, <1>4 DEF Pairing

LEMMA NamesTurn ==
  ASSUME Tables, Names, NEW i \in Nat, Correlate(stream[i]), i = read + 1, UNCHANGED stream,
         stream[i].bulk => Adds(i), ~stream[i].bulk => Bulks' = Bulks,
         stream[i].irp \in Irps, stream[i].completion \in BOOLEAN
  PROVE  /\ Names' /\ Extends(aliases, aliases') /\ named' \in Seq(Entry)
         /\ Len(named') \in {Len(named), Len(named) + 1}
<1>1. aliases \in Seq(Irps) /\ NoneTwice(aliases) /\ named \in Seq(Entry) /\ DOMAIN named = 1..Len(named)
  BY DEF Tables
<1>2. CASE ~stream[i].bulk
  <2>1. aliases' = aliases /\ named' = named /\ Bulks' = Bulks /\ stream' = stream
    BY <1>2 DEF Correlate
  <2>2. Names'
    BY <2>1 DEF Names
  <2>3. Extends(aliases, aliases')
    BY <1>1, <2>1 DEF Extends
  <2> QED BY <1>1, <2>1, <2>2, <2>3
<1>3. CASE stream[i].bulk
  <2>1. PICK o, d : /\ o = Operation(aliases', stream[i].irp)
                    /\ d = [index |-> i, operation |-> o, completion |-> stream[i].completion]
    OBVIOUS
  <2>2. aliases' = SetDefault(aliases, stream[i].irp)
    BY <1>3, Zenon DEF Correlate
  <2>3. Extends(aliases, aliases') /\ o \in DOMAIN aliases' /\ aliases'[o] = stream[i].irp
    BY <1>1, <2>1, <2>2, SetDefaultIs
  <2>4. o \in Nat
    <3>1. aliases' \in Seq(Irps)
      BY <2>3 DEF Extends
    <3> QED BY <2>3, <3>1
  <2>5. d \in Entry /\ d.index = i /\ d.operation = o /\ d.completion = stream[i].completion
    BY <2>1, <2>4 DEF Entry
  <2>6. named' = Append(named, d)
    BY <1>3, <2>1, Zenon DEF Correlate
  <2>7. /\ named' \in Seq(Entry) /\ Len(named') = Len(named) + 1 /\ named'[Len(named) + 1] = d
        /\ \A n \in 1..Len(named) : named'[n] = named[n]
    BY <1>1, <2>5, <2>6, AppendProperties
  <2>8. PICK l : l = Len(named) + 1
    OBVIOUS
  <2>9. DOMAIN named' = DOMAIN named \cup {l} /\ named'[l] = d
    BY <1>1, <2>7, <2>8
  <2>10. Bulks' = Bulks \cup {i} /\ stream' = stream
    BY <1>3 DEF Adds
  <2>11. \A n \in DOMAIN aliases : n \in DOMAIN aliases' /\ aliases'[n] = aliases[n]
    BY <2>3 DEF Extends
  <2>12. ASSUME NEW m \in DOMAIN named'
         PROVE  /\ named'[m].index \in Bulks' /\ named'[m].completion = stream'[named'[m].index].completion
                /\ named'[m].operation \in DOMAIN aliases'
                /\ aliases'[named'[m].operation] = stream'[named'[m].index].irp
    <3>1. CASE m = l
      BY <2>3, <2>5, <2>9, <2>10, <3>1
    <3>2. CASE m \in DOMAIN named
      <4>1. named'[m] = named[m]
        BY <1>1, <2>7, <3>2
      <4>2. /\ named[m].index \in Bulks /\ named[m].completion = stream[named[m].index].completion
            /\ named[m].operation \in DOMAIN aliases
            /\ aliases[named[m].operation] = stream[named[m].index].irp
        BY <3>2 DEF Names
      <4> QED BY <2>10, <2>11, <4>1, <4>2
    <3> QED BY <2>9, <3>1, <3>2
  <2>13. ASSUME NEW k \in Bulks' PROVE \E m \in DOMAIN named' : named'[m].index = k
    <3>1. CASE k = i
      BY <2>5, <2>9, <3>1
    <3>2. CASE k \in Bulks
      <4>1. PICK m \in DOMAIN named : named[m].index = k
        BY <3>2 DEF Names
      <4>2. m \in DOMAIN named' /\ named'[m] = named[m]
        BY <1>1, <2>7, <2>9
      <4> QED BY <4>1, <4>2
    <3> QED BY <2>10, <3>1, <3>2
  <2>14. Names'
    BY <2>12, <2>13 DEF Names
  <2> QED BY <2>3, <2>7, <2>14
<1> QED BY <1>2, <1>3

LEMMA PairTurn ==
  ASSUME Tables, Pairing, NEW i \in Nat, Pair(stream[i]), i = read + 1, UNCHANGED stream,
         stream[i].bulk => Adds(i), ~stream[i].bulk => Bulks' = Bulks,
         stream[i].irp \in Irps, \A k \in Bulks : stream[k].irp \in Irps
  PROVE  /\ Pairing' /\ cycles' \in Seq(Cycle) /\ Len(cycles') \in {Len(cycles), Len(cycles) + 1}
         /\ counts' \in [Irps -> Nat] /\ pending' \in [Irps -> Nat]
<1>1. /\ operations \in Seq(Irps) /\ NoneTwice(operations) /\ cycles \in Seq(Cycle)
      /\ counts \in [Irps -> Nat] /\ pending \in [Irps -> Nat]
  BY DEF Tables
<1>2. PICK p \in Irps : p = stream[i].irp
  OBVIOUS
<1>3. CASE ~stream[i].bulk
  <2>1. UNCHANGED <<operations, counts, pending, cycles>>
    BY <1>3, Zenon DEF Pair
  <2>2. Pairing'
    BY <1>3, <2>1, PairingStays
  <2> QED BY <1>1, <2>1, <2>2
<1>4. CASE stream[i].bulk /\ ~stream[i].completion
  <2>1. operations' = SetDefault(operations, p) /\ Submission(p)
    BY <1>2, <1>4, Zenon DEF Pair
  <2>2. NewCycle(p, i, None)
    BY <2>1 DEF Submission
  <2>3. pending' = [pending EXCEPT ![p] = Len(cycles')]
    BY <2>1, Zenon DEF Submission
  <2>4. /\ Opened(p, i, None) /\ Extends(operations, operations')
        /\ cycles' \in Seq(Cycle) /\ Len(cycles') = Len(cycles) + 1 /\ counts' \in [Irps -> Nat]
    BY <2>1, <2>2, NewCycleIs DEF None
  <2>5. PICK l \in Nat : Longer(l, i, None)
    BY <2>4, OpenedIs
  <2>6. l = Len(cycles')
    BY <2>4, <2>5 DEF Longer
  <2>7. pending' \in [Irps -> Nat] /\ \A q \in Irps : pending'[q] = IF q = p THEN l ELSE pending[q]
    BY <1>1, <2>3, <2>6
  <2>8. Adds(i)
    BY <1>4
  <2>9. Whose' /\ Labels'
    BY <1>2, <1>4, <2>4, <2>8, OpenedWhose
  <2>10. Once'
    BY <2>4, <2>8, OpenedOnce
  <2>11. Joined'
    BY <1>2, <1>4, <2>4, <2>8, OpenedJoined
  <2>12. Due'
    BY <1>2, <2>4, <2>5, <2>7, <2>8, SubmittedDue
  <2> QED BY <2>4, <2>7, <2>9, <2>10, <2>11, <2>12 DEF Pairing
<1>5. CASE stream[i].bulk /\ stream[i].completion /\ pending[p] = None
  <2>1. operations' = SetDefault(operations, p) /\ Completion(p)
    BY <1>2, <1>5, Zenon DEF Pair
  <2>2. NewCycle(p, None, i) /\ pending' = pending
    BY <1>5, <2>1 DEF Completion
  <2>3. /\ Opened(p, None, i) /\ Extends(operations, operations')
        /\ cycles' \in Seq(Cycle) /\ Len(cycles') = Len(cycles) + 1 /\ counts' \in [Irps -> Nat]
    BY <2>1, <2>2, NewCycleIs DEF None
  <2>4. PICK l \in Nat : Longer(l, None, i)
    BY <2>3, OpenedIs
  <2>5. Adds(i)
    BY <1>5
  <2>6. Whose' /\ Labels'
    BY <1>2, <1>5, <2>3, <2>5, OpenedWhose
  <2>7. Once'
    BY <2>3, <2>5, OpenedOnce
  <2>8. Joined'
    BY <1>2, <1>5, <2>3, <2>5, OpenedJoined
  <2>9. Due'
    BY <1>2, <1>5, <2>2, <2>4, <2>5, CompletedDue
  <2> QED BY <1>1, <2>2, <2>3, <2>6, <2>7, <2>8, <2>9 DEF Pairing
<1>6. CASE stream[i].bulk /\ stream[i].completion /\ pending[p] # None
  <2>1. operations' = SetDefault(operations, p) /\ Completion(p)
    BY <1>2, <1>6, Zenon DEF Pair
  <2>2. PICK e : e = pending[p]
    OBVIOUS
  <2>3. cycles' = [cycles EXCEPT ![e].completed = i] /\ pending' = [pending EXCEPT ![p] = None] /\ counts' = counts
    BY <1>6, <2>1, <2>2, Zenon DEF Completion
  <2>4. e # None /\ e \in DOMAIN cycles
    BY <1>6, <2>2 DEF Pairing, Due
  <2>5. Closed(e, i) /\ cycles' \in Seq(Cycle) /\ Len(cycles') = Len(cycles)
    BY <2>3, <2>4, ClosedIs
  <2>6. pending' \in [Irps -> Nat] /\ \A q \in Irps : pending'[q] = IF q = p THEN None ELSE pending[q]
    BY <1>1, <2>3 DEF None
  <2>7. Adds(i)
    BY <1>6
  <2>8. Extends(operations, operations')
    BY <1>1, <2>1, SetDefaultIs
  <2>9. Pairing'
    BY <1>2, <1>6, <2>2, <2>3, <2>4, <2>5, <2>6, <2>7, <2>8, ClosedPairing
  <2> QED BY <1>1, <2>3, <2>5, <2>6, <2>9
<1> QED BY <1>3, <1>4, <1>5, <1>6

Passes == Tables /\ Names /\ Pairing

\* One record read.
LEMMA ReadStep == ASSUME Types, Order, Passes, ReadRecord PROVE Passes'
<1>1. PICK i \in DOMAIN stream : Turn(i)
  BY TurnIs DEF Passes
<1>2. /\ Bulks \subseteq DOMAIN stream
      /\ stream[i].bulk => Adds(i)
      /\ ~stream[i].bulk => Bulks' = Bulks
  BY <1>1, BulksTurn DEF Passes
<1>3. stream[i].irp \in Irps /\ stream[i].completion \in BOOLEAN /\ \A k \in Bulks : stream[k].irp \in Irps
  BY <1>2 DEF Order, Sides
<1>4. i \in Nat /\ i = read + 1 /\ read' = i /\ i <= WholeIn(disk) /\ life # "open"
      /\ UNCHANGED <<stream, disk, life>>
      /\ Correlate(stream[i]) /\ Pair(stream[i])
  <2>1. i \in Nat
    BY StreamIs DEF Types, Bus
  <2> QED BY <1>1, <2>1 DEF Turn
<1>5. Tables /\ Names /\ Pairing
  BY DEF Passes
<1>6. /\ Names' /\ Extends(aliases, aliases') /\ named' \in Seq(Entry)
      /\ Len(named') \in {Len(named), Len(named) + 1}
  BY <1>2, <1>3, <1>4, <1>5, NamesTurn
<1>7. /\ Pairing' /\ cycles' \in Seq(Cycle) /\ Len(cycles') \in {Len(cycles), Len(cycles) + 1}
      /\ counts' \in [Irps -> Nat] /\ pending' \in [Irps -> Nat]
  BY <1>2, <1>3, <1>4, <1>5, PairTurn
<1>8. operations' = aliases'
  <2>1. operations = aliases
    BY <1>5 DEF Tables
  <2>2. CASE stream[i].bulk
    <3>1. aliases' = SetDefault(aliases, stream[i].irp)
      BY <1>4, <2>2, Zenon DEF Correlate
    <3>2. operations' = SetDefault(operations, stream[i].irp)
      BY <1>4, <2>2, Zenon DEF Pair
    <3> QED BY <2>1, <3>1, <3>2
  <2>3. CASE ~stream[i].bulk
    <3>1. aliases' = aliases
      BY <1>4, <2>3, Zenon DEF Correlate
    <3>2. operations' = operations
      BY <1>4, <2>3, Zenon DEF Pair
    <3> QED BY <2>1, <3>1, <3>2
  <2> QED BY <2>2, <2>3
<1>9. aliases' \in Seq(Irps) /\ NoneTwice(aliases')
  BY <1>6 DEF Extends
<1>10. read' \in 0..WholeIn(disk') /\ (life' = "open" => read' = 0)
  <2>1. WholeIn(disk) \in 0..Len(stream) /\ Len(stream) \in Nat
    BY FileWithin, StreamIs DEF Types, Bus
  <2>2. disk' = disk /\ life' = life
    BY <1>1 DEF Turn
  <2> QED BY <1>4, <2>1, <2>2
<1>11. Len(named') <= read' /\ Len(cycles') <= read'
  <2>1. Len(named) \in Nat /\ Len(cycles) \in Nat /\ Len(named) <= read /\ Len(cycles) <= read
    BY <1>5 DEF Tables
  <2>2. read \in Nat
    BY <1>5 DEF Tables
  <2> QED BY <1>4, <1>6, <1>7, <2>1, <2>2
<1>12. Tables'
  BY <1>6, <1>7, <1>8, <1>9, <1>10, <1>11, Zenon DEF Tables
<1> QED BY <1>6, <1>7, <1>12 DEF Passes

\* No other step touches the tables: while the segment is open nothing is read.
LEMMA PassesStep == ASSUME Types, Order, Passes, [Next]_vars PROVE Passes'
<1>1. /\ Len(stream) \in Nat /\ DOMAIN stream = 1..Len(stream) /\ WholeIn(disk) \in 0..Len(stream)
      /\ read \in 0..WholeIn(disk) /\ disk \in Nat
  <2>1. Len(stream) \in Nat /\ DOMAIN stream = 1..Len(stream) /\ WholeIn(disk) \in 0..Len(stream)
    BY StreamIs, FileWithin DEF Types, Bus
  <2>2. read \in 0..WholeIn(disk)
    BY DEF Passes, Tables
  <2>3. disk \in Nat
    <3>1. arrived \in 0..End(Len(stream)) /\ disk \in 0..arrived
      BY DEF Types, Cells
    <3> QED BY <2>1, <3>1 DEF End
  <2> QED BY <2>1, <2>2, <2>3
\* Before the tools have read anything, their answers say nothing of the stream.
<1>2. ASSUME read = 0, UNCHANGED toolVars, WholeIn(disk') \in Nat PROVE Passes'
  <2>1. /\ read' = 0 /\ aliases' = aliases /\ operations' = operations /\ named' = named
        /\ cycles' = cycles /\ counts' = counts /\ pending' = pending
    BY <1>2 DEF toolVars
  <2>2. Bulks = {} /\ Bulks' = {}
    BY <1>2, <2>1 DEF Bulks
  <2>3. named = <<>> /\ cycles = <<>>
    BY <1>2 DEF Passes, Tables
  <2>4. DOMAIN named' = {} /\ DOMAIN cycles' = {}
    BY <2>1, <2>3
  <2>5. Tables'
    BY <1>2, <2>1 DEF Passes, Tables, NoneTwice
  <2>6. Names'
    BY <2>2, <2>4 DEF Names
  <2>7. Whose' /\ Labels' /\ Once' /\ Joined'
    BY <2>2, <2>4 DEF Whose, Labels, Once, Joined
  <2>8. Due'
    <3>1. \A p \in Irps : pending[p] = None
      BY <2>1, <2>4 DEF Passes, Pairing, Due
    <3> QED BY <2>1, <2>2, <3>1 DEF Due
  <2> QED BY <2>5, <2>6, <2>7, <2>8 DEF Passes, Pairing
<1>3. ASSUME NEW irp \in Irps, Submit(irp) \/ Complete(irp) PROVE Passes'
  <2>1. arrived = 0 /\ UNCHANGED <<writerVars, toolVars>> /\ life = "open"
    BY <1>3, BusTypes DEF Submit, Complete
  <2>2. read = 0 /\ disk' = disk
    BY <2>1 DEF Passes, Tables, writerVars
  <2> QED BY <1>1, <1>2, <2>1, <2>2
<1>4. CASE Writer /\ UNCHANGED <<stream, toolVars>>
  <2>1. life = "open"
    BY <1>4, FeedIs DEF Writer, ReadFails, Close
  <2>2. read = 0
    BY <2>1 DEF Passes, Tables
  <2>3. disk' \in Nat
    <3>1. Types'
      BY TypesStep
    <3>2. arrived' \in 0..End(Len(stream)) /\ disk' \in 0..arrived'
      BY <1>4, <3>1 DEF Types, Cells
    <3> QED BY <1>1, <3>2 DEF End
  <2>4. WholeIn(disk') \in Nat
    BY <2>3, WholeIs
  <2> QED BY <1>2, <1>4, <2>2, <2>4
<1>5. CASE ReadRecord
  BY <1>5, ReadStep
<1>6. CASE UNCHANGED vars
  <2>1. /\ stream' = stream /\ disk' = disk /\ life' = life /\ read' = read /\ aliases' = aliases
        /\ operations' = operations /\ named' = named /\ cycles' = cycles /\ counts' = counts /\ pending' = pending
    BY <1>6 DEF vars, writerVars, toolVars
  <2>2. Bulks' = Bulks
    BY <2>1 DEF Bulks
  <2>3. Tables'
    BY <2>1 DEF Passes, Tables, NoneTwice
  <2>4. Names'
    BY <2>1, <2>2, Zenon DEF Passes, Names
  <2>5. \A i, j : Adjacent(i, j)' <=> Adjacent(i, j)
    BY <2>1, <2>2, Zenon DEF Adjacent
  <2>6. Whose' /\ Labels' /\ Once' /\ Joined' /\ Due'
    BY <2>1, <2>2, <2>5 DEF Passes, Pairing, Whose, OfPointer, Labels, Once, Has, Joined, Due, Latest
  <2> QED BY <2>3, <2>4, <2>6 DEF Passes, Pairing
<1> QED BY <1>3, <1>4, <1>5, <1>6 DEF Next, Writer, vars

LEMMA AlwaysPasses == Spec => []Passes
<1>1. ASSUME Init PROVE Passes
  <2>1. /\ read = 0 /\ aliases = <<>> /\ named = <<>> /\ operations = <<>> /\ cycles = <<>>
        /\ counts = [irp \in Irps |-> 0] /\ pending = [irp \in Irps |-> None] /\ disk = 0
    BY <1>1 DEF Init, ToolsInit, WriterInit
  <2>2. Bulks = {} /\ DOMAIN named = {} /\ DOMAIN cycles = {} /\ DOMAIN aliases = {}
    BY <2>1 DEF Bulks
  <2>3. \A p \in Irps : pending[p] = None
    BY <2>1
  <2>4. counts \in [Irps -> Nat] /\ pending \in [Irps -> Nat]
    BY <2>1 DEF None
  <2>5. Tables
    BY <2>1, <2>2, <2>4 DEF Tables, NoneTwice, WholeIn
  <2>6. Names
    BY <2>2 DEF Names
  <2>7. Pairing
    BY <2>2, <2>3 DEF Pairing, Whose, Labels, Once, Joined, Due
  <2> QED BY <2>5, <2>6, <2>7 DEF Passes
<1> QED BY <1>1, PassesStep, AlwaysTypes, AlwaysOrder, PTL DEF Spec

-----------------------------------------------------------------------------
(* What the tools say of the file. *)

\* What is read is in the file, and the file in the stream.
LEMMA ReadIs ==
  ASSUME Types, Passes
  PROVE  /\ read \in 0..Len(stream) /\ Len(stream) \in Nat /\ DOMAIN stream = 1..Len(stream)
         /\ DOMAIN SubSeq(stream, 1, read) = 1..read
         /\ \A i \in 1..read : i \in DOMAIN stream /\ SubSeq(stream, 1, read)[i] = stream[i]
         /\ BulkIndex(SubSeq(stream, 1, read)) = Bulks
<1>1. /\ WholeIn(disk) \in 0..Len(stream) /\ Len(stream) \in Nat /\ DOMAIN stream = 1..Len(stream)
      /\ Stream
  BY FileWithin, StreamIs DEF Types, Bus
<1>2. read \in 0..WholeIn(disk)
  BY DEF Passes, Tables
<1>3. read \in 0..Len(stream)
  BY <1>1, <1>2
<1>4. /\ DOMAIN SubSeq(stream, 1, read) = 1..read
      /\ \A i \in 1..read : SubSeq(stream, 1, read)[i] = stream[i]
  BY <1>1, <1>3, FirstRecords
<1>5. BulkIndex(SubSeq(stream, 1, read)) = Bulks
  BY <1>4 DEF BulkIndex, Bulks
<1> QED BY <1>1, <1>3, <1>4, <1>5

\* A cycle joins the two records of one request, unless the two records that
\* would tell the requests apart are missing.
LEMMA CycleIsReal ==
  ASSUME Types, Order, Passes, NEW n \in DOMAIN cycles,
         cycles[n].submitted # None, cycles[n].completed # None,
         stream[cycles[n].submitted].request # stream[cycles[n].completed].request
  PROVE  {<<stream[cycles[n].submitted].request, TRUE>>,
          <<stream[cycles[n].completed].request, FALSE>>} \subseteq lost
<1>1. PICK i, j : i = cycles[n].submitted /\ j = cycles[n].completed
  OBVIOUS
<1>2. Adjacent(i, j)
  BY <1>1 DEF Passes, Pairing, Joined
<1>3. i \in Bulks /\ j \in Bulks
  BY <1>1 DEF Passes, Pairing, Whose, OfPointer
<1>4. i \in 1..read /\ j \in 1..read /\ stream[i].bulk /\ stream[j].bulk
  BY <1>3 DEF Bulks
<1>5. /\ i \in DOMAIN stream /\ j \in DOMAIN stream /\ i < j
      /\ read \in Nat /\ DOMAIN stream = 1..Len(stream)
  BY <1>2, <1>4, ReadIs DEF Adjacent
<1>6. \A k \in DOMAIN stream : i < k /\ k < j /\ stream[k].bulk => stream[k].irp # stream[i].irp
  <2>1. ASSUME NEW k \in DOMAIN stream, k < j, stream[k].bulk PROVE k \in Bulks
    <3>1. Len(stream) \in Nat
      BY ReadIs
    <3>2. k \in 1..read
      BY <1>4, <1>5, <2>1, <3>1
    <3> QED BY <2>1, <3>2 DEF Bulks
  <2> QED BY <1>2, <2>1 DEF Adjacent
<1>7. stream[i].irp = stream[j].irp /\ ~stream[i].completion /\ stream[j].completion
  BY <1>2 DEF Adjacent
<1> QED BY <1>1, <1>4, <1>5, <1>6, <1>7, MissingBetween

\* The cycles are the requests.
THEOREM CyclesArePaired == Spec => []CyclesAreReal
<1>1. ASSUME Types, Order, Passes PROVE CyclesAreReal
  <2> DEFINE rs == SubSeq(stream, 1, read)
             Paired(c) == c.submitted # None /\ c.completed # None
  <2>1. /\ read \in Nat /\ BulkIndex(rs) = Bulks
        /\ \A i \in 1..read : i \in DOMAIN stream /\ rs[i] = stream[i]
    BY <1>1, ReadIs
  <2>2. \A i \in Bulks : i \in DOMAIN stream /\ rs[i] = stream[i] /\ i # None /\ i \in Nat
    BY <2>1 DEF Bulks, None
  <2> HIDE DEF rs
  <2>3. ASSUME NEW n \in DOMAIN cycles, Paired(cycles[n])
        PROVE  LET s == rs[cycles[n].submitted].request
                   c == rs[cycles[n].completed].request
               IN  s = c \/ {<<s, TRUE>>, <<c, FALSE>>} \subseteq lost
    <3>1. cycles[n].submitted \in Bulks /\ cycles[n].completed \in Bulks
      BY <1>1, <2>3 DEF Passes, Pairing, Whose, OfPointer
    <3> QED BY <1>1, <2>2, <2>3, <3>1, CycleIsReal
  <2>4. ASSUME NEW i \in Bulks, NEW j \in Bulks, i < j, rs[i].request = rs[j].request
        PROVE  \E n \in DOMAIN cycles : cycles[n].submitted = i /\ cycles[n].completed = j
    <3>1. /\ stream[i].irp = stream[j].irp /\ ~stream[i].completion /\ stream[j].completion
          /\ \A k \in DOMAIN stream : i < k /\ k < j => stream[k].irp # stream[i].irp
      BY <1>1, <2>2, <2>4, NothingBetween DEF Types, Bus
    <3>2. Adjacent(i, j)
      BY <2>2, <2>4, <3>1 DEF Adjacent
    <3> QED BY <1>1, <3>2 DEF Passes, Pairing, Joined
  <2>5. ASSUME NEW i \in Bulks
        PROVE  Cardinality({n \in DOMAIN cycles : i \in {cycles[n].submitted, cycles[n].completed}}) = 1
    <3>1. PICK n \in DOMAIN cycles : Has(n, i)
      BY <1>1 DEF Passes, Pairing, Once
    <3>2. \A m \in DOMAIN cycles : Has(m, i) => m = n
      BY <1>1, <3>1 DEF Passes, Pairing, Once
    <3>3. {m \in DOMAIN cycles : i \in {cycles[m].submitted, cycles[m].completed}} = {n}
      BY <3>1, <3>2 DEF Has
    <3> QED BY <3>3, FS_Singleton
  <2>6. \A m, n \in DOMAIN cycles :
          (cycles[m].operation = cycles[n].operation /\ cycles[m].number = cycles[n].number) => m = n
    BY <1>1 DEF Passes, Pairing, Labels
  <2>7. \A n \in DOMAIN cycles : Paired(cycles[n]) =>
          LET s == rs[cycles[n].submitted].request
              c == rs[cycles[n].completed].request
          IN  s = c \/ {<<s, TRUE>>, <<c, FALSE>>} \subseteq lost
    BY <2>3, Zenon
  <2>8. \A i, j \in BulkIndex(rs) :
          (i < j /\ rs[i].request = rs[j].request) =>
            \E n \in DOMAIN cycles : cycles[n].submitted = i /\ cycles[n].completed = j
    BY <2>1, <2>4
  <2>9. \A i \in BulkIndex(rs) :
          Cardinality({n \in DOMAIN cycles : i \in {cycles[n].submitted, cycles[n].completed}}) = 1
    BY <2>1, <2>5, Zenon
  <2> QED BY <2>6, <2>7, <2>8, <2>9 DEF CyclesAreReal, rs
<1> QED BY <1>1, AlwaysTypes, AlwaysOrder, AlwaysPasses, PTL

\* An entry is at the record of its index, and every bulk record has one.
LEMMA EntryIs ==
  ASSUME Passes, NEW e \in ToSet(named)
  PROVE  /\ e.index \in Bulks /\ e.completion = stream[e.index].completion
         /\ e.operation \in DOMAIN aliases /\ aliases[e.operation] = stream[e.index].irp
<1>1. PICK m \in DOMAIN named : e = named[m]
  BY DEF ToSet
<1> QED BY <1>1 DEF Passes, Names

LEMMA EntryOf ==
  ASSUME Passes, NEW i \in Bulks
  PROVE  \E e \in ToSet(named) : e.index = i /\ e.completion = stream[i].completion
<1>1. PICK m \in DOMAIN named : named[m].index = i
  BY DEF Passes, Names
<1>2. named[m] \in ToSet(named)
  BY DEF ToSet
<1> QED BY <1>1, <1>2, EntryIs

\* The cycle of a record names it as correlate_bulk_transfers does.
LEMMA OneName ==
  ASSUME Passes, NEW n \in DOMAIN cycles, NEW e \in ToSet(named),
         e.index \in {cycles[n].submitted, cycles[n].completed}
  PROVE  e.operation = cycles[n].operation /\ (e.completion <=> e.index = cycles[n].completed)
<1>1. /\ e.index \in Bulks /\ e.completion = stream[e.index].completion
      /\ e.operation \in DOMAIN aliases /\ aliases[e.operation] = stream[e.index].irp
  BY EntryIs
<1>2. e.index # None
  BY <1>1 DEF Bulks, None, Passes, Tables
<1>3. operations = aliases /\ NoneTwice(aliases)
  BY DEF Passes, Tables
<1>4. cycles[n].operation \in DOMAIN aliases /\ aliases[cycles[n].operation] = stream[e.index].irp
  BY <1>2, <1>3 DEF Passes, Pairing, Whose, OfPointer
<1>5. e.operation = cycles[n].operation
  BY <1>1, <1>3, <1>4 DEF NoneTwice
<1>6. e.index = cycles[n].completed => stream[e.index].completion
  BY <1>2 DEF Passes, Pairing, Whose
<1>7. e.index # cycles[n].completed => ~stream[e.index].completion
  BY <1>2 DEF Passes, Pairing, Whose
<1> QED BY <1>1, <1>5, <1>6, <1>7

\* What a tool finds at a record read.
LEMMA Finds ==
  ASSUME Types, Order, Passes, NEW i \in 1..read
  PROVE  LET r == SubSeq(stream, 1, read)[i]
         IN  /\ Outbound(r, 5) => Outbound(r, 4)
             /\ SmallInbound(r, 5) => SmallInbound(r, 4)
             /\ Outbound(r, 4) => i \in Bulks /\ stream[i].completion = FALSE /\ r.ep # InData
             /\ SmallInbound(r, 4) => i \in Bulks /\ stream[i].completion = TRUE /\ ~(r.length > 128)
             /\ (Outbound(r, 4) \/ SmallInbound(r, 4)) /\ r.ours /\ r.kept = r.length => DataRecord(r)
<1>1. PICK r : r = stream[i]
  OBVIOUS
<1>2. SubSeq(stream, 1, read)[i] = r /\ i \in DOMAIN stream
  BY <1>1, ReadIs
<1>3. r.length \in Nat /\ r.kept \in Nat /\ r.completion \in BOOLEAN
  BY <1>1, <1>2 DEF Order, Sides, Says
<1>4. r.bulk => i \in Bulks
  BY <1>1 DEF Bulks
<1>5. Outbound(r, 5) => Outbound(r, 4)
  BY <1>3 DEF Outbound
<1>6. SmallInbound(r, 5) => SmallInbound(r, 4)
  BY <1>3 DEF SmallInbound
<1>7. Outbound(r, 4) => r.bulk /\ r.completion = FALSE /\ r.ep # InData
  BY <1>3 DEF Outbound, OutData, InData
<1>8. SmallInbound(r, 4) => r.bulk /\ r.completion = TRUE /\ ~(r.length > 128)
  BY <1>3 DEF SmallInbound
<1>9. (Outbound(r, 4) \/ SmallInbound(r, 4)) /\ r.ours /\ r.kept = r.length => DataRecord(r)
  BY <1>3 DEF Outbound, SmallInbound, DataRecord, ReaderRecord, DataSide
<1> QED BY <1>1, <1>2, <1>4, <1>5, <1>6, <1>7, <1>8, <1>9

\* A record counted, by the request it is of.
Counted(x, r) ==
  /\ r.bulk /\ r.ours /\ r.ep \in {OutData, InData} /\ r.length \in 1..Snaplen
  /\ x.completion = (r.ep = InData)

LEMMA DataIs ==
  ASSUME Types, Order, Passes, NEW i \in 1..read
  PROVE  /\ stream[i].request \in 1..submitted
         /\ DataRecord(stream[i]) <=> Counted(stream[i], requests[stream[i].request])
<1>1. i \in DOMAIN stream
  BY ReadIs
<1>2. PICK x, r : x = stream[i] /\ r = requests[stream[i].request]
  OBVIOUS
<1>3. stream[i].request \in 1..submitted /\ x.completion \in BOOLEAN /\ Says(x, r)
  BY <1>1, <1>2 DEF Order, Sides
<1>4. r.length \in Nat
  <2>1. submitted \in 0..Len(requests) /\ requests \in Seq([bulk : BOOLEAN, ours : BOOLEAN, ep : Nat, framed : BOOLEAN, length : Nat])
    BY WindowsAssumption DEF Types, Bus
  <2>2. stream[i].request \in 1..Len(requests)
    BY <1>3, <2>1
  <2>3. r \in [bulk : BOOLEAN, ours : BOOLEAN, ep : Nat, framed : BOOLEAN, length : Nat]
    BY <1>2, <2>1, <2>2, ElementOfSeq
  <2> QED BY <2>3
<1>5. DataRecord(x) <=> Counted(x, r)
  BY <1>3, <1>4, BoundsAssumption
     DEF Says, DataRecord, ReaderRecord, DataSide, Counted, OutData, InData
<1> QED BY <1>2, <1>3, <1>5

\* Of the two records of a transfer one has its data.
LEMMA DataOnce ==
  ASSUME Types, Order, Passes, NEW i \in DataRecords(SubSeq(stream, 1, read)),
         NEW j \in DataRecords(SubSeq(stream, 1, read)), stream[i].request = stream[j].request
  PROVE  i = j
<1>1. i \in 1..read /\ j \in 1..read /\ DataSide(stream[i]) /\ DataSide(stream[j])
  BY ReadIs DEF DataRecords, DataRecord
<1>2. i \in DOMAIN stream /\ j \in DOMAIN stream /\ i \in Int /\ j \in Int
  BY <1>1, ReadIs
<1>3. stream[i].ep = stream[j].ep
  BY <1>2 DEF Order, Sides, Says
<1>4. \A a, b \in DOMAIN stream : a < b /\ stream[a].request = stream[b].request =>
        ~stream[a].completion /\ stream[b].completion
  BY Zenon DEF Order, Ordered
<1>5. ASSUME NEW a \in {i, j}, NEW b \in {i, j}, a < b PROVE FALSE
  <2>1. ~stream[a].completion /\ stream[b].completion /\ stream[a].ep = stream[b].ep
    BY <1>2, <1>3, <1>4, <1>5
  <2>2. DataSide(stream[a]) /\ DataSide(stream[b])
    BY <1>1
  <2> QED BY <2>1, <2>2 DEF DataSide, OutData, InData
<1> QED BY <1>2, <1>5

\* What has as many values as members.
LEMMA OneToOne ==
  ASSUME NEW S, IsFiniteSet(S), NEW f, DOMAIN f = S, \A x, y \in S : f[x] = f[y] => x = y
  PROVE  Cardinality({f[x] : x \in S}) = Cardinality(S)
<1> DEFINE T == {f[x] : x \in S}
           g == [x \in S |-> f[x]]
<1>1. g \in [S -> T] /\ \A x \in S : g[x] = f[x]
  OBVIOUS
<1>2. \A y \in T : \E x \in S : g[x] = y
  OBVIOUS
<1>3. \A x, y \in S : g[x] = g[y] => x = y
  BY <1>1
<1> HIDE DEF g, T
<1>4. g \in Surjection(S, T) /\ g \in Injection(S, T)
  BY <1>1, <1>2, <1>3 DEF Surjection, Injection, IsInjective
<1>5. Cardinality(T) = Cardinality(S)
  BY <1>4, FS_Surjection
<1> QED BY <1>5 DEF T

\* Two sets without a common element are together no more than what has both.
LEMMA TogetherWithin ==
  ASSUME NEW S, IsFiniteSet(S), NEW A \in SUBSET S, NEW B \in SUBSET S, A \cap B = {}
  PROVE  Cardinality(A) + Cardinality(B) <= Cardinality(S)
<1>1. IsFiniteSet(A) /\ IsFiniteSet(B)
  BY FS_Subset
<1>2. Cardinality(A \cup B) = Cardinality(A) + Cardinality(B) - 0
  BY <1>1, FS_Union, FS_EmptySet
<1>3. Cardinality(A \cup B) <= Cardinality(S)
  <2>1. A \cup B \in SUBSET S
    OBVIOUS
  <2> QED BY <2>1, FS_Subset
<1>4. Cardinality(A) \in Nat /\ Cardinality(B) \in Nat
  BY <1>1, FS_CardinalityType
<1> QED BY <1>2, <1>3, <1>4

\* The tools' answers can be joined.
THEOREM ToolsSayTheSame == Spec => []ToolsAgree
<1>1. ASSUME Types, Good, Order, Passes PROVE ToolsAgree
  <2> DEFINE rs == SubSeq(stream, 1, read)
             Side(completion) == {e.index : e \in {f \in ToSet(named) : f.completion = completion}}
             Small == OutboundEnvelopes(rs) \cup SmallInboundEnvelopes(rs)
             Whole == {i \in Small : rs[i].ours /\ rs[i].kept = rs[i].length}
             Data == DataRecords(rs)
             f == [i \in Data |-> rs[i].request]
             DataRead(q) == \E i \in DOMAIN rs :
               rs[i].request = q /\ rs[i].completion = (requests[q].ep = InData)
             Transfers == {q \in 1..submitted :
               /\ requests[q].bulk /\ requests[q].ours /\ requests[q].ep \in {OutData, InData}
               /\ requests[q].length \in 1..Snaplen /\ DataRead(q)}
  <2>1. read \in Nat /\ DOMAIN rs = 1..read /\ BulkIndex(rs) = Bulks /\ \A i \in 1..read : rs[i] = stream[i]
    BY <1>1, ReadIs
  <2>2. \A i \in DOMAIN rs :
          /\ Outbound(rs[i], 5) => Outbound(rs[i], 4)
          /\ SmallInbound(rs[i], 5) => SmallInbound(rs[i], 4)
          /\ Outbound(rs[i], 4) => i \in Bulks /\ stream[i].completion = FALSE /\ rs[i].ep # InData
          /\ SmallInbound(rs[i], 4) => i \in Bulks /\ stream[i].completion = TRUE /\ ~(rs[i].length > 128)
          /\ (Outbound(rs[i], 4) \/ SmallInbound(rs[i], 4)) /\ rs[i].ours /\ rs[i].kept = rs[i].length =>
               DataRecord(rs[i])
    BY <1>1, <2>1, Finds
  <2>18. \A i, j \in Data : rs[i].request = rs[j].request => i = j
    <3>1. \A i \in Data : rs[i] = stream[i]
      BY <2>1 DEF DataRecords
    <3> QED BY <1>1, <3>1, DataOnce
  <2> HIDE DEF rs
  <2>3. \A i \in Bulks : i \in Side(stream[i].completion)
    BY <1>1, EntryOf
  <2>4. Readable => \A tool \in Tools : Accepts(tool, OnDisk, FALSE)
    BY <1>1, AllAccept
  <2>5. {e.index : e \in ToSet(named)} = BulkIndex(rs)
    BY <1>1, <2>1, EntryIs, EntryOf
  <2>6. \A c \in ToSet(cycles), e \in ToSet(named) :
          e.index \in {c.submitted, c.completed} =>
            e.operation = c.operation /\ (e.completion <=> e.index = c.completed)
    <3> SUFFICES ASSUME NEW c \in ToSet(cycles), NEW e \in ToSet(named), e.index \in {c.submitted, c.completed}
                 PROVE  e.operation = c.operation /\ (e.completion <=> e.index = c.completed)
      OBVIOUS
    <3>1. PICK n \in DOMAIN cycles : c = cycles[n]
      BY DEF ToSet
    <3> QED BY <1>1, <3>1, OneName
  <2>7. OutboundCommands(rs) \subseteq OutboundEnvelopes(rs)
    BY <2>2 DEF OutboundCommands, OutboundEnvelopes
  <2>8. OutboundEnvelopes(rs) \subseteq Side(FALSE)
    <3>1. \A i \in OutboundEnvelopes(rs) : i \in Bulks /\ stream[i].completion = FALSE
      BY <2>2 DEF OutboundEnvelopes
    <3> QED BY <2>3, <3>1
  <2>9. SmallInboundCommands(rs) \subseteq SmallInboundEnvelopes(rs)
    BY <2>2 DEF SmallInboundCommands, SmallInboundEnvelopes
  <2>10. SmallInboundEnvelopes(rs) \subseteq Side(TRUE)
    <3>1. \A i \in SmallInboundEnvelopes(rs) : i \in Bulks /\ stream[i].completion = TRUE
      BY <2>2 DEF SmallInboundEnvelopes
    <3> QED BY <2>3, <3>1
  <2>11. IsFiniteSet(DOMAIN rs)
    BY <2>1, FS_Interval
  <2>12. Data \in SUBSET DOMAIN rs
    BY DEF DataRecords
  <2>13. IsFiniteSet(Data)
    BY <2>11, <2>12, FS_Subset
  <2>19. {rs[i].request : i \in Data} = Transfers
    <3>1. ASSUME NEW i \in Data PROVE rs[i].request \in Transfers
      <4>1. i \in DOMAIN rs /\ i \in 1..read /\ DataRecord(rs[i]) /\ rs[i] = stream[i]
        BY <2>1 DEF DataRecords
      <4>2. PICK q : q = rs[i].request
        OBVIOUS
      <4>3. q \in 1..submitted /\ Counted(rs[i], requests[q])
        BY <1>1, <4>1, <4>2, DataIs
      <4>4. DataRead(q)
        BY <4>1, <4>2, <4>3 DEF Counted
      <4> HIDE DEF DataRead
      <4> QED BY <4>2, <4>3, <4>4 DEF Counted
    <3>2. ASSUME NEW q \in Transfers PROVE \E i \in Data : rs[i].request = q
      <4>1. PICK i \in DOMAIN rs : rs[i].request = q /\ rs[i].completion = (requests[q].ep = InData)
        OBVIOUS
      <4>2. i \in 1..read /\ rs[i] = stream[i]
        BY <2>1
      <4>3. Counted(rs[i], requests[q])
        BY <4>1 DEF Counted
      <4>4. DataRecord(rs[i])
        BY <1>1, <4>1, <4>2, <4>3, DataIs
      <4> QED BY <4>1, <4>4 DEF DataRecords
    <3> QED BY <3>1, <3>2
  <2>14. Cardinality({rs[i].request : i \in Data}) = Cardinality(Data)
    <3>1. DOMAIN f = Data /\ \A x, y \in Data : f[x] = f[y] => x = y
      BY <2>18
    <3>2. {f[x] : x \in Data} = {rs[i].request : i \in Data}
      OBVIOUS
    <3> HIDE DEF f, Data
    <3>3. Cardinality({f[x] : x \in Data}) = Cardinality(Data)
      BY <2>13, <3>1, OneToOne
    <3> QED BY <3>2, <3>3
  <2>15. Cardinality(Whole) + Cardinality(LargeRecords(rs)) <= Cardinality(Data)
    <3>1. Whole \in SUBSET Data
      BY <2>2 DEF OutboundEnvelopes, SmallInboundEnvelopes, DataRecords
    <3>2. LargeRecords(rs) \in SUBSET Data /\ Whole \cap LargeRecords(rs) = {}
      BY <2>2 DEF OutboundEnvelopes, SmallInboundEnvelopes, LargeRecords
    <3> QED BY <2>13, <3>1, <3>2, TogetherWithin
  <2>16. /\ Summary(rs).large_reader_in_records = Cardinality(LargeRecords(rs))
         /\ Summary(rs).reader_data_records = Cardinality(Data)
    BY DEF Summary
  <2>17. /\ Cardinality(Whole) + Summary(rs).large_reader_in_records <= Summary(rs).reader_data_records
         /\ Summary(rs).reader_data_records = Cardinality(Transfers)
    BY <2>14, <2>15, <2>16, <2>19
  <2> QED BY <2>4, <2>5, <2>6, <2>7, <2>8, <2>9, <2>10, <2>17, Zenon DEF ToolsAgree, rs
<1> QED BY <1>1, AlwaysTypes, AlwaysGood, AlwaysOrder, AlwaysPasses, PTL

\* Types, of the bus, of the writer and of the tools.
THEOREM FileTypes == Spec => []TypeOK
<1>1. ASSUME Types, Passes PROVE TypeOK
  <2>1. WriterTypeOK
    BY <1>1 DEF Types, Cells, Flags, WriterTypeOK
  <2>2. \A irp \in Irps : flight[irp] \in 0..submitted
    BY <1>1 DEF Types, Bus
  <2>3. read \in 0..WholeIn(disk)
    BY <1>1 DEF Passes, Tables
  <2>4. Len(named) \in 0..read /\ Len(cycles) \in 0..read
    <3>1. read \in Nat
      BY <1>1, ReadIs
    <3>2. named \in Seq(Entry) /\ Len(named) <= read /\ cycles \in Seq(Cycle) /\ Len(cycles) <= read
      BY <1>1 DEF Passes, Tables
    <3> QED BY <3>1, <3>2
  <2>5. \A irp \in Irps : pending[irp] \in 0..Len(cycles)
    <3>1. cycles \in Seq(Cycle)
      BY <1>1 DEF Passes, Tables
    <3>2. \A irp \in Irps : pending[irp] = 0 \/ pending[irp] \in DOMAIN cycles
      BY <1>1 DEF Passes, Pairing, Due, None
    <3> QED BY <3>1, <3>2
  <2> QED BY <1>1, <2>1, <2>2, <2>3, <2>4, <2>5 DEF Types, Bus, Busy, TypeOK
<1> QED BY <1>1, AlwaysTypes, AlwaysPasses, PTL

=============================================================================
