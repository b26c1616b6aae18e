------------------------- MODULE FrameBuffer_proofs ----
(* However the reader's frames are cut into transfers and padded, receive()
   gives them back in order, without a gap, and finds fault with none of them,
   and what it does to whole frames is what ReaderLink says: for frames, buffers
   and padding of any size. *)
EXTENDS FrameBuffer, SequenceTheorems, FiniteSetTheorems, FunctionTheorems, TLAPS

\* A byte of a frame; its last one; padding has position 0.
FrameCell(c, z) == c[1] \in 1..Len(z) /\ c[2] \in 1..Header + z[c[1]]
Ends(c, z) == c[2] = Header + z[c[1]]
Real(c) == c[2] # 0
Within(c, d, z) == c[2] + d <= Header + z[c[1]]   \* d bytes on is the same frame
Ahead(e, c, d) == e[1] = c[1] /\ e[2] = c[2] + d
Starts(d, f) == d[1] = f /\ d[2] = 1

\* Consecutive bytes of consecutive frames, with padding behind them only.
Unbroken(s, z) ==
  /\ \A i \in 1..Len(s) : Real(s[i]) => FrameCell(s[i], z)
  /\ \A i, j \in 1..Len(s) :
       i <= j /\ Real(s[i]) /\ Within(s[i], j - i, z)
         => Ahead(s[j], s[i], j - i)
  /\ \A i \in 1..Len(s) - 1 :
       Real(s[i]) /\ Ends(s[i], z) /\ Real(s[i + 1]) => Starts(s[i + 1], s[i][1] + 1)
  /\ \A i, j \in 1..Len(s) : i <= j /\ Real(s[j]) => Real(s[i]) /\ s[i][1] <= s[j][1]

NoPads(s) == \A i \in 1..Len(s) : Real(s[i])

\* t has the n bytes of s behind its own first k; s begins frame f.
Carries(t, k, s, n) == \A i \in 1..n : t[k + i] = s[i]
Begins(s, f) == \A i \in 1..Len(s) : s[i][1] = f /\ s[i][2] = i
PaddedBehind(t, n) == \A i \in n + 1..Len(t) : ~Real(t[i])

\* On the wire there are whole frames up to the last one sent, but for the head
\* of the first.
OnTheWire ==
  /\ Unbroken(wire, sizes)
  /\ wire # <<>> => Ends(wire[Len(wire)], sizes) /\ wire[Len(wire)][1] = Len(sizes)

\* A buffer that begins with a frame goes on without a gap, and onto the wire
\* unless a chunk was thrown away behind it.
InStep == buffer # <<>> /\ buffer[1][2] = 1
LastReal(b, i) == Real(b[i]) /\ (i < Len(b) => ~Real(b[i + 1]))
Joins(b, w, z) ==
  \A i \in 1..Len(b) : LastReal(b, i) =>
    /\ ~Ends(b[i], z) => i = Len(b) /\ w # <<>> /\ Ahead(w[1], b[i], 1)
    /\ Ends(b[i], z) /\ w = <<>> => b[i][1] = Len(z)
    /\ Ends(b[i], z) /\ w # <<>> => Starts(w[1], b[i][1] + 1)
Tied == Joins(buffer, wire, sizes)

InTheBuffer ==
  /\ buffer # <<>> => Real(buffer[1])
  /\ InStep => Unbroken(buffer, sizes)
  /\ InStep /\ (~lost \/ state # "invalid_usb_read_size") => Tied

\* What was returned is older than all that is still to come.
Older ==
  /\ \A i, j \in 1..Len(received) : i < j => received[i] < received[j]
  /\ InStep => \A i \in 1..Len(buffer), k \in 1..Len(wire) :
                 Real(buffer[i]) => buffer[i][1] <= wire[k][1]
  /\ \A i \in 1..Len(received) :
       /\ received[i] <= Len(sizes)
       /\ \A k \in 1..Len(wire) : received[i] < wire[k][1]
       /\ InStep => \A k \in 1..Len(buffer) : Real(buffer[k]) => received[i] < buffer[k][1]

\* Until bytes are thrown away, the frame after the last one returned is next.
Expected ==
  /\ \A i \in 1..Len(received) : received[i] = i
  /\ buffer # <<>> => Starts(buffer[1], Len(received) + 1)
  /\ buffer = <<>> /\ wire # <<>> => Starts(wire[1], Len(received) + 1)
  /\ buffer = <<>> /\ wire = <<>> => Len(received) = Len(sizes)
  /\ \A f \in Len(received) + 1..Len(sizes) :
       (\E k \in 1..Len(buffer) : Starts(buffer[k], f)) \/ (\E k \in 1..Len(wire) : Starts(wire[k], f))

Receiving ==
  /\ OnTheWire /\ InTheBuffer /\ Older
  /\ ~lost => Expected
  /\ state = "invalid_usb_frame_header" => lost
-----------------------------------------------------------------------------
(* Cells, and sequences of them. *)

LEMMA Numbers ==
  /\ Header \in Nat /\ MaxBody \in Nat /\ Limit \in Nat /\ MaxPad \in Nat /\ MaxFrames \in Nat
  /\ Header > 0 /\ MaxBody > 0 /\ Limit > 0 /\ MaxFrames > 0
BY SizesAssumption

LEMMA CellIsPair ==
  ASSUME NEW c \in Cells
  PROVE  /\ c[1] \in Nat /\ c[2] \in Nat /\ c = <<c[1], c[2]>>
         /\ c = Pad <=> ~Real(c)
         /\ Real(c) => c \in (1..MaxFrames) \X (1..Header + MaxBody)
BY Numbers DEF Cells, Pad, Real

\* What Unbroken says of two given bytes.
LEMMA Along ==
  ASSUME NEW s, NEW z, Unbroken(s, z), NEW i \in 1..Len(s), NEW j \in 1..Len(s), i <= j,
         Real(s[i]), NEW d, d = j - i, Within(s[i], d, z)
  PROVE  Ahead(s[j], s[i], d)
BY DEF Unbroken

LEMMA ShortOfTheEnd ==
  ASSUME NEW z, NEW c, c[2] \in Nat, z[c[1]] \in Nat, NEW d \in Nat, NEW e \in Nat, d < e,
         Within(c, e, z)
  PROVE  Within(c, d, z) /\ \A g : Ahead(g, c, d) => ~Ends(g, z)
<1>1. Header \in Nat
  BY Numbers
<1>2. c[2] + d < Header + z[c[1]]
  BY <1>1 DEF Within
<1>3. Within(c, d, z)
  BY <1>1, <1>2 DEF Within
<1>4. ASSUME NEW g, Ahead(g, c, d) PROVE ~Ends(g, z)
  BY <1>1, <1>2, <1>4 DEF Ahead, Ends
<1> QED BY <1>3, <1>4

LEMMA OneMore ==
  ASSUME NEW z \in Seq(Nat), NEW c \in Cells, FrameCell(c, z), ~Ends(c, z)
  PROVE  Within(c, 1, z)
<1>1. z[c[1]] \in Nat /\ c[2] \in Nat /\ Header \in Nat
  BY ElementOfSeq, CellIsPair, Numbers DEF FrameCell
<1> QED BY <1>1 DEF FrameCell, Ends, Within

LEMMA AtTheTurn ==
  ASSUME NEW s, NEW z, Unbroken(s, z), NEW i \in 1..Len(s) - 1, NEW j, j = i + 1,
         Real(s[i]), Ends(s[i], z), Real(s[j])
  PROVE  Starts(s[j], s[i][1] + 1)
BY DEF Unbroken

LEMMA InOrderOf ==
  ASSUME NEW s, NEW z, Unbroken(s, z), NEW i \in 1..Len(s), NEW j \in 1..Len(s), i <= j,
         Real(s[j])
  PROVE  Real(s[i]) /\ s[i][1] <= s[j][1]
BY DEF Unbroken

\* The bytes behind the m-th are as unbroken as the whole.
LEMMA RestUnbroken ==
  ASSUME NEW s \in Seq(Cells), NEW z \in Seq(Nat), NEW m \in 1..Len(s) + 1, Unbroken(s, z)
  PROVE  /\ From(s, m) \in Seq(Cells) /\ Len(From(s, m)) = Len(s) - m + 1
         /\ \A i \in 1..Len(From(s, m)) : From(s, m)[i] = s[m + i - 1]
         /\ Unbroken(From(s, m), z)
<1> DEFINE t == From(s, m)
<1>1. Len(s) \in Nat
  BY LenProperties
<1>2. \A i \in m..Len(s) : s[i] \in Cells
  BY <1>1, ElementOfSeq
<1>3. /\ t \in Seq(Cells)
      /\ Len(t) = IF m <= Len(s) THEN Len(s) - m + 1 ELSE 0
      /\ \A i \in 1..Len(s) - m + 1 : t[i] = s[m + i - 1]
  BY <1>1, <1>2, SubSeqProperties DEF From
<1>4. Len(t) = Len(s) - m + 1
  BY <1>1, <1>3
<1>5. \A i \in 1..Len(t) : t[i] = s[m + i - 1] /\ m + i - 1 \in 1..Len(s)
  BY <1>1, <1>3, <1>4
<1> HIDE DEF t
<1>6. \A i \in 1..Len(t) : Real(t[i]) => FrameCell(t[i], z)
  BY <1>5 DEF Unbroken
<1>7. \A i, j \in 1..Len(t) :
        i <= j /\ Real(t[i]) /\ Within(t[i], j - i, z)
          => Ahead(t[j], t[i], j - i)
  <2> SUFFICES ASSUME NEW i \in 1..Len(t), NEW j \in 1..Len(t), i <= j, Real(t[i]),
                      Within(t[i], j - i, z)
               PROVE  Ahead(t[j], t[i], j - i)
    OBVIOUS
  <2> DEFINE a == m + i - 1
             b == m + j - 1
             d == j - i
  <2>1. a \in 1..Len(s) /\ b \in 1..Len(s) /\ t[i] = s[a] /\ t[j] = s[b]
    BY <1>5
  <2>2. b - a = d /\ a <= b
    BY <1>1, <1>4
  <2> HIDE DEF a, b, d
  <2>3. Real(s[a]) /\ d = b - a /\ Within(s[a], d, z)
    BY <2>1, <2>2 DEF d
  <2>4. Ahead(s[b], s[a], d)
    BY <2>1, <2>2, <2>3, Along
  <2> QED BY <2>1, <2>4 DEF d
<1>8. \A i \in 1..Len(t) - 1 :
        Real(t[i]) /\ Ends(t[i], z) /\ Real(t[i + 1]) => Starts(t[i + 1], t[i][1] + 1)
  <2> SUFFICES ASSUME NEW i \in 1..Len(t) - 1, Real(t[i]), Ends(t[i], z), Real(t[i + 1])
               PROVE  Starts(t[i + 1], t[i][1] + 1)
    OBVIOUS
  <2>1. m + i - 1 \in 1..Len(s) - 1 /\ (m + i - 1) + 1 = m + (i + 1) - 1 /\ i \in 1..Len(t) /\ i + 1 \in 1..Len(t)
    BY <1>1, <1>4
  <2> QED BY <1>5, <2>1 DEF Unbroken
<1>9. \A i, j \in 1..Len(t) : i <= j /\ Real(t[j]) => Real(t[i]) /\ t[i][1] <= t[j][1]
  <2> SUFFICES ASSUME NEW i \in 1..Len(t), NEW j \in 1..Len(t), i <= j, Real(t[j])
               PROVE  Real(t[i]) /\ t[i][1] <= t[j][1]
    OBVIOUS
  <2> DEFINE a == m + i - 1
             b == m + j - 1
  <2>1. a \in 1..Len(s) /\ b \in 1..Len(s) /\ t[i] = s[a] /\ t[j] = s[b]
    BY <1>5
  <2>2. a <= b
    BY <1>1, <1>4
  <2> HIDE DEF a, b
  <2> QED BY <2>1, <2>2, InOrderOf
<1> QED BY <1>3, <1>4, <1>5, <1>6, <1>7, <1>8, <1>9 DEF Unbroken, t

\* A chunk: the first n bytes, and padding if the n-th ends a frame.
LEMMA ChunkUnbroken ==
  ASSUME NEW s \in Seq(Cells), NEW z \in Seq(Nat), NEW n \in 1..Len(s), NEW t \in Seq(Cells),
         Unbroken(s, z), NoPads(s), Len(t) >= n,
         Carries(t, 0, s, n), PaddedBehind(t, n), Len(t) > n => Ends(s[n], z)
  PROVE  Unbroken(t, z)
<1>1. Len(s) \in Nat /\ Len(t) \in Nat
  BY LenProperties
<1>2. \A i \in 1..Len(t) : (Real(t[i]) <=> i <= n) /\ (i <= n => t[i] = s[i] /\ i \in 1..Len(s))
  <2> SUFFICES ASSUME NEW i \in 1..Len(t)
               PROVE  (Real(t[i]) <=> i <= n) /\ (i <= n => t[i] = s[i] /\ i \in 1..Len(s))
    OBVIOUS
  <2>1. CASE i <= n
    <3>1. i \in 1..n /\ i \in 1..Len(s) /\ 0 + i = i
      BY <1>1, <2>1
    <3>2. t[i] = s[i]
      BY <3>1 DEF Carries
    <3> QED BY <2>1, <3>1, <3>2 DEF NoPads
  <2>2. CASE i > n
    <3>1. i \in n + 1..Len(t)
      BY <1>1, <2>2
    <3> QED BY <1>1, <2>2, <3>1 DEF PaddedBehind
  <2> QED BY <1>1, <2>1, <2>2
<1>3. \A i \in 1..Len(t) : Real(t[i]) => FrameCell(t[i], z)
  BY <1>2 DEF Unbroken
<1>4. \A i, j \in 1..Len(t) :
        i <= j /\ Real(t[i]) /\ Within(t[i], j - i, z)
          => Ahead(t[j], t[i], j - i)
  <2> SUFFICES ASSUME NEW i \in 1..Len(t), NEW j \in 1..Len(t), i <= j, Real(t[i]),
                      Within(t[i], j - i, z)
               PROVE  Ahead(t[j], t[i], j - i)
    OBVIOUS
  <2>1. i <= n /\ t[i] = s[i] /\ i \in 1..Len(s)
    BY <1>2
  <2>2. CASE j <= n
    <3> DEFINE d == j - i
    <3>1. t[j] = s[j] /\ j \in 1..Len(s)
      BY <1>2, <2>2
    <3> HIDE DEF d
    <3>2. d = j - i
      BY DEF d
    <3>3. Within(s[i], d, z) /\ Real(s[i])
      BY <2>1, <3>2
    <3>4. Ahead(s[j], s[i], d)
      BY <2>1, <3>1, <3>2, <3>3, Along
    <3> QED BY <2>1, <3>1, <3>2, <3>4
  <2>3. CASE j > n
    <3> DEFINE d == n - i
    <3>1. Ends(s[n], z)
      BY <1>1, <2>3
    <3>2. s[i] \in Cells /\ FrameCell(s[i], z) /\ Real(s[i])
      BY <2>1, ElementOfSeq DEF Unbroken, NoPads
    <3>3. s[i][2] \in Nat /\ s[i][1] \in Nat
      BY <3>2, CellIsPair
    <3>4. z[s[i][1]] \in Nat
      BY <3>2, ElementOfSeq DEF FrameCell
    <3>5. Within(s[i], j - i, z)
      BY <2>1
    <3>6. d \in Nat /\ d < j - i /\ j - i \in Nat /\ i <= n /\ d = n - i
      BY <1>1, <2>1, <2>3
    <3> HIDE DEF d
    <3>7. Within(s[i], d, z) /\ \A g : Ahead(g, s[i], d) => ~Ends(g, z)
      BY <3>3, <3>4, <3>5, <3>6, ShortOfTheEnd
    <3>8. Ahead(s[n], s[i], d)
      BY <2>1, <3>2, <3>6, <3>7, Along
    <3> QED BY <3>1, <3>7, <3>8
  <2> QED BY <1>1, <2>2, <2>3
<1>5. \A i \in 1..Len(t) - 1 :
        Real(t[i]) /\ Ends(t[i], z) /\ Real(t[i + 1]) => Starts(t[i + 1], t[i][1] + 1)
  <2> SUFFICES ASSUME NEW i \in 1..Len(t) - 1, Real(t[i]), Ends(t[i], z), Real(t[i + 1])
               PROVE  Starts(t[i + 1], t[i][1] + 1)
    OBVIOUS
  <2>1. i \in 1..Len(t) /\ i + 1 \in 1..Len(t)
    BY <1>1
  <2>2. i + 1 <= n /\ i \in 1..Len(s) - 1 /\ t[i] = s[i] /\ t[i + 1] = s[i + 1]
    BY <1>1, <1>2, <2>1
  <2> QED BY <2>2 DEF Unbroken
<1>6. \A i, j \in 1..Len(t) : i <= j /\ Real(t[j]) => Real(t[i]) /\ t[i][1] <= t[j][1]
  <2> SUFFICES ASSUME NEW i \in 1..Len(t), NEW j \in 1..Len(t), i <= j, Real(t[j])
               PROVE  Real(t[i]) /\ t[i][1] <= t[j][1]
    OBVIOUS
  <2>1. j <= n /\ i <= n /\ t[i] = s[i] /\ t[j] = s[j] /\ i \in 1..Len(s) /\ j \in 1..Len(s)
    BY <1>1, <1>2
  <2> QED BY <2>1 DEF Unbroken
<1> QED BY <1>3, <1>4, <1>5, <1>6 DEF Unbroken

\* The beginning of a frame in the buffer and its rest on the wire.
LEMMA JoinUnbroken ==
  ASSUME NEW b \in Seq(Cells), NEW s \in Seq(Cells), NEW t \in Seq(Cells), NEW z \in Seq(Nat),
         NEW f \in 1..Len(z),
         Unbroken(s, z), NoPads(s), s # <<>>, s[1][1] = f, s[1][2] = Len(b) + 1,
         Len(b) < Header + z[f], Begins(b, f), Len(t) = Len(b) + Len(s),
         Carries(t, 0, b, Len(b)), Carries(t, Len(b), s, Len(s))
  PROVE  Unbroken(t, z) /\ NoPads(t)
<1>1. /\ Len(b) \in Nat /\ Len(s) \in Nat /\ Len(t) \in Nat /\ z[f] \in Nat /\ f \in Nat
      /\ Len(s) > 0
  <2>1. Len(s) \in Nat \ {0}
    BY EmptySeq
  <2> QED BY <2>1, LenProperties, ElementOfSeq
<1>2. \A i \in 1..Len(t) : i <= Len(b) => t[i][1] = f /\ t[i][2] = i
  <2> SUFFICES ASSUME NEW i \in 1..Len(t), i <= Len(b) PROVE t[i][1] = f /\ t[i][2] = i
    OBVIOUS
  <2>1. i \in 1..Len(b) /\ 0 + i = i
    BY <1>1
  <2> QED BY <2>1 DEF Carries, Begins
<1>3. \A i \in 1..Len(t) : i > Len(b) => i - Len(b) \in 1..Len(s) /\ t[i] = s[i - Len(b)]
  <2> SUFFICES ASSUME NEW i \in 1..Len(t), i > Len(b)
               PROVE  i - Len(b) \in 1..Len(s) /\ t[i] = s[i - Len(b)]
    OBVIOUS
  <2>1. i - Len(b) \in 1..Len(s) /\ Len(b) + (i - Len(b)) = i
    BY <1>1
  <2>2. t[Len(b) + (i - Len(b))] = s[i - Len(b)]
    BY <2>1 DEF Carries
  <2> QED BY <2>1, <2>2
<1>4. \A i \in 1..Len(s) : Real(s[i]) /\ FrameCell(s[i], z) /\ f <= s[i][1]
  <2>1. 1 \in 1..Len(s)
    BY <1>1
  <2> QED BY <1>1, <2>1, InOrderOf DEF Unbroken, NoPads
<1>5. \A i \in 1..Len(t) : Real(t[i]) /\ FrameCell(t[i], z)
  <2> SUFFICES ASSUME NEW i \in 1..Len(t) PROVE Real(t[i]) /\ FrameCell(t[i], z)
    OBVIOUS
  <2>1. CASE i <= Len(b)
    <3>1. t[i][1] = f /\ t[i][2] = i /\ i \in 1..Header + z[f]
      BY <1>1, <1>2, <2>1, Numbers
    <3> QED BY <3>1 DEF FrameCell, Real
  <2>2. CASE i > Len(b)
    BY <1>3, <1>4, <2>2
  <2> QED BY <1>1, <2>1, <2>2
<1>6. \A j \in 1..Len(s) : Len(b) + j <= Header + z[f] => s[j][1] = f /\ s[j][2] = Len(b) + j
  <2> SUFFICES ASSUME NEW j \in 1..Len(s), Len(b) + j <= Header + z[f]
               PROVE  s[j][1] = f /\ s[j][2] = Len(b) + j
    OBVIOUS
  <2> DEFINE d == j - 1
  <2>1. 1 \in 1..Len(s) /\ 1 <= j /\ (Len(b) + 1) + d = Len(b) + j /\ Real(s[1])
    BY <1>1, <1>4
  <2> HIDE DEF d
  <2>2. d = j - 1 /\ Within(s[1], d, z)
    BY <2>1 DEF d, Within
  <2>3. Ahead(s[j], s[1], d)
    BY <2>1, <2>2, Along
  <2> QED BY <2>1, <2>3 DEF Ahead
<1>7. \A i, j \in 1..Len(t) :
        i <= j /\ Within(t[i], j - i, z)
          => Ahead(t[j], t[i], j - i)
  <2> SUFFICES ASSUME NEW i \in 1..Len(t), NEW j \in 1..Len(t), i <= j,
                      Within(t[i], j - i, z)
               PROVE  Ahead(t[j], t[i], j - i)
    OBVIOUS
  <2>0. i \in Int /\ j \in Int
    BY <1>1
  <2>1. CASE j <= Len(b)
    <3>1. i <= Len(b) /\ i + (j - i) = j
      BY <1>1, <2>0, <2>1
    <3> QED BY <1>2, <2>1, <3>1 DEF Ahead
  <2>2. CASE i <= Len(b) /\ j > Len(b)
    <3>1. t[i][1] = f /\ t[i][2] = i /\ j - Len(b) \in 1..Len(s) /\ t[j] = s[j - Len(b)]
      BY <1>2, <1>3, <2>2
    <3>2. i + (j - i) = j /\ Len(b) + (j - Len(b)) = j
      BY <1>1, <2>0
    <3>3. j <= Header + z[f]
      BY <3>1, <3>2 DEF Within
    <3> QED BY <1>6, <3>1, <3>2, <3>3 DEF Ahead
  <2>3. CASE i > Len(b)
    <3> DEFINE a == i - Len(b)
               c == j - Len(b)
               d == j - i
    <3>0. j > Len(b)
      BY <1>1, <2>0, <2>3
    <3>1. a \in 1..Len(s) /\ t[i] = s[a] /\ c \in 1..Len(s) /\ t[j] = s[c]
      BY <1>3, <2>3, <3>0
    <3>2. d = c - a /\ a <= c
      BY <1>1, <2>0
    <3> HIDE DEF a, c, d
    <3>3. Real(s[a]) /\ Within(s[a], d, z)
      BY <1>4, <3>1 DEF d
    <3>4. Ahead(s[c], s[a], d)
      BY <3>1, <3>2, <3>3, Along
    <3> QED BY <3>1, <3>4 DEF d
  <2> QED BY <1>1, <2>0, <2>1, <2>2, <2>3
<1>8. \A i \in 1..Len(t) - 1 : Ends(t[i], z) => Starts(t[i + 1], t[i][1] + 1)
  <2> SUFFICES ASSUME NEW i \in 1..Len(t) - 1, Ends(t[i], z)
               PROVE  Starts(t[i + 1], t[i][1] + 1)
    OBVIOUS
  <2>0. i \in 1..Len(t) /\ i + 1 \in 1..Len(t)
    BY <1>1
  <2>1. i > Len(b)
    <3> SUFFICES ASSUME i <= Len(b) PROVE FALSE
      BY <1>1
    <3>1. t[i][1] = f /\ t[i][2] = i
      BY <1>2, <2>0
    <3> QED BY <1>1, <3>1, Numbers DEF Ends
  <2> DEFINE a == i - Len(b)
             c == (i + 1) - Len(b)
  <2>2. t[i] = s[a] /\ t[i + 1] = s[c] /\ c \in 1..Len(s) /\ a \in 1..Len(s)
    <3>1. i + 1 > Len(b)
      BY <1>1, <2>1
    <3> QED BY <1>3, <2>0, <2>1, <3>1
  <2>3. c = a + 1 /\ a \in 1..Len(s) - 1
    BY <1>1, <2>2
  <2> HIDE DEF a, c
  <2>4. Real(s[a]) /\ Real(s[c]) /\ Ends(s[a], z)
    BY <1>4, <2>2
  <2>5. Starts(s[c], s[a][1] + 1)
    BY <2>3, <2>4, AtTheTurn
  <2> QED BY <2>2, <2>5
<1>9. \A i, j \in 1..Len(t) : i <= j => t[i][1] <= t[j][1]
  <2> SUFFICES ASSUME NEW i \in 1..Len(t), NEW j \in 1..Len(t), i <= j
               PROVE  t[i][1] <= t[j][1]
    OBVIOUS
  <2>1. CASE j <= Len(b)
    <3>1. i <= Len(b)
      BY <1>1, <2>1
    <3> QED BY <1>1, <1>2, <2>1, <3>1
  <2>2. CASE i <= Len(b) /\ j > Len(b)
    BY <1>2, <1>3, <1>4, <2>2
  <2>3. CASE i > Len(b)
    <3> DEFINE a == i - Len(b)
               c == j - Len(b)
    <3>0. j > Len(b) /\ a <= c
      BY <1>1, <2>3
    <3>1. a \in 1..Len(s) /\ t[i] = s[a] /\ c \in 1..Len(s) /\ t[j] = s[c]
      BY <1>3, <2>3, <3>0
    <3> HIDE DEF a, c
    <3> QED BY <1>4, <3>0, <3>1, InOrderOf
  <2> QED BY <1>1, <2>1, <2>2, <2>3
<1> QED BY <1>5, <1>7, <1>8, <1>9 DEF Unbroken, NoPads

\* The reader sends one frame more.
LEMMA OneMoreSize ==
  ASSUME NEW z \in Seq(Nat), NEW n \in Nat, NEW c, FrameCell(c, z)
  PROVE  /\ FrameCell(c, Append(z, n)) /\ Append(z, n)[c[1]] = z[c[1]]
         /\ Ends(c, Append(z, n)) <=> Ends(c, z)
         /\ \A d : Within(c, d, Append(z, n)) <=> Within(c, d, z)
<1>1. /\ Len(z) \in Nat /\ Len(Append(z, n)) = Len(z) + 1
      /\ \A i \in 1..Len(z) : Append(z, n)[i] = z[i]
  BY LenProperties, AppendProperties
<1>2. c[1] \in 1..Len(z) /\ c[1] \in 1..Len(z) + 1
  BY <1>1 DEF FrameCell
<1>3. Append(z, n)[c[1]] = z[c[1]]
  BY <1>1, <1>2
<1> QED BY <1>1, <1>2, <1>3 DEF FrameCell, Ends, Within

LEMMA StillUnbroken ==
  ASSUME NEW s \in Seq(Cells), NEW z \in Seq(Nat), NEW n \in Nat, Unbroken(s, z)
  PROVE  Unbroken(s, Append(z, n))
<1> DEFINE y == Append(z, n)
<1>1. \A i \in 1..Len(s) : Real(s[i]) =>
        /\ FrameCell(s[i], z) /\ FrameCell(s[i], y)
        /\ Ends(s[i], y) => Ends(s[i], z)
        /\ \A d : Within(s[i], d, y) => Within(s[i], d, z)
  BY OneMoreSize DEF Unbroken
<1> HIDE DEF y
<1>2. ASSUME NEW i \in 1..Len(s), NEW j \in 1..Len(s), i <= j, Real(s[i]), Within(s[i], j - i, y)
      PROVE  Ahead(s[j], s[i], j - i)
  BY <1>1, <1>2 DEF Unbroken
<1>3. ASSUME NEW i \in 1..Len(s) - 1, Real(s[i]), Ends(s[i], y), Real(s[i + 1])
      PROVE  Starts(s[i + 1], s[i][1] + 1)
  <2>1. Len(s) \in Nat
    BY LenProperties
  <2>2. i \in 1..Len(s)
    BY <2>1
  <2> QED BY <1>1, <1>3, <2>2 DEF Unbroken
<1>4. \A i, j \in 1..Len(s) : i <= j /\ Real(s[j]) => Real(s[i]) /\ s[i][1] <= s[j][1]
  BY DEF Unbroken
<1> QED BY <1>1, <1>2, <1>3, <1>4 DEF Unbroken, y

LEMMA LongerUnbroken ==
  ASSUME NEW s \in Seq(Cells), NEW z \in Seq(Nat), NEW n \in Nat \ {0}, NEW g \in Seq(Cells),
         NEW t \in Seq(Cells),
         Unbroken(s, z), NoPads(s),
         s # <<>> => Ends(s[Len(s)], z) /\ s[Len(s)][1] = Len(z),
         Begins(g, Len(z) + 1), Len(g) = Header + n, Len(t) = Len(s) + Len(g),
         Carries(t, 0, s, Len(s)), Carries(t, Len(s), g, Len(g))
  PROVE  Unbroken(t, Append(z, n))
<1> DEFINE y == Append(z, n)
           f == Len(z) + 1
           L == Len(s)
<1>1. /\ L \in Nat /\ Len(g) \in Nat /\ Len(t) \in Nat /\ Len(z) \in Nat /\ f \in Nat
      /\ Header \in Nat /\ Header > 0 /\ L + Len(g) = Len(t) /\ Header + n \in Nat
  BY LenProperties, Numbers
<1>2. y \in Seq(Nat) /\ Len(y) = f /\ y[f] = n
  BY AppendProperties
<1>3. Unbroken(s, y)
  BY StillUnbroken
<1> HIDE DEF y
<1>4. \A i \in 1..Len(t) : i <= L => i \in 1..L /\ t[i] = s[i] /\ Real(s[i]) /\ FrameCell(s[i], z)
  <2> SUFFICES ASSUME NEW i \in 1..Len(t), i <= L
               PROVE  i \in 1..L /\ t[i] = s[i] /\ Real(s[i]) /\ FrameCell(s[i], z)
    OBVIOUS
  <2>1. i \in 1..L /\ 0 + i = i
    BY <1>1
  <2> QED BY <2>1 DEF Carries, NoPads, Unbroken
<1>5. \A i \in 1..Len(t) : i > L => t[i][1] = f /\ t[i][2] = i - L /\ i - L \in 1..Header + n
  <2> SUFFICES ASSUME NEW i \in 1..Len(t), i > L
               PROVE  t[i][1] = f /\ t[i][2] = i - L /\ i - L \in 1..Header + n
    OBVIOUS
  <2>1. i - L \in 1..Len(g) /\ L + (i - L) = i
    BY <1>1
  <2>2. t[i] = g[i - L]
    BY <2>1 DEF Carries
  <2> QED BY <2>1, <2>2 DEF Begins
<1>6. \A i \in 1..Len(t) : Real(t[i]) /\ FrameCell(t[i], y)
  <2> SUFFICES ASSUME NEW i \in 1..Len(t) PROVE Real(t[i]) /\ FrameCell(t[i], y)
    OBVIOUS
  <2>1. CASE i <= L
    BY <1>3, <1>4, <2>1 DEF Unbroken
  <2>2. CASE i > L
    <3>1. t[i][1] = f /\ t[i][2] = i - L /\ i - L \in 1..Header + n
      BY <1>5, <2>2
    <3>2. i - L # 0 /\ f \in 1..Len(y) /\ i - L \in 1..Header + y[f]
      BY <1>1, <1>2, <2>2, <3>1
    <3> HIDE DEF f
    <3> QED BY <3>1, <3>2 DEF FrameCell, Real
  <2> QED BY <1>1, <2>1, <2>2
<1>7. \A i, j \in 1..Len(t) :
        i <= j /\ Within(t[i], j - i, y) => Ahead(t[j], t[i], j - i)
  <2> SUFFICES ASSUME NEW i \in 1..Len(t), NEW j \in 1..Len(t), i <= j, Within(t[i], j - i, y)
               PROVE  Ahead(t[j], t[i], j - i)
    OBVIOUS
  <2>0. i \in Nat /\ j \in Nat /\ i >= 1
    BY <1>1
  <2>1. CASE j <= L
    <3> DEFINE d == j - i
    <3>1. i <= L
      BY <1>1, <2>0, <2>1
    <3>2. t[i] = s[i] /\ t[j] = s[j] /\ i \in 1..L /\ j \in 1..L /\ Real(s[i])
      BY <1>4, <2>1, <3>1
    <3>3. d = j - i /\ Within(s[i], d, y)
      BY <3>2
    <3> HIDE DEF d
    <3>4. Ahead(s[j], s[i], d)
      BY <1>3, <3>2, <3>3, Along
    <3> QED BY <3>2, <3>3, <3>4
  <2>2. CASE i <= L /\ j > L
    <3> DEFINE d == L - i
    <3>1. t[i] = s[i] /\ i \in 1..L /\ L \in 1..L /\ Real(s[i]) /\ FrameCell(s[i], z) /\ s[i] \in Cells
      BY <1>1, <1>4, <2>2, ElementOfSeq
    <3>2. d \in Nat /\ d < j - i /\ j - i \in Nat /\ i <= L /\ d = L - i
      BY <1>1, <2>0, <2>2
    <3> HIDE DEF d
    <3>3. s[i][2] \in Nat
      BY <3>1, CellIsPair
    <3>4. z[s[i][1]] \in Nat
      BY <3>1, ElementOfSeq DEF FrameCell
    <3>5. Within(s[i], j - i, z)
      BY <3>1, OneMoreSize DEF y
    <3>6. Within(s[i], d, z) /\ \A e : Ahead(e, s[i], d) => ~Ends(e, z)
      BY <3>2, <3>3, <3>4, <3>5, ShortOfTheEnd
    <3>7. Ahead(s[L], s[i], d)
      BY <3>1, <3>2, <3>6, Along
    <3>8. s # <<>>
      BY <3>1, EmptySeq
    <3> QED BY <3>6, <3>7, <3>8
  <2>3. CASE i > L
    <3>1. j > L
      BY <1>1, <2>0, <2>3
    <3>2. t[i][1] = f /\ t[i][2] = i - L /\ t[j][1] = f /\ t[j][2] = j - L
      BY <1>5, <2>3, <3>1
    <3>3. j - L = (i - L) + (j - i)
      BY <1>1, <2>0
    <3> QED BY <3>2, <3>3 DEF Ahead
  <2> QED BY <1>1, <2>0, <2>1, <2>2, <2>3
<1>8. \A i \in 1..Len(t) - 1 : Ends(t[i], y) => Starts(t[i + 1], t[i][1] + 1)
  <2> SUFFICES ASSUME NEW i \in 1..Len(t) - 1, Ends(t[i], y)
               PROVE  Starts(t[i + 1], t[i][1] + 1)
    OBVIOUS
  <2>0. i \in 1..Len(t) /\ i + 1 \in 1..Len(t) /\ i \in Nat
    BY <1>1
  <2>1. CASE i < L
    <3>1. i <= L /\ i + 1 <= L /\ i \in 1..L - 1
      BY <1>1, <2>0, <2>1
    <3>2. t[i] = s[i] /\ t[i + 1] = s[i + 1] /\ Real(s[i]) /\ Real(s[i + 1])
      BY <1>4, <2>0, <3>1
    <3> QED BY <1>3, <3>1, <3>2, AtTheTurn
  <2>2. CASE i = L
    <3>1. t[i][1] = Len(z)
      <4>1. s # <<>>
        BY <1>1, <2>0, <2>2, EmptySeq
      <4> QED BY <1>1, <1>4, <2>0, <2>2, <4>1
    <3>2. t[i + 1][1] = f /\ t[i + 1][2] = (i + 1) - L /\ (i + 1) - L = 1
      <4>1. i + 1 > L /\ (i + 1) - L = 1
        BY <1>1, <2>2
      <4> QED BY <1>5, <2>0, <4>1
    <3> QED BY <3>1, <3>2 DEF Starts
  <2>3. CASE i > L
    <3>1. t[i][1] = f /\ t[i][2] = i - L
      BY <1>5, <2>0, <2>3
    <3>2. i - L < Header + n
      BY <1>1, <2>0
    <3>3. i - L = Header + y[f]
      BY <3>1 DEF Ends
    <3> QED BY <1>1, <1>2, <2>0, <3>2, <3>3
  <2> QED BY <1>1, <2>0, <2>1, <2>2, <2>3
<1>9. \A i, j \in 1..Len(t) : i <= j => t[i][1] <= t[j][1]
  <2> SUFFICES ASSUME NEW i \in 1..Len(t), NEW j \in 1..Len(t), i <= j
               PROVE  t[i][1] <= t[j][1]
    OBVIOUS
  <2>0. i \in Nat /\ j \in Nat
    BY <1>1
  <2>1. CASE j <= L
    <3>1. i <= L
      BY <1>1, <2>0, <2>1
    <3> QED BY <1>3, <1>4, <2>1, <3>1, InOrderOf
  <2>2. CASE i <= L /\ j > L
    <3>1. t[i][1] \in 1..Len(z) /\ t[j][1] = f
      BY <1>4, <1>5, <2>2 DEF FrameCell
    <3> QED BY <1>1, <3>1
  <2>3. CASE i > L
    <3>1. j > L
      BY <1>1, <2>0, <2>3
    <3>2. t[i][1] = f /\ t[j][1] = f
      BY <1>5, <2>3, <3>1
    <3>3. f <= f
      BY <1>1
    <3> QED BY <3>2, <3>3
  <2> QED BY <1>1, <2>0, <2>1, <2>2, <2>3
<1> QED BY <1>6, <1>7, <1>8, <1>9 DEF Unbroken, y

-----------------------------------------------------------------------------
(* The type invariant. *)

LEMMA RealCells ==
  /\ Cells \ {Pad} \subseteq Cells
  /\ \A c \in Cells \ {Pad} : Real(c)
  /\ (1..MaxFrames) \X (1..Header + MaxBody) \subseteq Cells \ {Pad}
  /\ Pad \in Cells /\ ~Real(Pad)
BY CellIsPair, Numbers DEF Cells, Pad, Real

LEMMA WiderSeq ==
  ASSUME NEW S, NEW T, S \subseteq T, NEW s \in Seq(S)
  PROVE  s \in Seq(T)
OBVIOUS

LEMMA WireCells ==
  ASSUME TypeOK
  PROVE  /\ wire \in Seq(Cells) /\ NoPads(wire) /\ sizes \in Seq(Nat) /\ buffer \in Seq(Cells)
         /\ Len(wire) \in Nat /\ Len(buffer) \in Nat /\ Len(sizes) \in Nat /\ Len(received) \in Nat
         /\ wire # <<>> => Len(wire) > 0
         /\ buffer # <<>> => Len(buffer) > 0
<1>1. wire \in Seq(Cells \ {Pad}) /\ sizes \in Seq(1..MaxBody) /\ buffer \in Seq(Cells)
      /\ received \in Seq(1..MaxFrames)
  BY DEF TypeOK
<1>2. wire \in Seq(Cells) /\ sizes \in Seq(Nat)
  <2>1. 1..MaxBody \subseteq Nat /\ Cells \ {Pad} \subseteq Cells
    BY Numbers
  <2> QED BY <1>1, <2>1, WiderSeq
<1>3. NoPads(wire)
  BY <1>1, RealCells, ElementOfSeq DEF NoPads
<1>4. Len(wire) \in Nat /\ Len(buffer) \in Nat /\ Len(sizes) \in Nat /\ Len(received) \in Nat
  BY <1>1, LenProperties
<1>5. (wire # <<>> => Len(wire) > 0) /\ (buffer # <<>> => Len(buffer) > 0)
  BY <1>1, <1>4, EmptySeq
<1> QED BY <1>1, <1>2, <1>3, <1>4, <1>5

\* From() of a sequence of any kind.
LEMMA RestOf ==
  ASSUME NEW S, NEW s \in Seq(S), NEW m \in 1..Len(s) + 1
  PROVE  /\ From(s, m) \in Seq(S) /\ Len(From(s, m)) = Len(s) - m + 1
         /\ \A i \in 1..Len(From(s, m)) : From(s, m)[i] = s[m + i - 1]
<1>1. Len(s) \in Nat
  BY LenProperties
<1>2. \A i \in m..Len(s) : s[i] \in S
  BY <1>1, ElementOfSeq
<1>3. /\ From(s, m) \in Seq(S)
      /\ Len(From(s, m)) = IF m <= Len(s) THEN Len(s) - m + 1 ELSE 0
      /\ \A i \in 1..Len(s) - m + 1 : From(s, m)[i] = s[m + i - 1]
  BY <1>1, <1>2, SubSeqProperties DEF From
<1> QED BY <1>1, <1>3

\* The chunk a transfer brings: bytes of the wire, then padding.
ReadCount(chunk) == Cardinality({k \in DOMAIN chunk : chunk[k] # Pad})

LEMMA ChunkIsCut ==
  ASSUME TypeOK, NEW chunk, chunk \in Chunks
  PROVE  /\ chunk \in Seq(Cells) /\ ReadCount(chunk) \in 0..Len(wire)
         /\ Len(chunk) \in Nat /\ Len(chunk) >= ReadCount(chunk)
         /\ Carries(chunk, 0, wire, ReadCount(chunk))
         /\ PaddedBehind(chunk, ReadCount(chunk))
<1>1. PICK n \in 0..Len(wire), p \in 0..MaxPad : chunk = SubSeq(wire, 1, n) \o [k \in 1..p |-> Pad]
  <2>1. \E n \in 0..Len(wire), p \in 0..MaxPad : chunk = Transfer(n, p)
    BY DEF Chunks
  <2> QED BY <2>1 DEF Transfer
<1> DEFINE head == SubSeq(wire, 1, n)
           pads == [k \in 1..p |-> Pad]
<1>2. Len(wire) \in Nat /\ wire \in Seq(Cells) /\ n \in Nat /\ p \in Nat /\ n <= Len(wire)
  BY WireCells, Numbers
<1>3. head \in Seq(Cells) /\ Len(head) = n /\ \A i \in 1..n : head[i] = wire[i]
  <2>1. \A i \in 1..n : wire[i] \in Cells
    BY <1>2, ElementOfSeq
  <2>2. /\ head \in Seq(Cells) /\ Len(head) = (IF 1 <= n THEN n - 1 + 1 ELSE 0)
        /\ \A i \in 1..n - 1 + 1 : head[i] = wire[1 + i - 1]
    BY <1>2, <2>1, SubSeqProperties
  <2> QED BY <1>2, <2>2
<1>4. pads \in Seq(Cells) /\ Len(pads) = p /\ \A i \in 1..p : pads[i] = Pad
  BY <1>2, RealCells
<1> HIDE DEF head, pads
<1>5. chunk = head \o pads
  BY <1>1 DEF head, pads
<1>6. /\ chunk \in Seq(Cells) /\ Len(chunk) = n + p
      /\ \A i \in 1..n + p : chunk[i] = IF i <= n THEN head[i] ELSE pads[i - n]
  BY <1>3, <1>4, <1>5, ConcatProperties
<1>7. \A i \in 1..n + p : (i <= n => chunk[i] = wire[i]) /\ (i > n => chunk[i] = Pad)
  <2> SUFFICES ASSUME NEW i \in 1..n + p
               PROVE  (i <= n => chunk[i] = wire[i]) /\ (i > n => chunk[i] = Pad)
    OBVIOUS
  <2>1. CASE i <= n
    BY <1>2, <1>3, <1>6, <2>1
  <2>2. CASE i > n
    <3>1. i - n \in 1..p /\ ~(i <= n)
      BY <1>2, <2>2
    <3> QED BY <1>4, <1>6, <2>2, <3>1
  <2> QED BY <1>2, <2>1, <2>2
<1>8. DOMAIN chunk = 1..n + p
  BY <1>6, LenProperties
<1>9. {k \in DOMAIN chunk : chunk[k] # Pad} = 1..n
  <2>1. \A k \in 1..n : k \in 1..n + p /\ chunk[k] # Pad
    <3> SUFFICES ASSUME NEW k \in 1..n PROVE k \in 1..n + p /\ chunk[k] # Pad
      OBVIOUS
    <3>1. k \in 1..n + p /\ k \in 1..Len(wire)
      BY <1>2
    <3>2. chunk[k] = wire[k] /\ Real(wire[k])
      BY <1>2, <1>7, <3>1, WireCells DEF NoPads
    <3> QED BY <3>1, <3>2, RealCells
  <2>2. \A k \in 1..n + p : chunk[k] # Pad => k \in 1..n
    BY <1>2, <1>7
  <2> QED BY <1>8, <2>1, <2>2
<1>10. ReadCount(chunk) = n
  <2>1. Cardinality(1..n) = IF 1 > n THEN 0 ELSE n - 1 + 1
    BY <1>2, FS_Interval
  <2>2. ReadCount(chunk) = Cardinality(1..n)
    BY Zenon, <1>9 DEF ReadCount
  <2> QED BY <1>2, <2>1, <2>2
<1>11. Carries(chunk, 0, wire, n)
  BY <1>2, <1>7 DEF Carries
<1>12. PaddedBehind(chunk, n)
  BY <1>2, <1>6, <1>7, RealCells DEF PaddedBehind
<1>13. Len(chunk) \in Nat /\ Len(chunk) >= n
  BY <1>2, <1>6
<1> QED BY <1>6, <1>10, <1>11, <1>12, <1>13

\* The first byte of a buffer with a good header begins a frame.
LEMMA GoodHeader ==
  ASSUME TypeOK, HeaderThere, HeaderOk
  PROVE  InStep /\ buffer[1] \in Cells /\ buffer[1][1] \in 1..MaxFrames
<1>1. Len(buffer) \in Nat /\ 1 \in 1..Header /\ 1 \in 1..Len(buffer)
  BY WireCells, Numbers DEF HeaderThere
<1>2. buffer # <<>>
  BY <1>1, EmptySeq
<1>3. buffer[1] = <<buffer[1][1], 1>>
  BY <1>1 DEF HeaderOk
<1>4. buffer[1] \in Cells
  BY <1>1, WireCells, ElementOfSeq
<1>5. buffer[1][2] = 1 /\ Real(buffer[1])
  <2>1. <<buffer[1][1], 1>>[2] = 1
    OBVIOUS
  <2> QED BY <1>3, <2>1 DEF Real
<1>6. buffer[1][1] \in 1..MaxFrames
  BY <1>4, <1>5, CellIsPair
<1> QED BY <1>2, <1>4, <1>5, <1>6 DEF InStep

\* FrameSize is that of a frame the reader has sent.
LEMMA GoodSize ==
  ASSUME TypeOK, InTheBuffer, InStep
  PROVE  /\ buffer[1] \in Cells /\ Real(buffer[1]) /\ FrameCell(buffer[1], sizes)
         /\ 1 \in 1..Len(buffer) /\ buffer[1][1] \in 1..Len(sizes)
         /\ sizes[buffer[1][1]] \in Nat \ {0} /\ FrameSize \in Nat /\ FrameSize > Header
<1>1. Len(buffer) \in Nat /\ Len(buffer) > 0
  BY WireCells DEF InStep
<1>2. 1 \in 1..Len(buffer) /\ buffer[1] \in Cells
  BY <1>1, WireCells, ElementOfSeq
<1>3. Real(buffer[1]) /\ FrameCell(buffer[1], sizes)
  BY <1>2 DEF InTheBuffer, Unbroken, InStep, Real
<1>4. buffer[1][1] \in 1..Len(sizes)
  BY <1>3 DEF FrameCell
<1>5. sizes[buffer[1][1]] \in 1..MaxBody
  BY <1>4, ElementOfSeq DEF TypeOK
<1>6. sizes[buffer[1][1]] \in Nat \ {0}
  BY <1>5, Numbers
<1>7. FrameSize \in Nat /\ FrameSize > Header
  BY <1>6, Numbers DEF FrameSize
<1> QED BY <1>2, <1>3, <1>4, <1>6, <1>7

LEMMA TypesStep == TypeOK /\ InTheBuffer /\ [Next]_vars => TypeOK'
<1> SUFFICES ASSUME TypeOK, InTheBuffer, [Next]_vars PROVE TypeOK'
  OBVIOUS
<1>1. CASE ReaderSends
  <2>1. PICK n \in 1..MaxBody :
          /\ sizes' = Append(sizes, n)
          /\ wire' = wire \o [k \in 1..Header + n |-> <<Len(sizes) + 1, k>>]
    BY <1>1 DEF ReaderSends
  <2>2. Len(sizes) \in Nat /\ Len(sizes) < MaxFrames
    BY <1>1, WireCells DEF ReaderSends
  <2>3. sizes' \in Seq(1..MaxBody) /\ Len(sizes') = Len(sizes) + 1
    BY <2>1, AppendProperties DEF TypeOK
  <2>4. Len(sizes') <= MaxFrames
    BY <2>2, <2>3, Numbers
  <2>5. [k \in 1..Header + n |-> <<Len(sizes) + 1, k>>] \in Seq(Cells \ {Pad})
    <3>1. Header + n \in Nat /\ Header + n <= Header + MaxBody /\ Len(sizes) + 1 \in 1..MaxFrames
      BY <2>2, Numbers
    <3>2. \A k \in 1..Header + n : <<Len(sizes) + 1, k>> \in (1..MaxFrames) \X (1..Header + MaxBody)
      BY <3>1, Numbers
    <3>3. \A k \in 1..Header + n : <<Len(sizes) + 1, k>> \in Cells \ {Pad}
      BY <3>2, RealCells
    <3> QED BY <3>1, <3>3
  <2>6. wire' \in Seq(Cells \ {Pad})
    BY <2>1, <2>5, ConcatProperties DEF TypeOK
  <2>7. UNCHANGED <<buffer, received, state, lost>>
    BY <1>1 DEF ReaderSends
  <2> QED BY <2>3, <2>4, <2>6, <2>7 DEF TypeOK
<1>2. CASE Call \/ BadHeader
  BY <1>2 DEF Call, BadHeader, TypeOK, Failures
<1>3. CASE Return
  <2>1. HeaderThere /\ HeaderOk /\ Len(buffer) >= FrameSize
    BY <1>3 DEF Return, FrameThere
  <2>2. received' \in Seq(1..MaxFrames)
    <3>1. received' = Append(received, buffer[1][1])
      BY <1>3 DEF Return
    <3> QED BY <2>1, <3>1, GoodHeader, AppendProperties DEF TypeOK
  <2>3. buffer' \in Seq(Cells) /\ Len(buffer') <= Limit
    <3>1. Len(buffer) \in Nat /\ Len(buffer) <= Limit /\ Limit \in Nat /\ FrameSize \in Nat
      BY <2>1, WireCells, Numbers, GoodHeader, GoodSize DEF TypeOK
    <3>2. CASE buffer' = <<>>
      BY <3>1, <3>2, EmptySeq
    <3>3. CASE buffer' = From(buffer, FrameSize + 1)
      <4>1. FrameSize + 1 \in 1..Len(buffer) + 1
        BY <2>1, <3>1
      <4>2. buffer' \in Seq(Cells) /\ Len(buffer') = Len(buffer) - (FrameSize + 1) + 1
        BY <3>3, <4>1, WireCells, RestOf
      <4> QED BY <3>1, <4>2
    <3> QED BY <1>3, <3>2, <3>3 DEF Return, Kept
  <2> QED BY <1>3, <2>2, <2>3 DEF Return, TypeOK
<1>4. CASE Read
  <2>1. PICK chunk \in Chunks :
          /\ wire' = From(wire, ReadCount(chunk) + 1)
          /\ Fits(chunk) => buffer' = buffer \o chunk /\ UNCHANGED <<state, lost>>
          /\ ~Fits(chunk) => /\ state' = "invalid_usb_read_size"
                             /\ lost' = (lost \/ ReadCount(chunk) > 0) /\ buffer' = buffer
    BY <1>4, Zenon DEF Read, ReadCount
  <2>2. wire' \in Seq(Cells \ {Pad})
    <3>1. ReadCount(chunk) + 1 \in 1..Len(wire) + 1
      BY WireCells, ChunkIsCut
    <3> QED BY <2>1, <3>1, RestOf DEF TypeOK
  <2>3. buffer' \in Seq(Cells) /\ Len(buffer') <= Limit
    <3>1. CASE Fits(chunk)
      <4>1. chunk \in Seq(Cells) /\ buffer \in Seq(Cells)
        BY ChunkIsCut, WireCells
      <4>2. buffer \o chunk \in Seq(Cells) /\ Len(buffer \o chunk) = Len(buffer) + Len(chunk)
        BY <4>1, ConcatProperties
      <4> QED BY <2>1, <3>1, <4>2 DEF Fits
    <3> QED BY <2>1, <3>1 DEF TypeOK
  <2>4. state' \in {"idle", "receiving"} \cup Failures
    BY <2>1 DEF TypeOK, Failures
  <2>5. lost' \in BOOLEAN
    <3>1. lost' = lost \/ lost' = (lost \/ ReadCount(chunk) > 0)
      BY <2>1
    <3> QED BY <3>1 DEF TypeOK
  <2>6. UNCHANGED <<sizes, received>>
    BY <1>4 DEF Read
  <2> QED BY <2>2, <2>3, <2>4, <2>5, <2>6 DEF TypeOK
<1>5. CASE ReadTimeout
  BY <1>5 DEF ReadTimeout, TypeOK, Failures
<1>6. CASE Discard
  <2>1. wire' = wire \/ \E n \in 1..Len(wire) : wire' = From(wire, n + 1)
    BY <1>6 DEF Discard
  <2>2. wire' \in Seq(Cells \ {Pad})
    <3>1. ASSUME NEW n \in 1..Len(wire) PROVE From(wire, n + 1) \in Seq(Cells \ {Pad})
      <4>1. n + 1 \in 1..Len(wire) + 1
        BY WireCells
      <4> QED BY <4>1, RestOf DEF TypeOK
    <3> QED BY <2>1, <3>1 DEF TypeOK
  <2>3. buffer' \in Seq(Cells) /\ Len(buffer') <= Limit
    <3>1. buffer' = <<>>
      BY <1>6 DEF Discard
    <3> QED BY <3>1, EmptySeq, Numbers
  <2>4. UNCHANGED <<sizes, received>> /\ state' = "idle" /\ lost' = TRUE
    BY <1>6 DEF Discard
  <2> QED BY <2>2, <2>3, <2>4 DEF TypeOK
<1>7. CASE UNCHANGED vars
  BY <1>7 DEF vars, TypeOK
<1> QED BY <1>1, <1>2, <1>3, <1>4, <1>5, <1>6, <1>7 DEF Next

-----------------------------------------------------------------------------
(* A frame is returned. *)

\* Byte k of a buffer in step is byte k of its first frame, as far as that goes.
LEMMA FirstFrame ==
  ASSUME TypeOK, InTheBuffer, InStep, NEW k \in 1..Len(buffer), k <= FrameSize
  PROVE  buffer[k][1] = buffer[1][1] /\ buffer[k][2] = k /\ Real(buffer[k])
<1> DEFINE d == k - 1
<1>1. /\ Real(buffer[1]) /\ 1 \in 1..Len(buffer) /\ FrameSize \in Nat /\ Len(buffer) \in Nat
      /\ buffer[1][2] = 1
  BY GoodSize, WireCells DEF InStep
<1>2. 1 <= k /\ 1 + d = k /\ d = k - 1 /\ k # 0
  BY <1>1
<1>3. Within(buffer[1], d, sizes)
  BY <1>1, <1>2 DEF Within, FrameSize
<1>4. Unbroken(buffer, sizes)
  BY DEF InTheBuffer
<1> HIDE DEF d
<1>5. Ahead(buffer[k], buffer[1], d)
  BY <1>1, <1>2, <1>3, <1>4, Along
<1> QED BY <1>1, <1>2, <1>5 DEF Ahead, Real

\* What is behind the first frame: nothing but padding, or the next frame.
LEMMA Behind ==
  ASSUME TypeOK, InTheBuffer, InStep, Len(buffer) >= FrameSize,
         NEW rest, rest = From(buffer, FrameSize + 1)
  PROVE  /\ FrameSize \in 1..Len(buffer) /\ Ends(buffer[FrameSize], sizes)
         /\ rest \in Seq(Cells) /\ Unbroken(rest, sizes) /\ Len(rest) = Len(buffer) - FrameSize
         /\ \A i \in 1..Len(rest) : rest[i] = buffer[FrameSize + i]
         /\ (\E i \in 1..Len(rest) : Real(rest[i])) =>
               1 \in 1..Len(rest) /\ Real(rest[1]) /\ Starts(rest[1], buffer[1][1] + 1)
<1> DEFINE B == Len(buffer)
           F == FrameSize
<1>0. F = Header + sizes[buffer[1][1]]
  BY DEF FrameSize
<1>1. B \in Nat /\ F \in Nat /\ F >= 1
  BY WireCells, GoodSize, Numbers
<1>2. F \in 1..B /\ F + 1 \in 1..B + 1 /\ B - (F + 1) + 1 = B - F
  BY <1>1
<1>3. buffer \in Seq(Cells) /\ sizes \in Seq(Nat) /\ Unbroken(buffer, sizes)
  BY WireCells DEF InTheBuffer
<1>4. /\ rest \in Seq(Cells) /\ Len(rest) = B - (F + 1) + 1 /\ Unbroken(rest, sizes)
      /\ \A i \in 1..Len(rest) : rest[i] = buffer[(F + 1) + i - 1]
  BY <1>2, <1>3, RestUnbroken
<1>5. F <= FrameSize
  BY <1>1
<1>6. buffer[F][1] = buffer[1][1] /\ buffer[F][2] = F /\ Real(buffer[F])
  BY <1>2, <1>5, FirstFrame
<1>7. Ends(buffer[F], sizes)
  BY <1>0, <1>6 DEF Ends
<1> HIDE DEF F, B
<1>8. Len(rest) = B - F
  BY <1>2, <1>4
<1>9. \A i \in 1..Len(rest) : rest[i] = buffer[F + i]
  <2> SUFFICES ASSUME NEW i \in 1..Len(rest) PROVE rest[i] = buffer[F + i]
    OBVIOUS
  <2>1. (F + 1) + i - 1 = F + i
    BY <1>1, <1>8
  <2> QED BY <1>4, <2>1
<1>10. ASSUME NEW i \in 1..Len(rest), Real(rest[i])
       PROVE  1 \in 1..Len(rest) /\ Real(rest[1]) /\ Starts(rest[1], buffer[1][1] + 1)
  <2>1. 1 \in 1..Len(rest) /\ 1 <= i /\ F \in 1..B - 1
    BY <1>1, <1>8
  <2>2. Real(rest[1])
    BY <1>4, <1>10, <2>1, InOrderOf
  <2>3. rest[1] = buffer[F + 1]
    BY <1>9, <2>1
  <2>4. F \in 1..Len(buffer) - 1
    BY <2>1 DEF B
  <2>5. Starts(buffer[F + 1], buffer[F][1] + 1)
    BY <1>3, <1>6, <1>7, <2>2, <2>3, <2>4, AtTheTurn
  <2> QED BY <1>6, <2>1, <2>2, <2>3, <2>5
<1> QED BY <1>2, <1>4, <1>7, <1>8, <1>9, <1>10 DEF F, B

LEMMA KeptIsRest ==
  ASSUME NEW rest \in Seq(Cells)
  PROVE  \/ Kept(rest) = <<>> /\ \A i \in 1..Len(rest) : ~Real(rest[i])
         \/ Kept(rest) = rest /\ \E i \in 1..Len(rest) : Real(rest[i])
<1>1. \A i \in 1..Len(rest) : rest[i] = Pad <=> ~Real(rest[i])
  BY ElementOfSeq, CellIsPair
<1>2. DOMAIN rest = 1..Len(rest)
  BY LenProperties
<1>3. CASE \A i \in 1..Len(rest) : rest[i] = Pad
  <2>1. Kept(rest) = <<>>
    BY <1>2, <1>3 DEF Kept
  <2> QED BY <1>1, <1>3, <2>1
<1>4. CASE ~\A i \in 1..Len(rest) : rest[i] = Pad
  <2>1. Kept(rest) = rest
    BY <1>2, <1>4 DEF Kept
  <2> QED BY <1>1, <1>4, <2>1
<1> QED BY <1>3, <1>4

LEMMA ReturnKeeps ==
  ASSUME TypeOK, Receiving, Return
  PROVE  Receiving'
<1> DEFINE f == buffer[1][1]
           F == FrameSize
           rest == From(buffer, F + 1)
           B == Len(buffer)
<1>1. HeaderThere /\ HeaderOk /\ B >= F /\ state = "receiving"
  BY DEF Return, FrameThere
<1>2. InStep /\ InTheBuffer
  BY <1>1, GoodHeader DEF Receiving
<1>3. f \in 1..Len(sizes) /\ Len(sizes) \in Nat /\ f \in Nat /\ Real(buffer[1]) /\ 1 \in 1..B
  BY <1>2, GoodSize, WireCells
<1>4. Unbroken(buffer, sizes) /\ Tied /\ Unbroken(wire, sizes) /\ NoPads(wire)
  BY <1>1, <1>2, WireCells DEF Receiving, InTheBuffer, OnTheWire
<1>5. received' = Append(received, f) /\ UNCHANGED <<sizes, wire, lost>> /\ state' = "idle"
      /\ buffer' = Kept(rest)
  BY DEF Return
<1>6. B \in Nat /\ F \in Nat /\ F >= 1 /\ F <= B /\ Len(wire) \in Nat /\ (wire # <<>> => Len(wire) > 0)
  BY <1>1, <1>2, WireCells, GoodSize, Numbers
<1>7. /\ F \in 1..B /\ Ends(buffer[F], sizes) /\ F <= FrameSize
      /\ rest \in Seq(Cells) /\ Unbroken(rest, sizes) /\ Len(rest) = B - F
      /\ \A i \in 1..Len(rest) : rest[i] = buffer[F + i]
      /\ (\E i \in 1..Len(rest) : Real(rest[i])) =>
               1 \in 1..Len(rest) /\ Real(rest[1]) /\ Starts(rest[1], f + 1)
  BY <1>1, <1>2, <1>6, Behind
<1>8. buffer[F][1] = f /\ Real(buffer[F])
  BY <1>2, <1>7, FirstFrame
<1> HIDE DEF F, f, rest
<1>9. \/ buffer' = <<>> /\ \A i \in 1..Len(rest) : ~Real(rest[i])
      \/ buffer' = rest /\ Real(rest[1]) /\ Starts(rest[1], f + 1) /\ 1 \in 1..Len(rest) /\ rest # <<>>
  <2>1. 1 \in 1..Len(rest) => rest # <<>>
    BY EmptySeq
  <2> QED BY <1>5, <1>7, <2>1, KeptIsRest
<1>10. \A i \in 1..Len(rest) : F + i \in 1..B /\ F + i # F
  BY <1>6, <1>7
<1>11. (\A i \in 1..Len(rest) : ~Real(rest[i])) => LastReal(buffer, F)
  <2> SUFFICES ASSUME \A i \in 1..Len(rest) : ~Real(rest[i]), F < B PROVE ~Real(buffer[F + 1])
    BY <1>8 DEF LastReal
  <2>1. 1 \in 1..Len(rest)
    BY <1>6, <1>7
  <2> QED BY <1>7, <2>1
<1>12. (\A i \in 1..Len(rest) : ~Real(rest[i])) =>
         (wire = <<>> => f = Len(sizes)) /\ (wire # <<>> => Starts(wire[1], f + 1))
  BY <1>4, <1>7, <1>8, <1>11 DEF Tied, Joins
<1>13. OnTheWire'
  BY <1>5 DEF OnTheWire, Receiving
<1>14. InTheBuffer'
  <2>1. CASE buffer' = <<>>
    BY <2>1 DEF InTheBuffer, InStep
  <2>2. CASE buffer' = rest /\ Real(rest[1])
    <3>1. Tied'
      <4> SUFFICES ASSUME NEW i \in 1..Len(rest), LastReal(rest, i)
                   PROVE  /\ ~Ends(rest[i], sizes) => i = Len(rest) /\ wire # <<>> /\ Ahead(wire[1], rest[i], 1)
                          /\ Ends(rest[i], sizes) /\ wire = <<>> => rest[i][1] = Len(sizes)
                          /\ Ends(rest[i], sizes) /\ wire # <<>> => Starts(wire[1], rest[i][1] + 1)
        BY <1>5, <2>2 DEF Tied, Joins
      <4>1. F + i \in 1..B /\ (F + i = B => i = Len(rest)) /\ rest[i] = buffer[F + i]
        BY <1>6, <1>7, <1>10
      <4>2. LastReal(buffer, F + i)
        <5>1. Real(rest[i]) /\ (i < Len(rest) => ~Real(rest[i + 1]))
          BY DEF LastReal
        <5>2. Len(rest) = B - F
          BY <1>7
        <5>3. i \in Nat /\ i >= 1
          BY <1>6, <5>2
        <5>4. F + i < B => i < B - F /\ i + 1 \in 1..B - F /\ F + (i + 1) = (F + i) + 1
          BY <1>6, <5>3
        <5>5. F + i < B => i < Len(rest) /\ rest[i + 1] = buffer[(F + i) + 1]
          BY <1>7, <5>2, <5>4
        <5> QED BY <4>1, <5>1, <5>4, <5>5 DEF LastReal
      <4>3. /\ ~Ends(buffer[F + i], sizes) => F + i = B /\ wire # <<>> /\ Ahead(wire[1], buffer[F + i], 1)
            /\ Ends(buffer[F + i], sizes) /\ wire = <<>> => buffer[F + i][1] = Len(sizes)
            /\ Ends(buffer[F + i], sizes) /\ wire # <<>> => Starts(wire[1], buffer[F + i][1] + 1)
        BY <1>4, <4>1, <4>2 DEF Tied, Joins
      <4> QED BY <4>1, <4>3
    <3> QED BY <1>5, <1>7, <2>2, <3>1 DEF InTheBuffer
  <2> QED BY <1>9, <2>1, <2>2
<1>15. \A k \in 1..Len(wire) : f < wire[k][1]
  <2> SUFFICES ASSUME NEW k \in 1..Len(wire) PROVE f < wire[k][1]
    OBVIOUS
  <2>0. wire[k] \in Cells /\ wire[k][1] \in Nat /\ 1 \in 1..Len(wire) /\ 1 <= k /\ wire # <<>>
    <3>1. wire[k] \in Cells
      BY WireCells, ElementOfSeq
    <3>2. 1 \in 1..Len(wire) /\ 1 <= k
      BY <1>6
    <3>3. wire # <<>>
      BY <3>2, EmptySeq
    <3> QED BY <3>1, <3>2, <3>3, CellIsPair
  <2>1. CASE \A i \in 1..Len(rest) : ~Real(rest[i])
    <3>1. wire[1][1] = f + 1
      BY <1>12, <2>0, <2>1 DEF Starts
    <3>2. wire[1][1] <= wire[k][1]
      BY <1>4, <2>0, InOrderOf DEF NoPads
    <3> QED BY <1>3, <2>0, <3>1, <3>2
  <2>2. CASE Real(rest[1]) /\ Starts(rest[1], f + 1) /\ 1 \in 1..Len(rest)
    <3>1. F + 1 \in 1..B /\ rest[1] = buffer[F + 1]
      BY <1>7, <1>10, <2>2
    <3>2. buffer[F + 1][1] <= wire[k][1]
      BY <1>2, <2>2, <3>1 DEF Receiving, Older
    <3>3. f + 1 <= wire[k][1]
      BY <2>2, <3>1, <3>2 DEF Starts
    <3> QED BY <1>3, <2>0, <3>3
  <2> QED BY <1>9, <2>1, <2>2
<1>16. /\ Len(received) \in Nat /\ Len(received') = Len(received) + 1 /\ received'[Len(received) + 1] = f
       /\ \A i \in 1..Len(received) : received'[i] = received[i]
  <2>1. received \in Seq(1..MaxFrames) /\ f \in 1..MaxFrames
    BY <1>1, GoodHeader DEF TypeOK, f
  <2> QED BY <1>5, <2>1, LenProperties, AppendProperties
<1>17. \A i \in 1..Len(received) : received[i] < f
  BY <1>2, <1>3 DEF Receiving, Older, f
<1>18. InStep' => \A k \in 1..Len(buffer') :
         Real(buffer'[k]) => buffer' = rest /\ rest[k] = buffer[F + k] /\ F + k \in 1..B /\ k \in 1..Len(rest)
  BY <1>7, <1>9, <1>10 DEF InStep
<1>19. Older'
  <2>1. ASSUME NEW i \in 1..Len(received'), NEW j \in 1..Len(received'), i < j
        PROVE  received'[i] < received'[j]
    <3>1. i \in 1..Len(received) /\ received'[i] = received[i]
      BY <1>16, <2>1
    <3>2. CASE j = Len(received) + 1
      BY <1>16, <1>17, <3>1, <3>2
    <3>3. CASE j \in 1..Len(received)
      BY <1>16, <2>1, <3>1, <3>3 DEF Receiving, Older
    <3> QED BY <1>16, <3>2, <3>3
  <2>2. InStep' => \A i \in 1..Len(buffer'), k \in 1..Len(wire') :
                     Real(buffer'[i]) => buffer'[i][1] <= wire'[k][1]
    BY <1>2, <1>5, <1>18 DEF Receiving, Older
  <2>3. ASSUME NEW i \in 1..Len(received')
        PROVE  /\ received'[i] <= Len(sizes')
               /\ \A k \in 1..Len(wire') : received'[i] < wire'[k][1]
    <3>1. CASE i \in 1..Len(received)
      BY <1>5, <1>16, <3>1 DEF Receiving, Older
    <3>2. CASE i = Len(received) + 1
      BY <1>3, <1>5, <1>15, <1>16, <3>2
    <3> QED BY <1>16, <3>1, <3>2
  <2>4. ASSUME InStep', NEW i \in 1..Len(received'), NEW k \in 1..Len(buffer'), Real(buffer'[k])
        PROVE  received'[i] < buffer'[k][1]
    <3>1. buffer' = rest /\ rest[k] = buffer[F + k] /\ F + k \in 1..B /\ k \in 1..Len(rest)
      BY <1>18, <2>4
    <3>2. CASE i \in 1..Len(received)
      BY <1>2, <1>16, <2>4, <3>1, <3>2 DEF Receiving, Older
    <3>3. CASE i = Len(received) + 1
      <4>1. Starts(rest[1], f + 1) /\ 1 \in 1..Len(rest) /\ Real(rest[k])
        BY <1>7, <2>4, <3>1
      <4>2. 1 <= k
        BY <3>1
      <4>3. rest[1][1] <= rest[k][1] /\ rest[1][1] = f + 1
        BY <1>7, <3>1, <4>1, <4>2, InOrderOf DEF Starts
      <4>4. rest[k] \in Cells
        BY <1>7, <3>1, ElementOfSeq
      <4>5. rest[k][1] \in Nat
        BY <4>4, CellIsPair
      <4>6. f < rest[k][1]
        BY <1>3, <4>3, <4>5
      <4> QED BY <1>16, <3>1, <3>3, <4>6
    <3> QED BY <1>16, <3>2, <3>3
  <2> QED BY <2>1, <2>2, <2>3, <2>4 DEF Older
<1>20. ~lost' => Expected'
  <2> SUFFICES ASSUME ~lost PROVE Expected'
    BY <1>5
  <2>1. Expected /\ buffer # <<>>
    BY <1>2 DEF Receiving, InStep
  <2>2. f = Len(received) + 1
    BY <2>1 DEF Expected, Starts, f
  <2>3. \A i \in 1..Len(received') : received'[i] = i
    BY <1>16, <2>1, <2>2 DEF Expected
  <2>4. /\ buffer' # <<>> => Starts(buffer'[1], Len(received') + 1)
        /\ buffer' = <<>> /\ wire' # <<>> => Starts(wire'[1], Len(received') + 1)
        /\ buffer' = <<>> /\ wire' = <<>> => Len(received') = Len(sizes')
    BY <1>5, <1>9, <1>12, <1>16, <2>2
  <2>5. ASSUME NEW g \in Len(received') + 1..Len(sizes')
        PROVE  (\E k \in 1..Len(buffer') : Starts(buffer'[k], g)) \/ (\E k \in 1..Len(wire') : Starts(wire'[k], g))
    <3>1. g \in Len(received) + 1..Len(sizes) /\ g # f
      BY <1>5, <1>16, <2>2
    <3>2. CASE \E k \in 1..Len(wire) : Starts(wire[k], g)
      BY <1>5, <3>2
    <3>3. CASE \E k \in 1..B : Starts(buffer[k], g)
      <4>1. PICK k \in 1..B : Starts(buffer[k], g)
        BY <3>3
      <4>2. k > F
        <5> SUFFICES ASSUME k <= F PROVE FALSE
          BY <1>6
        <5>1. k \in 1..Len(buffer) /\ k <= FrameSize
          BY DEF F
        <5>2. buffer[k][1] = f
          BY <1>2, <5>1, FirstFrame DEF f
        <5> QED BY <3>1, <4>1, <5>2 DEF Starts
      <4>3. k - F \in 1..Len(rest) /\ F + (k - F) = k
        BY <1>6, <1>7, <4>2
      <4>4. Starts(rest[k - F], g) /\ Real(rest[k - F])
        BY <1>7, <4>1, <4>3 DEF Starts, Real
      <4>5. buffer' = rest
        BY <1>9, <4>3, <4>4
      <4> QED BY <4>3, <4>4, <4>5
    <3> QED BY <2>1, <3>1, <3>2, <3>3 DEF Expected
  <2> QED BY <2>3, <2>4, <2>5 DEF Expected
<1>21. (state = "invalid_usb_frame_header" => lost)'
  BY <1>5
<1> QED BY <1>13, <1>14, <1>19, <1>20, <1>21 DEF Receiving

-----------------------------------------------------------------------------
(* A transfer is read. *)

\* While more is needed, a buffer in step holds the beginning of one frame.
LEMMA BeginningHeld ==
  ASSUME TypeOK, InTheBuffer, InStep, MoreNeeded
  PROVE  /\ Len(buffer) < FrameSize
         /\ Begins(buffer, buffer[1][1])
<1>1. Len(buffer) \in Nat /\ FrameSize \in Nat /\ FrameSize > Header /\ Header \in Nat
  BY WireCells, GoodSize, Numbers
<1>2. Len(buffer) < FrameSize
  <2>1. CASE HeaderThere
    BY <2>1 DEF MoreNeeded
  <2>2. CASE ~HeaderThere
    BY <1>1, <2>2 DEF HeaderThere
  <2> QED BY <2>1, <2>2
<1>3. \A i \in 1..Len(buffer) : i <= FrameSize
  BY <1>1, <1>2
<1>4. Begins(buffer, buffer[1][1])
  BY <1>3, FirstFrame DEF Begins
<1> QED BY <1>2, <1>4

\* What the buffer and the wire hold together.
Stream == buffer \o wire

LEMMA StreamIs ==
  ASSUME TypeOK
  PROVE  /\ Stream \in Seq(Cells) /\ Len(Stream) = Len(buffer) + Len(wire)
         /\ Carries(Stream, 0, buffer, Len(buffer)) /\ Carries(Stream, Len(buffer), wire, Len(wire))
<1>1. buffer \in Seq(Cells) /\ wire \in Seq(Cells) /\ Len(buffer) \in Nat /\ Len(wire) \in Nat
  BY WireCells
<1>2. /\ Stream \in Seq(Cells) /\ Len(Stream) = Len(buffer) + Len(wire)
      /\ \A i \in 1..Len(buffer) + Len(wire) :
           Stream[i] = IF i <= Len(buffer) THEN buffer[i] ELSE wire[i - Len(buffer)]
  BY <1>1, ConcatProperties DEF Stream
<1>3. ASSUME NEW i \in 1..Len(buffer) PROVE Stream[0 + i] = buffer[i]
  <2>1. i \in 1..Len(buffer) + Len(wire) /\ i <= Len(buffer) /\ 0 + i = i
    BY <1>1
  <2> QED BY <1>2, <2>1
<1>4. ASSUME NEW i \in 1..Len(wire) PROVE Stream[Len(buffer) + i] = wire[i]
  <2>1. /\ Len(buffer) + i \in 1..Len(buffer) + Len(wire) /\ ~(Len(buffer) + i <= Len(buffer))
        /\ (Len(buffer) + i) - Len(buffer) = i
    BY <1>1
  <2> QED BY <1>2, <2>1
<1> QED BY <1>2, <1>3, <1>4 DEF Carries

LEMMA StreamUnbroken ==
  ASSUME TypeOK, Receiving, InStep, MoreNeeded, state = "receiving"
  PROVE  /\ Unbroken(Stream, sizes) /\ NoPads(Stream) /\ wire # <<>>
<1> DEFINE f == buffer[1][1]
           B == Len(buffer)
<1>1. InTheBuffer /\ Tied /\ Unbroken(wire, sizes) /\ B \in Nat /\ 1 \in 1..B
  BY GoodSize, WireCells DEF Receiving, InTheBuffer, OnTheWire
<1>2. B < FrameSize /\ Begins(buffer, f) /\ FrameSize = Header + sizes[f] /\ f \in 1..Len(sizes)
      /\ FrameSize \in Nat
  BY <1>1, BeginningHeld, GoodSize DEF FrameSize
<1>3. B \in 1..B /\ B <= FrameSize
  BY <1>1, <1>2
<1>4. buffer[B][1] = f /\ buffer[B][2] = B /\ Real(buffer[B])
  BY <1>1, <1>3, FirstFrame
<1>5. ~Ends(buffer[B], sizes)
  BY <1>2, <1>4, <1>3 DEF Ends
<1>6. LastReal(buffer, B)
  BY <1>1, <1>4 DEF LastReal
<1>7. wire # <<>> /\ Ahead(wire[1], buffer[B], 1)
  BY <1>1, <1>3, <1>5, <1>6 DEF Tied, Joins
<1>8. wire[1][1] = f /\ wire[1][2] = B + 1
  BY <1>4, <1>7 DEF Ahead
<1> HIDE DEF f
<1>9. Unbroken(Stream, sizes) /\ NoPads(Stream)
  BY <1>1, <1>2, <1>7, <1>8, StreamIs, WireCells, JoinUnbroken
<1> QED BY <1>7, <1>9

\* s, which goes up to the end of the last frame, is cut behind its n-th byte:
\* b has what is before, with padding where a frame ends, and w the rest.
CutAt(s, z, n, b, w) ==
  /\ n \in 1..Len(s) /\ Ends(s[Len(s)], z) /\ s[Len(s)][1] = Len(z)
  /\ b \in Seq(Cells) /\ Len(b) >= n /\ Carries(b, 0, s, n) /\ PaddedBehind(b, n)
  /\ Len(b) > n => Ends(s[n], z)
  /\ w \in Seq(Cells) /\ Len(w) = Len(s) - n /\ \A i \in 1..Len(w) : w[i] = s[n + i]

GoodCut(s, z, n, b, w) ==
  /\ Unbroken(b, z) /\ Joins(b, w, z)
  /\ \A i \in 1..Len(b) : Real(b[i]) => i \in 1..n /\ b[i] = s[i]
  /\ \A i \in 1..Len(b), k \in 1..Len(w) : Real(b[i]) => b[i][1] <= w[k][1]

LEMMA Cut ==
  ASSUME NEW s \in Seq(Cells), NEW z \in Seq(Nat), NEW n, NEW b, NEW w,
         CutAt(s, z, n, b, w), Unbroken(s, z), NoPads(s)
  PROVE  GoodCut(s, z, n, b, w)
<1>0. /\ n \in 1..Len(s) /\ Ends(s[Len(s)], z) /\ s[Len(s)][1] = Len(z)
      /\ b \in Seq(Cells) /\ Len(b) >= n /\ Carries(b, 0, s, n) /\ PaddedBehind(b, n)
      /\ Len(b) > n => Ends(s[n], z)
      /\ w \in Seq(Cells) /\ Len(w) = Len(s) - n /\ \A i \in 1..Len(w) : w[i] = s[n + i]
  BY DEF CutAt
<1>1. /\ Len(w) = Len(s) - n /\ Len(b) >= n /\ Len(s) \in Nat /\ Len(b) \in Nat /\ Len(w) \in Nat /\ n \in Nat /\ n >= 1 /\ n <= Len(s)
      /\ Header \in Nat
  BY <1>0, LenProperties, Numbers
<1>2. Unbroken(b, z)
  BY <1>0, ChunkUnbroken
<1>3. \A i \in 1..Len(b) : Real(b[i]) => i \in 1..n /\ b[i] = s[i] /\ i \in 1..Len(s)
  <2> SUFFICES ASSUME NEW i \in 1..Len(b), Real(b[i])
               PROVE  i \in 1..n /\ b[i] = s[i] /\ i \in 1..Len(s)
    OBVIOUS
  <2>1. i \in n + 1..Len(b) \/ i \in 1..n
    BY <1>1
  <2>2. i \in 1..n
    BY <1>0, <2>1 DEF PaddedBehind
  <2>3. 0 + i = i /\ i \in 1..Len(s)
    BY <1>1, <2>2
  <2> QED BY <1>0, <2>2, <2>3 DEF Carries
<1>4. ASSUME NEW i \in 1..Len(b), NEW k \in 1..Len(w), Real(b[i])
      PROVE  b[i][1] <= w[k][1]
  <2>1. i \in 1..Len(s) /\ b[i] = s[i] /\ w[k] = s[n + k]
    BY <1>0, <1>3, <1>4
  <2>2. n + k \in 1..Len(s) /\ i <= n + k
    <3>1. i \in 1..n
      BY <1>3, <1>4
    <3> QED BY <1>1, <3>1
  <2>3. Real(s[n + k])
    BY <2>2 DEF NoPads
  <2> QED BY <2>1, <2>2, <2>3, InOrderOf
<1>5. ASSUME NEW i \in 1..Len(b), LastReal(b, i)
      PROVE  /\ ~Ends(b[i], z) => i = Len(b) /\ w # <<>> /\ Ahead(w[1], b[i], 1)
             /\ Ends(b[i], z) /\ w = <<>> => b[i][1] = Len(z)
             /\ Ends(b[i], z) /\ w # <<>> => Starts(w[1], b[i][1] + 1)
  <2>1. i \in 1..n /\ i \in 1..Len(s) /\ b[i] = s[i] /\ Real(s[i])
    BY <1>3, <1>5 DEF LastReal
  <2>2. i = n
    <3> SUFFICES ASSUME i < n PROVE FALSE
      BY <1>1, <2>1
    <3>1. i + 1 \in 1..n /\ 0 + (i + 1) = i + 1 /\ i < Len(b) /\ i + 1 \in 1..Len(s)
      BY <1>1, <2>1
    <3>2. b[i + 1] = s[i + 1]
      BY <1>0, <3>1 DEF Carries
    <3> QED BY <1>5, <3>1, <3>2 DEF LastReal, NoPads
  <2>3. w = <<>> => n = Len(s)
    <3>1. w = <<>> => Len(w) = 0
      BY EmptySeq
    <3> QED BY <1>1, <3>1
  <2>4. w # <<>> => 1 \in 1..Len(w) /\ n < Len(s) /\ n + 1 \in 1..Len(s) /\ n \in 1..Len(s) - 1
    <3>1. w # <<>> => Len(w) # 0
      BY EmptySeq
    <3> QED BY <1>1, <3>1
  <2>5. w # <<>> => w[1] = s[n + 1] /\ Real(s[n + 1])
    BY <1>0, <2>4 DEF NoPads
  <2>6. CASE Ends(b[i], z)
    <3>1. w # <<>> => Starts(s[n + 1], s[n][1] + 1)
      BY <2>1, <2>2, <2>4, <2>5, <2>6, AtTheTurn
    <3> QED BY <1>0, <2>1, <2>2, <2>3, <2>5, <2>6, <3>1
  <2>7. CASE ~Ends(b[i], z)
    <3>1. n # Len(s) /\ w # <<>>
      BY <1>0, <2>1, <2>2, <2>3, <2>7
    <3>2. i = Len(b)
      BY <1>0, <1>1, <2>1, <2>2, <2>7
    <3>3. s[n] \in Cells /\ FrameCell(s[n], z)
      BY <2>1, <2>2, ElementOfSeq DEF Unbroken
    <3>4. ~Ends(s[n], z)
      BY <2>1, <2>2, <2>7
    <3>5. Within(s[n], 1, z)
      BY <3>3, <3>4, OneMore
    <3>6. n \in 1..Len(s) /\ n + 1 \in 1..Len(s) /\ n <= n + 1 /\ 1 = (n + 1) - n /\ Real(s[n])
      BY <1>1, <2>1, <2>2, <2>4, <3>1
    <3>7. Ahead(s[n + 1], s[n], 1)
      BY <3>5, <3>6, Along
    <3> QED BY <2>1, <2>2, <2>5, <2>7, <3>1, <3>2, <3>7
  <2> QED BY <2>6, <2>7
<1>6. Joins(b, w, z)
  BY <1>5 DEF Joins
<1> QED BY <1>2, <1>3, <1>4, <1>6 DEF GoodCut

\* What is left of the wire when its first n bytes are gone.
LEMMA WireCut ==
  ASSUME TypeOK, OnTheWire, NEW n \in 0..Len(wire), NEW w, w = From(wire, n + 1)
  PROVE  /\ Unbroken(w, sizes) /\ w \in Seq(Cells) /\ Len(w) = Len(wire) - n
         /\ w # <<>> => Ends(w[Len(w)], sizes) /\ w[Len(w)][1] = Len(sizes)
         /\ \A k \in 1..Len(w) : n + k \in 1..Len(wire) /\ w[k] = wire[n + k]
         /\ n = 0 => w = wire
<1>1. Len(wire) \in Nat /\ wire \in Seq(Cells) /\ sizes \in Seq(Nat)
  BY WireCells
<1>2. n + 1 \in 1..Len(wire) + 1 /\ Len(wire) - (n + 1) + 1 = Len(wire) - n
  BY <1>1
<1>3. /\ w \in Seq(Cells) /\ Len(w) = Len(wire) - (n + 1) + 1 /\ Unbroken(w, sizes)
      /\ \A i \in 1..Len(w) : w[i] = wire[(n + 1) + i - 1]
  BY <1>1, <1>2, RestUnbroken DEF OnTheWire
<1>4. Len(w) = Len(wire) - n
  BY <1>2, <1>3
<1>5. \A k \in 1..Len(w) : n + k \in 1..Len(wire) /\ w[k] = wire[n + k]
  <2> SUFFICES ASSUME NEW k \in 1..Len(w) PROVE n + k \in 1..Len(wire) /\ w[k] = wire[n + k]
    OBVIOUS
  <2>1. n + k \in 1..Len(wire) /\ (n + 1) + k - 1 = n + k
    BY <1>1, <1>4
  <2> QED BY <1>3, <2>1
<1>6. ASSUME w # <<>> PROVE Ends(w[Len(w)], sizes) /\ w[Len(w)][1] = Len(sizes)
  <2>1. Len(w) # 0
    BY <1>3, <1>6, EmptySeq
  <2>2. Len(w) \in 1..Len(w) /\ n + Len(w) = Len(wire) /\ Len(wire) > 0
    BY <1>1, <1>4, <2>1
  <2>3. wire # <<>>
    BY <1>1, <2>2, EmptySeq
  <2> QED BY <1>5, <2>2, <2>3 DEF OnTheWire
<1>7. n = 0 => w = wire
  <2> SUFFICES ASSUME n = 0 PROVE w = wire
    OBVIOUS
  <2>1. Len(w) = Len(wire) /\ \A k \in 1..Len(w) : 0 + k = k
    BY <1>1, <1>4
  <2>2. \A k \in 1..Len(wire) : w[k] = wire[k]
    BY <1>5, <2>1
  <2> QED BY <1>1, <1>3, <2>1, <2>2, SeqEqual
<1> QED BY <1>3, <1>4, <1>5, <1>6, <1>7

LEMMA InStream ==
  ASSUME TypeOK, NEW i \in 1..Len(Stream)
  PROVE  \/ i \in 1..Len(buffer) /\ Stream[i] = buffer[i]
         \/ i - Len(buffer) \in 1..Len(wire) /\ Stream[i] = wire[i - Len(buffer)] /\ i > Len(buffer)
<1>1. Len(buffer) \in Nat /\ Len(wire) \in Nat /\ Len(Stream) = Len(buffer) + Len(wire) /\ i \in Nat
  BY WireCells, StreamIs
<1>2. CASE i <= Len(buffer)
  <2>1. i \in 1..Len(buffer) /\ 0 + i = i
    BY <1>1, <1>2
  <2>2. Stream[0 + i] = buffer[i]
    BY <2>1, StreamIs DEF Carries
  <2> QED BY <2>1, <2>2
<1>3. CASE i > Len(buffer)
  <2> DEFINE k == i - Len(buffer)
  <2>1. k \in 1..Len(wire) /\ Len(buffer) + k = i
    BY <1>1, <1>3
  <2> HIDE DEF k
  <2>2. Stream[Len(buffer) + k] = wire[k]
    BY <2>1, StreamIs DEF Carries
  <2> QED BY <1>3, <2>1, <2>2 DEF k
<1> QED BY <1>1, <1>2, <1>3

LEMMA StreamGoesOn ==
  ASSUME TypeOK, Receiving, buffer = <<>> \/ InStep, MoreNeeded, state = "receiving"
  PROVE  Unbroken(Stream, sizes) /\ NoPads(Stream)
<1>1. CASE buffer = <<>>
  <2>1. Stream = wire
    BY <1>1, WireCells, ConcatEmptySeq DEF Stream
  <2> QED BY <2>1, WireCells DEF Receiving, OnTheWire
<1>2. CASE InStep
  BY <1>2, StreamUnbroken
<1> QED BY <1>1, <1>2

\* A chunk that fits: the buffer has the next bytes of the stream.
LEMMA Taken ==
  ASSUME TypeOK, OnTheWire, NEW chunk, chunk \in Chunks, Padded(chunk, ReadCount(chunk)), chunk # <<>>
  PROVE  CutAt(Stream, sizes, Len(buffer) + ReadCount(chunk),
               buffer \o chunk, From(wire, ReadCount(chunk) + 1))
<1> DEFINE B == Len(buffer)
           r == ReadCount(chunk)
           C == Len(chunk)
           W == Len(wire)
           b == buffer \o chunk
           w == From(wire, r + 1)
           n == B + r
<1>1. /\ chunk \in Seq(Cells) /\ r \in 0..W /\ C \in Nat /\ C >= r
      /\ Carries(chunk, 0, wire, r) /\ PaddedBehind(chunk, r)
  BY ChunkIsCut
<1>2. /\ buffer \in Seq(Cells) /\ B \in Nat /\ W \in Nat /\ r \in Nat /\ r <= W /\ n = B + r
  BY <1>1, WireCells
<1>3. C > 0
  BY <1>1, EmptySeq
<1>4. r > 0 /\ (C > r => LastOf(chunk[r]))
  BY <1>2, <1>3 DEF Padded
<1>5. /\ b \in Seq(Cells) /\ Len(b) = B + C
      /\ \A i \in 1..B + C : b[i] = IF i <= B THEN buffer[i] ELSE chunk[i - B]
  BY <1>1, <1>2, ConcatProperties
<1>6. Len(Stream) = B + W /\ Carries(Stream, 0, buffer, B) /\ Carries(Stream, B, wire, W)
  BY StreamIs
<1>7. /\ Unbroken(w, sizes) /\ w \in Seq(Cells) /\ Len(w) = W - r
      /\ \A k \in 1..Len(w) : r + k \in 1..W /\ w[k] = wire[r + k]
  BY <1>1, WireCut
<1> HIDE DEF B, r, C, W, b, w, n
<1>8. n \in 1..Len(Stream)
  <2>1. n \in 1..B + W
    BY <1>2, <1>4
  <2> QED BY <1>6, <2>1
<1>9. Ends(Stream[Len(Stream)], sizes) /\ Stream[Len(Stream)][1] = Len(sizes)
  <2>1. W \in 1..W /\ W # 0
    BY <1>2, <1>4
  <2>2. Stream[B + W] = wire[W]
    BY <1>6, <2>1 DEF Carries
  <2>3. wire # <<>>
    BY <2>1, EmptySeq DEF W
  <2> QED BY <1>6, <2>2, <2>3 DEF OnTheWire, W
<1>10. n \in Nat /\ Len(b) = B + C
  BY <1>2, <1>5
<1>11. Len(b) >= n
  BY <1>1, <1>2, <1>10
<1>12. Carries(b, 0, Stream, n)
  <2> SUFFICES ASSUME NEW i \in 1..n PROVE b[0 + i] = Stream[i]
    BY DEF Carries
  <2>0. i \in Nat /\ i >= 1 /\ i <= n /\ 0 + i = i
    BY <1>10
  <2>1. CASE i <= B
    <3>1. i \in 1..B /\ 0 + i = i /\ i \in 1..B + C
      BY <1>1, <1>2, <2>0, <2>1
    <3>2. Stream[i] = buffer[i]
      BY <1>6, <3>1 DEF Carries
    <3> QED BY <1>5, <2>0, <2>1, <3>1, <3>2
  <2>2. CASE i > B
    <3> DEFINE k == i - B
    <3>1. k \in 1..r /\ B + k = i /\ i \in 1..B + C /\ 0 + k = k /\ k \in 1..W /\ ~(i <= B)
      BY <1>1, <1>2, <2>0, <2>2
    <3>2. b[i] = chunk[k]
      BY <1>5, <3>1
    <3> HIDE DEF k
    <3>3. chunk[k] = wire[k]
      BY <1>1, <3>1 DEF Carries
    <3>4. Stream[i] = wire[k]
      BY <1>6, <3>1 DEF Carries
    <3> QED BY <2>0, <3>2, <3>3, <3>4
  <2>3. i <= B \/ i > B
    BY <1>2, <2>0
  <2> QED BY <2>1, <2>2, <2>3
<1>13. PaddedBehind(b, n)
  <2> SUFFICES ASSUME NEW i \in n + 1..Len(b) PROVE ~Real(b[i])
    BY DEF PaddedBehind
  <2> DEFINE k == i - B
  <2>1. k \in r + 1..C /\ i \in 1..B + C /\ ~(i <= B)
    BY <1>1, <1>2, <1>5
  <2>2. b[i] = chunk[k]
    BY <1>5, <2>1
  <2> HIDE DEF k
  <2>3. ~Real(chunk[k])
    BY <1>1, <2>1 DEF PaddedBehind, C
  <2> QED BY <2>2, <2>3
<1>14. /\ B \in Nat /\ r \in Nat /\ r > 0 /\ r <= W /\ C \in Nat /\ W \in Nat
       /\ n = B + r /\ Len(b) = B + C
  BY <1>1, <1>2, <1>4, <1>10
<1>15. Len(b) > n => Ends(Stream[n], sizes)
  <2> SUFFICES ASSUME Len(b) > n PROVE Ends(Stream[n], sizes)
    OBVIOUS
  <2>1. C > r /\ r \in 1..r /\ 0 + r = r /\ r \in 1..W /\ B + r = n
    BY <1>14
  <2>2. chunk[r] = wire[r]
    BY <1>1, <2>1 DEF Carries
  <2>3. Stream[n] = wire[r]
    BY <1>6, <2>1 DEF Carries
  <2> QED BY <1>4, <2>1, <2>2, <2>3 DEF LastOf, Ends
<1>16. Len(w) = Len(Stream) - n
  BY <1>2, <1>6, <1>7
<1>17. ASSUME NEW i \in 1..Len(w) PROVE w[i] = Stream[n + i]
  <2> DEFINE k == r + i
  <2>1. k \in 1..W /\ w[i] = wire[k]
    BY <1>7
  <2>2. B + k = n + i
    <3>1. Len(w) = W - r
      BY <1>7
    <3>2. i \in Nat
      BY <1>14, <3>1
    <3>3. B + (r + i) = (B + r) + i
      BY <1>14, <3>2
    <3> QED BY <1>14, <3>3
  <2> HIDE DEF k
  <2>3. Stream[B + k] = wire[k]
    BY <1>6, <2>1 DEF Carries
  <2> QED BY <2>1, <2>2, <2>3
<1> QED BY <1>5, <1>7, <1>8, <1>9, <1>11, <1>12, <1>13, <1>15, <1>16, <1>17 DEF CutAt, B, r, b, w, n

LEMMA FitsKeeps ==
  ASSUME TypeOK, Receiving, MoreNeeded, state = "receiving", NEW chunk, chunk \in Chunks,
         Padded(chunk, ReadCount(chunk)), chunk # <<>>,
         buffer' = buffer \o chunk, wire' = From(wire, ReadCount(chunk) + 1),
         UNCHANGED <<sizes, received, state, lost>>
  PROVE  Receiving'
<1> DEFINE n == Len(buffer) + ReadCount(chunk)
           B == Len(buffer)
           r == ReadCount(chunk)
<1>1. OnTheWire /\ InTheBuffer /\ Older /\ (~lost => Expected)
  BY DEF Receiving
<1>2. /\ n \in 1..Len(Stream) /\ Ends(Stream[Len(Stream)], sizes) /\ Stream[Len(Stream)][1] = Len(sizes)
      /\ buffer' \in Seq(Cells) /\ Len(buffer') >= n /\ Carries(buffer', 0, Stream, n)
      /\ PaddedBehind(buffer', n) /\ (Len(buffer') > n => Ends(Stream[n], sizes))
      /\ wire' \in Seq(Cells) /\ Len(wire') = Len(Stream) - n
      /\ \A i \in 1..Len(wire') : wire'[i] = Stream[n + i]
  <2>1. CutAt(Stream, sizes, n, buffer', wire')
    BY <1>1, Taken
  <2> QED BY <2>1 DEF CutAt
<1>3. /\ r \in Nat /\ r \in 0..Len(wire) /\ B \in Nat /\ Len(wire) \in Nat /\ Len(buffer') \in Nat
      /\ n \in Nat /\ n = B + r /\ n >= 1 /\ Len(buffer') >= n /\ (buffer # <<>> => B > 0)
      /\ sizes \in Seq(Nat) /\ buffer \in Seq(Cells)
  <2>1. r \in 0..Len(wire) /\ Len(wire) \in Nat
    BY ChunkIsCut, WireCells
  <2>2. /\ r \in Nat /\ B \in Nat /\ (buffer # <<>> => B > 0) /\ sizes \in Seq(Nat)
        /\ buffer \in Seq(Cells)
    BY <2>1, WireCells
  <2>3. Len(buffer') \in Nat
    BY <1>2, LenProperties
  <2>4. n \in Nat /\ n >= 1 /\ Len(buffer') >= n
    BY <1>2, <2>2
  <2> QED BY <2>1, <2>2, <2>3, <2>4
<1>4. \A k \in 1..Len(wire') : r + k \in 1..Len(wire) /\ wire'[k] = wire[r + k]
  BY <1>1, <1>3, WireCut
<1>5. OnTheWire'
  BY <1>1, <1>3, WireCut DEF OnTheWire
<1> HIDE DEF n, B, r
<1>6. 1 \in 1..n /\ 1 \in 1..Len(buffer') /\ 0 + 1 = 1 /\ 1 \in 1..Len(Stream)
  <2>1. Len(Stream) \in Nat
    BY StreamIs, WireCells
  <2> QED BY <1>2, <1>3, <2>1
<1>7. buffer'[1] = Stream[1] /\ buffer' # <<>>
  <2>1. buffer'[0 + 1] = Stream[1]
    BY <1>2, <1>6 DEF Carries
  <2>2. buffer' # <<>>
    BY <1>6, EmptySeq
  <2> QED BY <1>6, <2>1, <2>2
<1>8. /\ buffer # <<>> => Stream[1] = buffer[1]
      /\ buffer = <<>> => Stream[1] = wire[1] /\ 1 \in 1..Len(wire)
  <2>1. buffer = <<>> => B = 0
    BY EmptySeq DEF B
  <2>2. CASE buffer = <<>>
    <3>1. ~(1 \in 1..B) /\ 1 - B = 1
      BY <2>1, <2>2
    <3> QED BY <1>6, <2>2, <3>1, InStream DEF B
  <2>3. CASE buffer # <<>>
    <3>1. ~(1 > B)
      BY <1>3, <2>3
    <3> QED BY <1>6, <2>3, <3>1, InStream DEF B
  <2> QED BY <2>2, <2>3
<1>9. Real(buffer'[1])
  BY <1>1, <1>7, <1>8, WireCells DEF InTheBuffer, NoPads
<1>10. InStep' => buffer = <<>> \/ InStep
  BY <1>7, <1>8 DEF InStep
<1>11. InStep' => GoodCut(Stream, sizes, n, buffer', wire')
  <2> SUFFICES ASSUME buffer = <<>> \/ InStep PROVE GoodCut(Stream, sizes, n, buffer', wire')
    BY <1>10
  <2>1. Stream \in Seq(Cells) /\ Unbroken(Stream, sizes) /\ NoPads(Stream)
    BY StreamGoesOn, StreamIs
  <2>2. CutAt(Stream, sizes, n, buffer', wire')
    BY <1>2 DEF CutAt
  <2>3. sizes \in Seq(Nat)
    BY <1>3
  <2> QED BY <2>1, <2>2, <2>3, Cut
<1>12. InTheBuffer'
  BY <1>7, <1>9, <1>11 DEF InTheBuffer, Tied, GoodCut
<1>13. ASSUME InStep', NEW k \in 1..Len(buffer'), Real(buffer'[k])
       PROVE  \/ InStep /\ k \in 1..Len(buffer) /\ buffer'[k] = buffer[k]
              \/ \E j \in 1..Len(wire) : buffer'[k] = wire[j]
  <2>1. k \in 1..n /\ buffer'[k] = Stream[k]
    BY <1>11, <1>13 DEF GoodCut
  <2>2. k \in 1..Len(Stream)
    <3>1. Len(Stream) \in Nat
      BY StreamIs, WireCells
    <3> QED BY <1>2, <2>1, <3>1
  <2>3. CASE k \in 1..Len(buffer) /\ Stream[k] = buffer[k]
    <3>1. buffer # <<>>
      BY <2>3, EmptySeq
    <3> QED BY <1>10, <1>13, <2>1, <2>3, <3>1
  <2> QED BY <2>1, <2>2, <2>3, InStream
<1>14. Older'
  <2>1. \A i, j \in 1..Len(received') : i < j => received'[i] < received'[j]
    BY <1>1 DEF Older
  <2>2. \A i \in 1..Len(received') :
           /\ received'[i] <= Len(sizes')
           /\ \A k \in 1..Len(wire') : received'[i] < wire'[k][1]
    BY <1>1, <1>4 DEF Older
  <2>3. ASSUME InStep', NEW i \in 1..Len(received'), NEW k \in 1..Len(buffer'), Real(buffer'[k])
        PROVE  received'[i] < buffer'[k][1]
    BY <1>1, <1>13, <2>3 DEF Older
  <2> QED BY <1>11, <2>1, <2>2, <2>3 DEF Older, GoodCut
<1>15. ~lost' => Expected'
  <2> SUFFICES ASSUME ~lost PROVE Expected'
    OBVIOUS
  <2>1. Expected
    BY <1>1
  <2>2. Starts(buffer'[1], Len(received) + 1)
    <3>1. buffer = <<>> => wire # <<>>
      BY <1>8, EmptySeq
    <3> QED BY <1>7, <1>8, <2>1, <3>1 DEF Expected
  <2>3. ASSUME NEW f, f \in Len(received) + 1..Len(sizes)
        PROVE  (\E k \in 1..Len(buffer') : Starts(buffer'[k], f)) \/ (\E k \in 1..Len(wire') : Starts(wire'[k], f))
    <3>1. CASE \E k \in 1..Len(buffer) : Starts(buffer[k], f)
      <4>1. PICK k \in 1..Len(buffer) : Starts(buffer[k], f)
        BY <3>1
      <4>2. k \in 1..n /\ 0 + k = k /\ k \in 1..Len(buffer')
        BY <1>3 DEF B
      <4>3. Stream[0 + k] = buffer[k]
        BY StreamIs DEF Carries
      <4>4. buffer'[0 + k] = Stream[k]
        BY <1>2, <4>2 DEF Carries
      <4> QED BY <4>1, <4>2, <4>3, <4>4
    <3>2. CASE \E k \in 1..Len(wire) : Starts(wire[k], f)
      <4>1. PICK k \in 1..Len(wire) : Starts(wire[k], f)
        BY <3>2
      <4>2. CASE k <= r
        <5> DEFINE i == B + k
        <5>1. i \in 1..n /\ 0 + i = i /\ i \in 1..Len(buffer')
          BY <1>3, <4>2
        <5>2. Stream[i] = wire[k]
          BY StreamIs DEF Carries, B
        <5> HIDE DEF i
        <5>3. buffer'[0 + i] = Stream[i]
          BY <1>2, <5>1 DEF Carries
        <5> QED BY <4>1, <5>1, <5>2, <5>3
      <4>3. CASE k > r
        <5> DEFINE i == k - r
        <5>1. i \in 1..Len(wire) - r /\ r + i = k
          BY <1>3, <4>3
        <5>2. Len(wire') = Len(wire) - r
          BY <1>1, <1>3, WireCut DEF r
        <5> HIDE DEF i
        <5>3. i \in 1..Len(wire') /\ wire'[i] = wire[k]
          BY <1>4, <5>1, <5>2
        <5> QED BY <4>1, <5>3
      <4> QED BY <1>3, <4>2, <4>3
    <3> QED BY <2>1, <2>3, <3>1, <3>2 DEF Expected
  <2> QED BY <1>7, <2>1, <2>2, <2>3 DEF Expected
<1> QED BY <1>1, <1>5, <1>12, <1>14, <1>15 DEF Receiving

LEMMA ReadKeeps ==
  ASSUME TypeOK, Receiving, Read
  PROVE  Receiving'
<1>1. OnTheWire /\ InTheBuffer /\ Older /\ (~lost => Expected)
  BY DEF Receiving
<1>2. /\ state = "receiving" /\ MoreNeeded /\ UNCHANGED <<sizes, received>>
      /\ state # "invalid_usb_frame_header"
  BY DEF Read
<1>3. PICK chunk \in Chunks :
        /\ Padded(chunk, ReadCount(chunk))
        /\ wire' = From(wire, ReadCount(chunk) + 1)
        /\ Fits(chunk) => buffer' = buffer \o chunk /\ UNCHANGED <<state, lost>>
        /\ ~Fits(chunk) => /\ state' = "invalid_usb_read_size"
                           /\ lost' = (lost \/ ReadCount(chunk) > 0) /\ buffer' = buffer
  BY Zenon DEF Read, ReadCount
<1>4. CASE Fits(chunk)
  <2>1. chunk # <<>> /\ buffer' = buffer \o chunk /\ UNCHANGED <<sizes, received, state, lost>>
    BY <1>2, <1>3, <1>4 DEF Fits
  <2> QED BY <1>2, <1>3, <2>1, FitsKeeps
<1>5. CASE ~Fits(chunk)
  <2>1. ReadCount(chunk) \in 0..Len(wire)
    BY ChunkIsCut
  <2>2. /\ Unbroken(wire', sizes)
        /\ wire' # <<>> => Ends(wire'[Len(wire')], sizes) /\ wire'[Len(wire')][1] = Len(sizes)
        /\ \A k \in 1..Len(wire') :
             ReadCount(chunk) + k \in 1..Len(wire) /\ wire'[k] = wire[ReadCount(chunk) + k]
        /\ ReadCount(chunk) = 0 => wire' = wire
    <3> DEFINE r == ReadCount(chunk)
               w == wire'
    <3>1. w = From(wire, r + 1) /\ r \in 0..Len(wire)
      BY <1>3, <2>1
    <3> HIDE DEF r, w
    <3>2. TypeOK /\ OnTheWire
      BY <1>1
    <3>3. \A v : \A n \in 0..Len(wire) : v = From(wire, n + 1) =>
          /\ Unbroken(v, sizes)
          /\ v # <<>> => Ends(v[Len(v)], sizes) /\ v[Len(v)][1] = Len(sizes)
          /\ \A k \in 1..Len(v) : n + k \in 1..Len(wire) /\ v[k] = wire[n + k]
          /\ n = 0 => v = wire
      BY <3>2, WireCut
    <3>4. /\ Unbroken(w, sizes)
          /\ w # <<>> => Ends(w[Len(w)], sizes) /\ w[Len(w)][1] = Len(sizes)
          /\ \A k \in 1..Len(w) : r + k \in 1..Len(wire) /\ w[k] = wire[r + k]
          /\ r = 0 => w = wire
      BY <3>1, <3>3
    <3> QED BY <3>4 DEF r, w
  <2>3. buffer' = buffer /\ state' = "invalid_usb_read_size" /\ (lost => lost')
    BY <1>3, <1>5
  <2>4. ~lost' => ~lost /\ wire' = wire
    <3>1. ~lost' => ~(ReadCount(chunk) > 0)
      BY <1>3, <1>5, Zenon
    <3>2. ~(ReadCount(chunk) > 0) => ReadCount(chunk) = 0
      BY <2>1, WireCells
    <3> QED BY <2>2, <2>3, <3>1, <3>2
  <2>5. OnTheWire'
    BY <1>2, <2>2 DEF OnTheWire
  <2>6. InTheBuffer'
    <3>1. InStep' <=> InStep
      BY <2>3 DEF InStep
    <3>2. ~lost /\ InStep => Tied
      BY <1>1 DEF InTheBuffer
    <3>3. ~lost' /\ InStep => Tied'
      BY <1>2, <2>3, <2>4, <3>2 DEF Tied
    <3>4. (buffer' # <<>> => Real(buffer'[1])) /\ (InStep => Unbroken(buffer', sizes'))
      BY <1>1, <1>2, <2>3 DEF InTheBuffer
    <3> QED BY <2>3, <3>1, <3>3, <3>4 DEF InTheBuffer
  <2>7. Older'
    BY <1>1, <1>2, <2>2, <2>3 DEF Older, InStep
  <2>8. ~lost' => Expected'
    BY <1>1, <1>2, <2>3, <2>4 DEF Expected
  <2> QED BY <2>3, <2>5, <2>6, <2>7, <2>8 DEF Receiving
<1> QED BY <1>4, <1>5

-----------------------------------------------------------------------------
(* The other steps. *)

LEMMA DiscardKeeps ==
  ASSUME TypeOK, Receiving, Discard
  PROVE  Receiving'
<1>1. /\ buffer' = <<>> /\ state' = "idle" /\ lost' = TRUE /\ UNCHANGED <<sizes, received>>
      /\ wire' = wire \/ \E n \in 1..Len(wire) : wire' = From(wire, n + 1)
  BY DEF Discard
<1>2. OnTheWire /\ Older
  BY DEF Receiving
<1>3. /\ OnTheWire'
      /\ \A k \in 1..Len(wire') : \E j \in 1..Len(wire) : wire'[k] = wire[j]
  <2>1. CASE wire' = wire
    BY <1>1, <1>2, <2>1 DEF OnTheWire
  <2>2. CASE \E n \in 1..Len(wire) : wire' = From(wire, n + 1)
    <3>1. PICK n \in 1..Len(wire) : wire' = From(wire, n + 1)
      BY <2>2
    <3>2. n \in 0..Len(wire)
      BY WireCells
    <3>3. /\ Unbroken(wire', sizes)
          /\ wire' # <<>> => Ends(wire'[Len(wire')], sizes) /\ wire'[Len(wire')][1] = Len(sizes)
          /\ \A k \in 1..Len(wire') : n + k \in 1..Len(wire) /\ wire'[k] = wire[n + k]
      BY <1>2, <3>1, <3>2, WireCut
    <3> QED BY <1>1, <3>3 DEF OnTheWire
  <2> QED BY <1>1, <2>1, <2>2
<1>4. InTheBuffer'
  BY <1>1 DEF InTheBuffer, InStep
<1>5. Older'
  BY <1>1, <1>2, <1>3 DEF Older, InStep
<1> QED BY <1>1, <1>3, <1>4, <1>5 DEF Receiving

\* The header of a frame is good.
LEMMA HeaderIsGood ==
  ASSUME TypeOK, InTheBuffer, InStep, HeaderThere
  PROVE  HeaderOk
<1> SUFFICES ASSUME NEW k \in 1..Header PROVE buffer[k] = <<buffer[1][1], k>>
  BY DEF HeaderOk
<1>1. Len(buffer) >= Header /\ Len(buffer) \in Nat /\ FrameSize \in Nat /\ FrameSize > Header /\ Header \in Nat
  BY GoodSize, WireCells, Numbers DEF HeaderThere
<1>2. k \in 1..Len(buffer) /\ k <= FrameSize
  BY <1>1
<1>3. buffer[k][1] = buffer[1][1] /\ buffer[k][2] = k
  BY <1>2, FirstFrame
<1>4. buffer[k] \in Cells
  BY <1>2, WireCells, ElementOfSeq
<1>5. buffer[k] = <<buffer[k][1], buffer[k][2]>>
  BY <1>4, CellIsPair
<1> QED BY <1>3, <1>5

LEMMA QuietKeeps ==
  ASSUME TypeOK, Receiving, Call \/ BadHeader \/ ReadTimeout
  PROVE  Receiving'
<1>1. UNCHANGED <<sizes, wire, buffer, received, lost>>
  BY DEF Call, BadHeader, ReadTimeout
<1>2. state # "invalid_usb_read_size" /\ (state' = "invalid_usb_frame_header" => BadHeader)
  BY DEF Call, BadHeader, ReadTimeout
<1>3. BadHeader => lost
  <2> SUFFICES ASSUME BadHeader, ~lost PROVE FALSE
    OBVIOUS
  <2>1. HeaderThere /\ ~HeaderOk /\ InTheBuffer /\ Expected
    BY DEF BadHeader, Receiving
  <2>2. buffer # <<>>
    <3>1. buffer = <<>> => Len(buffer) = 0
      BY EmptySeq
    <3> QED BY <2>1, <3>1, Numbers DEF HeaderThere
  <2>3. InStep
    BY <2>1, <2>2 DEF Expected, Starts, InStep
  <2> QED BY <2>1, <2>3, HeaderIsGood
<1>4. OnTheWire' /\ Older' /\ (~lost' => Expected')
  BY <1>1 DEF Receiving, OnTheWire, Older, Expected, InStep
<1>5. InTheBuffer'
  BY <1>1, <1>2 DEF Receiving, InTheBuffer, InStep, Tied
<1> QED BY <1>1, <1>2, <1>3, <1>4, <1>5 DEF Receiving

\* The wire with one frame more behind it.
OneFrameMore(w, z) ==
  /\ Unbroken(w, z) /\ w # <<>> /\ Len(z) = Len(sizes) + 1
  /\ Ends(w[Len(w)], z) /\ w[Len(w)][1] = Len(z)
  /\ \A i \in 1..Len(wire) : i \in 1..Len(w) /\ w[i] = wire[i]
  /\ \A i \in 1..Len(w) : i \in 1..Len(wire) \/ w[i][1] = Len(z)
  /\ Len(wire) + 1 \in 1..Len(w) /\ Starts(w[Len(wire) + 1], Len(z))

LEMMA Sent ==
  ASSUME TypeOK, OnTheWire, NEW n \in 1..MaxBody, NEW z, z = Append(sizes, n),
         NEW g, g = [k \in 1..Header + n |-> <<Len(sizes) + 1, k>>], NEW w, w = wire \o g,
         Len(sizes) < MaxFrames
  PROVE  OneFrameMore(w, z)
<1> DEFINE W == Len(wire)
           f == Len(sizes) + 1
<1>0. W \in Nat /\ wire \in Seq(Cells) /\ sizes \in Seq(Nat) /\ Len(sizes) \in Nat /\ NoPads(wire)
  BY WireCells
<1>1. /\ W \in Nat /\ wire \in Seq(Cells) /\ sizes \in Seq(Nat) /\ Len(sizes) \in Nat /\ f \in Nat
      /\ f \in 1..MaxFrames /\ Header \in Nat /\ Header > 0 /\ n \in Nat /\ n > 0 /\ NoPads(wire)
      /\ Header + n <= Header + MaxBody
  <2> HIDE DEF W
  <2> QED BY <1>0, Numbers
<1>2. Len(z) = f /\ z[f] = n
  BY <1>1, AppendProperties
<1> HIDE DEF f, W
<1>3. \A k \in 1..Header + n : <<f, k>> \in Cells
  <2>1. \A k \in 1..Header + n : <<f, k>> \in (1..MaxFrames) \X (1..Header + MaxBody)
    BY <1>1, Numbers
  <2> QED BY <2>1, RealCells
<1>4. /\ g \in Seq(Cells) /\ Len(g) = Header + n /\ \A k \in 1..Header + n : g[k] = <<f, k>>
  <2>1. g = [k \in 1..Header + n |-> <<f, k>>] /\ Header + n \in Nat
    BY <1>1 DEF f
  <2>2. [k \in 1..Header + n |-> <<f, k>>] \in Seq(Cells)
    BY <1>3, <2>1
  <2>3. Len(g) = Header + n
    BY <2>1
  <2> QED BY <2>1, <2>2, <2>3
<1>5. \A k \in 1..Header + n : g[k][1] = f /\ g[k][2] = k
  BY <1>4
<1>6. Begins(g, Len(sizes) + 1)
  BY <1>4, <1>5 DEF Begins, f
<1>7. /\ w \in Seq(Cells) /\ Len(w) = W + (Header + n)
      /\ \A i \in 1..W + (Header + n) : w[i] = IF i <= W THEN wire[i] ELSE g[i - W]
  BY <1>1, <1>4, ConcatProperties DEF W
<1>8. \A i \in 1..W : i \in 1..Len(w) /\ w[i] = wire[i] /\ 0 + i = i
  <2> SUFFICES ASSUME NEW i \in 1..W PROVE i \in 1..Len(w) /\ w[i] = wire[i] /\ 0 + i = i
    OBVIOUS
  <2>1. i \in 1..W + (Header + n) /\ i <= W /\ 0 + i = i
    BY <1>1
  <2> QED BY <1>7, <2>1
<1>9. \A k \in 1..Header + n : W + k \in 1..Len(w) /\ w[W + k] = g[k]
  <2> SUFFICES ASSUME NEW k \in 1..Header + n PROVE W + k \in 1..Len(w) /\ w[W + k] = g[k]
    OBVIOUS
  <2>1. W + k \in 1..W + (Header + n) /\ ~(W + k <= W) /\ (W + k) - W = k
    BY <1>1
  <2> QED BY <1>7, <2>1
<1>10. Unbroken(w, z)
  <2>1. Carries(w, 0, wire, Len(wire))
    BY <1>8 DEF Carries, W
  <2>2. Carries(w, Len(wire), g, Len(g))
    BY <1>4, <1>9 DEF Carries, W
  <2>3. n \in Nat \ {0} /\ Len(w) = Len(wire) + Len(g)
    BY <1>1, <1>4, <1>7 DEF W
  <2> QED BY <1>1, <1>4, <1>6, <1>7, <2>1, <2>2, <2>3, LongerUnbroken DEF OnTheWire
<1>11. Header + n \in 1..Header + n /\ 1 \in 1..Header + n
  BY <1>1
<1>12. Ends(w[Len(w)], z) /\ w[Len(w)][1] = f
  BY <1>2, <1>5, <1>7, <1>9, <1>11 DEF Ends
<1>13. W + 1 \in 1..Len(w) /\ Starts(w[W + 1], f)
  BY <1>5, <1>9, <1>11 DEF Starts
<1>14. w # <<>>
  <2>1. w = <<>> => Len(w) = 0
    BY EmptySeq
  <2>2. Len(w) # 0
    BY <1>1, <1>7
  <2> QED BY <2>1, <2>2
<1>15. ASSUME NEW i \in 1..Len(w), i \notin 1..W PROVE w[i][1] = f
  <2>1. i \in 1..W + (Header + n)
    BY <1>7
  <2>2. i - W \in 1..Header + n /\ ~(i <= W)
    BY <1>1, <1>15, <2>1
  <2> QED BY <1>5, <1>7, <2>1, <2>2
<1> QED BY <1>2, <1>8, <1>10, <1>12, <1>13, <1>14, <1>15 DEF OneFrameMore, W, f

LEMMA SendsKeeps ==
  ASSUME TypeOK, Receiving, ReaderSends
  PROVE  Receiving'
<1> DEFINE W == Len(wire)
           Z == Len(sizes)
<1>1. OnTheWire /\ InTheBuffer /\ Older /\ (~lost => Expected)
  BY DEF Receiving
<1>2. PICK n \in 1..MaxBody :
        /\ sizes' = Append(sizes, n)
        /\ wire' = wire \o [k \in 1..Header + n |-> <<Len(sizes) + 1, k>>]
  BY DEF ReaderSends
<1>3. Len(sizes) < MaxFrames /\ UNCHANGED <<buffer, received, state, lost>>
  BY DEF ReaderSends
<1>4. /\ Unbroken(wire', sizes') /\ wire' # <<>> /\ Len(sizes') = Z + 1
      /\ Ends(wire'[Len(wire')], sizes') /\ wire'[Len(wire')][1] = Len(sizes')
      /\ \A i \in 1..W : i \in 1..Len(wire') /\ wire'[i] = wire[i]
      /\ \A i \in 1..Len(wire') : i \in 1..W \/ wire'[i][1] = Len(sizes')
      /\ W + 1 \in 1..Len(wire') /\ Starts(wire'[W + 1], Len(sizes'))
  <2>1. OneFrameMore(wire', sizes')
    BY <1>1, <1>2, <1>3, Sent
  <2> QED BY <2>1 DEF OneFrameMore
<1>5. /\ W \in Nat /\ Z \in Nat /\ sizes \in Seq(Nat) /\ buffer \in Seq(Cells) /\ n \in Nat
      /\ (wire # <<>> => 1 \in 1..W) /\ (wire = <<>> => W = 0) /\ Len(received) \in Nat
  BY WireCells, Numbers, EmptySeq
<1> HIDE DEF W, Z
<1>6. /\ wire # <<>> => wire'[1] = wire[1]
      /\ wire = <<>> => Starts(wire'[1], Z + 1)
  <2>1. 0 + 1 = 1
    OBVIOUS
  <2> QED BY <1>4, <1>5, <2>1
<1>7. OnTheWire'
  BY <1>4 DEF OnTheWire
<1>8. InStep => \A i \in 1..Len(buffer) : Real(buffer[i]) =>
        /\ FrameCell(buffer[i], sizes) /\ (Ends(buffer[i], sizes') <=> Ends(buffer[i], sizes))
        /\ buffer[i][1] \in 1..Z
  <2> SUFFICES ASSUME InStep, NEW i \in 1..Len(buffer), Real(buffer[i])
               PROVE  /\ FrameCell(buffer[i], sizes) /\ (Ends(buffer[i], sizes') <=> Ends(buffer[i], sizes))
                      /\ buffer[i][1] \in 1..Z
    OBVIOUS
  <2>1. FrameCell(buffer[i], sizes)
    BY <1>1 DEF InTheBuffer, Unbroken
  <2> QED BY <1>2, <1>5, <2>1, OneMoreSize DEF FrameCell, Z
<1>9. InStep' <=> InStep
  BY <1>3 DEF InStep
<1>10. InTheBuffer'
  <2>1. InStep => Unbroken(buffer', sizes')
    BY <1>1, <1>2, <1>3, <1>5, StillUnbroken DEF InTheBuffer
  <2>2. InStep /\ Tied => Tied'
    <3> SUFFICES ASSUME InStep, Tied, NEW i \in 1..Len(buffer), LastReal(buffer, i)
                 PROVE  /\ ~Ends(buffer[i], sizes') => i = Len(buffer) /\ wire' # <<>> /\ Ahead(wire'[1], buffer[i], 1)
                        /\ Ends(buffer[i], sizes') /\ wire' = <<>> => buffer[i][1] = Len(sizes')
                        /\ Ends(buffer[i], sizes') /\ wire' # <<>> => Starts(wire'[1], buffer[i][1] + 1)
      BY <1>3 DEF Tied, Joins
    <3>1. Ends(buffer[i], sizes') <=> Ends(buffer[i], sizes)
      BY <1>8 DEF LastReal
    <3>2. /\ ~Ends(buffer[i], sizes) => i = Len(buffer) /\ wire # <<>> /\ Ahead(wire[1], buffer[i], 1)
          /\ Ends(buffer[i], sizes) /\ wire = <<>> => buffer[i][1] = Len(sizes)
          /\ Ends(buffer[i], sizes) /\ wire # <<>> => Starts(wire[1], buffer[i][1] + 1)
      BY DEF Tied, Joins
    <3> QED BY <1>4, <1>6, <3>1, <3>2 DEF Z
  <2> QED BY <1>1, <1>3, <1>9, <2>1, <2>2 DEF InTheBuffer
<1>11. Older'
  <2>1. ASSUME InStep', NEW i \in 1..Len(buffer'), NEW k \in 1..Len(wire'), Real(buffer'[i])
        PROVE  buffer'[i][1] <= wire'[k][1]
    <3>1. CASE k \in 1..W
      BY <1>1, <1>3, <1>4, <1>9, <2>1, <3>1 DEF Older, W
    <3>2. CASE k \notin 1..W
      <4>1. wire'[k][1] = Z + 1 /\ buffer'[i][1] \in 1..Z
        BY <1>3, <1>4, <1>8, <1>9, <2>1, <3>2
      <4> QED BY <1>5, <4>1
    <3> QED BY <3>1, <3>2
  <2>2. ASSUME NEW i \in 1..Len(received')
        PROVE  /\ received'[i] <= Len(sizes')
               /\ \A k \in 1..Len(wire') : received'[i] < wire'[k][1]
    <3>1. received'[i] = received[i] /\ received[i] <= Z /\ i \in 1..Len(received)
      BY <1>1, <1>3 DEF Older, Z
    <3>2. received[i] \in Nat
      <4>1. received[i] \in 1..MaxFrames
        BY <3>1, ElementOfSeq DEF TypeOK
      <4> QED BY <4>1, Numbers
    <3>3. received[i] < Z + 1 /\ received[i] <= Z + 1
      BY <1>5, <3>1, <3>2
    <3>4. \A k \in 1..W : received[i] < wire[k][1]
      BY <1>1, <3>1 DEF Older, W
    <3> QED BY <1>4, <3>1, <3>3, <3>4
  <2>3. /\ \A i, j \in 1..Len(received') : i < j => received'[i] < received'[j]
        /\ \A i \in 1..Len(received') :
             InStep' => \A k \in 1..Len(buffer') : Real(buffer'[k]) => received'[i] < buffer'[k][1]
    BY <1>1, <1>3, <1>9 DEF Older
  <2> QED BY <2>1, <2>2, <2>3 DEF Older
<1>12. ~lost' => Expected'
  <2> SUFFICES ASSUME ~lost PROVE Expected'
    BY <1>3
  <2>1. Expected
    BY <1>1
  <2>2. buffer' = <<>> /\ wire' # <<>> => Starts(wire'[1], Len(received') + 1)
    BY <1>3, <1>6, <2>1 DEF Expected, Z
  <2>3. ASSUME NEW f, f \in Len(received') + 1..Len(sizes')
        PROVE  (\E k \in 1..Len(buffer') : Starts(buffer'[k], f)) \/ (\E k \in 1..Len(wire') : Starts(wire'[k], f))
    <3>1. CASE f = Len(sizes')
      BY <1>4, <3>1
    <3>2. CASE f # Len(sizes')
      <4>1. f \in Len(received) + 1..Len(sizes)
        <5>1. f \in Len(received) + 1..Z + 1 /\ f # Z + 1
          BY <1>3, <1>4, <2>3, <3>2
        <5> QED BY <1>5, <5>1 DEF Z
      <4>2. (\E k \in 1..Len(buffer) : Starts(buffer[k], f)) \/ (\E k \in 1..W : Starts(wire[k], f))
        BY <2>1, <4>1 DEF Expected, W
      <4> QED BY <1>3, <1>4, <4>2
    <3> QED BY <3>1, <3>2
  <2> QED BY <1>3, <1>4, <2>1, <2>2, <2>3 DEF Expected
<1> QED BY <1>1, <1>3, <1>7, <1>10, <1>11, <1>12 DEF Receiving

LEMMA ReceivingStep == TypeOK /\ Receiving /\ [Next]_vars => Receiving'
<1>1. ASSUME Receiving, UNCHANGED vars PROVE Receiving'
  BY <1>1 DEF vars, Receiving, OnTheWire, InTheBuffer, Older, Expected, InStep, Tied
<1> QED BY <1>1, SendsKeeps, ReturnKeeps, ReadKeeps, DiscardKeeps, QuietKeeps DEF Next

LEMMA InitReceiving == Init => TypeOK /\ Receiving
<1> SUFFICES ASSUME Init PROVE TypeOK /\ Receiving
  OBVIOUS
<1>1. /\ sizes = <<>> /\ wire = <<>> /\ buffer = <<>> /\ received = <<>> /\ state = "idle" /\ lost = FALSE
  BY DEF Init
<1>2. Len(<<>>) = 0 /\ 1..0 = {} /\ \A S : <<>> \in Seq(S)
  BY EmptySeq
<1>3. TypeOK
  <2>1. sizes \in Seq(1..MaxBody) /\ Len(sizes) <= MaxFrames /\ buffer \in Seq(Cells) /\ Len(buffer) <= Limit
    BY <1>1, <1>2, Numbers
  <2>2. wire \in Seq(Cells \ {Pad}) /\ received \in Seq(1..MaxFrames)
    BY <1>1, <1>2
  <2> QED BY <1>1, <2>1, <2>2 DEF TypeOK
<1>4. \A i \in 1..Len(<<>>) : FALSE
  BY <1>2
<1>5. OnTheWire /\ InTheBuffer
  BY <1>1, <1>4 DEF OnTheWire, InTheBuffer, InStep, Unbroken
<1>6. Older
  BY <1>1, <1>4 DEF Older, InStep
<1>7. Expected
  <2>1. ASSUME NEW f \in Len(received) + 1..Len(sizes) PROVE FALSE
    BY <1>1, <1>2
  <2> QED BY <1>1, <1>2, <2>1 DEF Expected
<1> QED BY <1>1, <1>3, <1>5, <1>6, <1>7 DEF Receiving

\* The frames still to come, each counted by its first byte.
LEMMA StillToCome ==
  ASSUME TypeOK, Receiving, ~lost
  PROVE  Len(received) + Cardinality({c \in {buffer[k] : k \in DOMAIN buffer}
                                         \cup {wire[k] : k \in DOMAIN wire} : c[2] = 1})
           = Len(sizes)
<1> DEFINE R == Len(received)
           Z == Len(sizes)
           S == {c \in {buffer[k] : k \in DOMAIN buffer} \cup {wire[k] : k \in DOMAIN wire} : c[2] = 1}
           F == [f \in R + 1..Z |-> <<f, 1>>]
<1>1. OnTheWire /\ InTheBuffer /\ Older /\ Expected
  BY DEF Receiving
<1>2. /\ R \in Nat /\ Z \in Nat /\ buffer \in Seq(Cells) /\ wire \in Seq(Cells)
      /\ DOMAIN buffer = 1..Len(buffer) /\ DOMAIN wire = 1..Len(wire)
      /\ Len(buffer) \in Nat /\ Len(wire) \in Nat /\ NoPads(wire)
  BY WireCells, LenProperties
<1> HIDE DEF R, Z
<1>3. \A i \in 1..R : received[i] = i /\ i <= Z
  BY <1>1 DEF Expected, Older, R, Z
<1>4. R <= Z
  BY <1>2, <1>3
<1>5. ASSUME NEW k \in 1..Len(buffer), buffer[k][2] = 1 PROVE buffer[k][1] \in R + 1..Z
  <2>1. buffer # <<>> /\ 1 \in 1..Len(buffer) /\ 1 <= k
    BY <1>2, EmptySeq
  <2>2. InStep /\ buffer[1][1] = R + 1
    BY <1>1, <2>1 DEF Expected, Starts, InStep, R
  <2>3. Real(buffer[k]) /\ Unbroken(buffer, sizes)
    BY <1>1, <1>5, <2>2 DEF Real, InTheBuffer
  <2>4. buffer[1][1] <= buffer[k][1]
    BY <2>1, <2>3, InOrderOf
  <2>5. buffer[k][1] \in 1..Z
    BY <2>3 DEF Unbroken, FrameCell, Z
  <2> QED BY <1>2, <2>2, <2>4, <2>5
<1>6. ASSUME NEW k \in 1..Len(wire), wire[k][2] = 1 PROVE wire[k][1] \in R + 1..Z
  <2>1. wire[k][1] \in 1..Z
    BY <1>1, <1>2 DEF OnTheWire, Unbroken, NoPads, FrameCell, Z
  <2>2. R # 0 => R < wire[k][1]
    <3>1. R # 0 => R \in 1..R
      BY <1>2
    <3>2. R # 0 => received[R] < wire[k][1]
      BY <1>1, <3>1 DEF Older, R
    <3> QED BY <1>3, <3>1, <3>2
  <2> QED BY <1>2, <2>1, <2>2
<1>7. \A c \in S : c[1] \in R + 1..Z /\ c = <<c[1], 1>>
  <2> SUFFICES ASSUME NEW c, c \in S PROVE c[1] \in R + 1..Z /\ c = <<c[1], 1>>
    OBVIOUS
  <2>1. c[2] = 1 /\ ((\E k \in 1..Len(buffer) : c = buffer[k]) \/ (\E k \in 1..Len(wire) : c = wire[k]))
    BY <1>2
  <2>2. c[1] \in R + 1..Z
    BY <1>5, <1>6, <2>1
  <2>3. c \in Cells
    BY <1>2, <2>1, ElementOfSeq
  <2>4. c = <<c[1], c[2]>>
    BY <2>3, CellIsPair
  <2> QED BY <2>1, <2>2, <2>4
<1>8. \A f \in R + 1..Z : <<f, 1>> \in S
  <2> SUFFICES ASSUME NEW f \in R + 1..Z PROVE <<f, 1>> \in S
    OBVIOUS
  <2>1. (\E k \in 1..Len(buffer) : Starts(buffer[k], f)) \/ (\E k \in 1..Len(wire) : Starts(wire[k], f))
    BY <1>1 DEF Expected, R, Z
  <2>2. ASSUME NEW c \in Cells, Starts(c, f) PROVE c = <<f, 1>> /\ c[2] = 1
    <3>1. c = <<c[1], c[2]>>
      BY CellIsPair
    <3> QED BY <2>2, <3>1 DEF Starts
  <2>3. CASE \E k \in 1..Len(buffer) : Starts(buffer[k], f)
    <3>1. PICK k \in 1..Len(buffer) : Starts(buffer[k], f)
      BY <2>3
    <3>2. buffer[k] = <<f, 1>> /\ buffer[k][2] = 1
      BY <1>2, <2>2, <3>1, ElementOfSeq
    <3>3. k \in DOMAIN buffer
      BY <1>2
    <3>4. buffer[k] \in S
      BY <3>2, <3>3
    <3> QED BY <3>2, <3>4
  <2>4. CASE \E k \in 1..Len(wire) : Starts(wire[k], f)
    <3>1. PICK k \in 1..Len(wire) : Starts(wire[k], f)
      BY <2>4
    <3>2. wire[k] = <<f, 1>> /\ wire[k][2] = 1
      BY <1>2, <2>2, <3>1, ElementOfSeq
    <3>3. k \in DOMAIN wire
      BY <1>2
    <3>4. wire[k] \in S
      BY <3>2, <3>3
    <3> QED BY <3>2, <3>4
  <2> QED BY <2>1, <2>3, <2>4
<1> HIDE DEF S
<1>9. F \in Bijection(R + 1..Z, S)
  <2>1. F \in [R + 1..Z -> S]
    BY <1>8
  <2>2. \A a, b \in R + 1..Z : F[a] = F[b] => a = b
    OBVIOUS
  <2>3. \A c \in S : \E f \in R + 1..Z : F[f] = c
    BY <1>7
  <2> QED BY <2>1, <2>2, <2>3, Fun_IsBij
<1>10. ExistsBijection(R + 1..Z, S)
  BY <1>9, Fun_ExistsBij
<1>11. IsFiniteSet(R + 1..Z) /\ Cardinality(R + 1..Z) = IF R + 1 > Z THEN 0 ELSE Z - (R + 1) + 1
  <2>1. R + 1 \in Int /\ Z \in Int
    BY <1>2
  <2> QED BY <2>1, FS_Interval
<1>12. Cardinality(S) = Cardinality(R + 1..Z)
  BY <1>10, <1>11, FS_Bijection
<1>13. R + Cardinality(R + 1..Z) = Z
  BY <1>2, <1>4, <1>11
<1> QED BY <1>12, <1>13 DEF R, Z, S

LEMMA OrderHolds == TypeOK /\ Receiving => InOrder
<1> SUFFICES ASSUME TypeOK, Receiving PROVE InOrder
  OBVIOUS
<1>1. DOMAIN received = 1..Len(received)
  BY LenProperties DEF TypeOK
<1>2. \A i, j \in DOMAIN received : i < j => received[i] < received[j]
  BY <1>1 DEF Receiving, Older
<1>3. ~lost => \A i \in DOMAIN received : received[i] = i
  BY <1>1 DEF Receiving, Expected
<1> QED BY <1>2, <1>3, StillToCome DEF InOrder

-----------------------------------------------------------------------------
LEMMA AlwaysReceiving == Spec => [](TypeOK /\ Receiving)
<1>1. TypeOK /\ Receiving /\ [Next]_vars => (TypeOK /\ Receiving)'
  BY TypesStep, ReceivingStep DEF Receiving
<1> QED BY <1>1, InitReceiving, PTL DEF Spec

\* The values receive() works with keep their types, and wire.buffer its limit of
\* 65536 bytes, however the transfers are cut.
THEOREM BufferTypes == Spec => []TypeOK
BY AlwaysReceiving, PTL

\* Frames are returned in the order the reader sent them, each once; until bytes
\* are thrown away (a chunk too many, or fdt_down's handler) none is missing:
\* those not returned have their first byte in the buffer or on the wire.
THEOREM FramesInOrder == Spec => []InOrder
BY AlwaysReceiving, OrderHolds, PTL

\* receive() raises invalid_usb_frame_header only after bytes were thrown away.
THEOREM NoFalseHeaders == Spec => []NoFalseHeader
<1>1. Receiving => NoFalseHeader
  BY DEF Receiving, NoFalseHeader
<1> QED BY <1>1, AlwaysReceiving, PTL

-----------------------------------------------------------------------------
(* ReaderLink's view of the buffer and the wire. *)

\* The last frame of which something was read, and the last read whole, when w is
\* still on the wire and n frames were sent.
LastRead(w, n)  == IF w = <<>> THEN n ELSE IF w[1][2] = 1 THEN w[1][1] - 1 ELSE w[1][1]
LastWhole(w, n) == IF w = <<>> THEN n ELSE w[1][1] - 1

\* What is on its way is each frame from some one to the last, and so is what can
\* be read, up to where the wire goes on.
Contiguous ==
  /\ wire # <<>> => FramesOf(wire) = wire[1][1]..Len(sizes)
  /\ readable # <<>> =>
       Real(readable[1]) /\ FramesOf(readable) = readable[1][1]..LastRead(wire, Len(sizes))

LEMMA FrameIn ==
  ASSUME NEW s \in Seq(Cells), NEW f
  PROVE  /\ f \in FramesOf(s) <=> \E k \in 1..Len(s) : Real(s[k]) /\ f = s[k][1]
         /\ f \in FramesOf(s) => f \in Nat /\ f > 0
<1>1. DOMAIN s = 1..Len(s)
  BY LenProperties
<1>2. \A k \in 1..Len(s) : s[k] \in Cells
  BY ElementOfSeq
<1>3. \A k \in 1..Len(s) : s[k][1] \in Nat /\ (Real(s[k]) <=> s[k][1] # 0)
  <2> SUFFICES ASSUME NEW k \in 1..Len(s) PROVE s[k][1] \in Nat /\ (Real(s[k]) <=> s[k][1] # 0)
    OBVIOUS
  <2>1. s[k][1] \in Nat /\ (s[k] = Pad <=> ~Real(s[k]))
        /\ (Real(s[k]) => s[k] \in (1..MaxFrames) \X (1..Header + MaxBody))
    BY <1>2, CellIsPair
  <2>2. Real(s[k]) => s[k][1] \in 1..MaxFrames
    BY <2>1
  <2>3. s[k] = Pad => s[k][1] = 0
    BY DEF Pad
  <2> QED BY <2>1, <2>2, <2>3, Numbers
<1> QED BY <1>1, <1>3 DEF FramesOf

\* Next to each other on the wire: bytes of one frame, or of the next.
LEMMA NextByte ==
  ASSUME NEW s \in Seq(Cells), NEW z \in Seq(Nat), Unbroken(s, z), NoPads(s), NEW n \in 1..Len(s) - 1,
         NEW m, m = n + 1
  PROVE  \/ Starts(s[m], s[n][1] + 1)
         \/ s[m][1] = s[n][1] /\ s[m][2] # 1
<1>1. Len(s) \in Nat /\ n \in 1..Len(s) /\ m \in 1..Len(s) /\ n <= m /\ 1 = m - n
  BY LenProperties
<1>2. Real(s[n]) /\ Real(s[m]) /\ s[n] \in Cells
  BY <1>1, ElementOfSeq DEF NoPads
<1>3. FrameCell(s[n], z)
  BY <1>1, <1>2 DEF Unbroken
<1>4. CASE Ends(s[n], z)
  BY <1>2, <1>4, AtTheTurn
<1>5. CASE ~Ends(s[n], z)
  <2>1. Within(s[n], 1, z)
    BY <1>2, <1>3, <1>5, OneMore
  <2>2. Ahead(s[m], s[n], 1)
    BY <1>1, <1>2, <2>1, Along
  <2>3. s[n][2] \in Nat /\ s[n][2] # 0
    BY <1>2, CellIsPair DEF Real
  <2> QED BY <2>2, <2>3 DEF Ahead
<1> QED BY <1>4, <1>5

\* The wire cut behind its n-th byte.
LEMMA CutFrames ==
  ASSUME NEW w \in Seq(Cells), NEW z \in Seq(Nat), Unbroken(w, z), NoPads(w),
         NEW last \in Nat, w # <<>> => w[Len(w)][1] = last,
         w # <<>> => FramesOf(w) = w[1][1]..last,
         NEW n \in 1..Len(w), NEW v \in Seq(Cells), Len(v) = Len(w) - n,
         \A k \in 1..Len(v) : v[k] = w[n + k]
  PROVE  /\ \A f : f \in w[1][1]..LastRead(v, last) <=> \E k \in 1..n : f = w[k][1]
         /\ v # <<>> => FramesOf(v) = v[1][1]..last
         /\ LastRead(v, last) = w[n][1]
         /\ v # <<>> /\ v[1][2] = 1 => v[1][1] > w[n][1]
<1>1. Len(w) \in Nat /\ Len(v) \in Nat /\ w # <<>> /\ n \in Nat /\ n > 0 /\ n <= Len(w)
  BY LenProperties, EmptySeq
<1>2. \A k \in 1..Len(w) : w[k] \in Cells /\ w[k][1] \in Nat /\ w[k][2] \in Nat /\ Real(w[k])
  BY ElementOfSeq, CellIsPair DEF NoPads
<1>3. \A i, j \in 1..Len(w) : i <= j => w[i][1] <= w[j][1]
  BY <1>2, InOrderOf
<1> DEFINE m == n + 1
<1>5. ASSUME v # <<>>
      PROVE  /\ m \in 1..Len(w) /\ 1 \in 1..Len(v) /\ v[1] = w[m] /\ n \in 1..Len(w) - 1
             /\ (Starts(w[m], w[n][1] + 1) \/ (w[m][1] = w[n][1] /\ w[m][2] # 1))
  <2>1. Len(v) > 0
    BY <1>5, EmptySeq
  <2>2. m \in 1..Len(w) /\ 1 \in 1..Len(v) /\ n \in 1..Len(w) - 1
    BY <1>1, <2>1
  <2> QED BY <2>2, NextByte
<1> HIDE DEF m
<1>6. LastRead(v, last) = w[n][1] /\ (v # <<>> /\ v[1][2] = 1 => v[1][1] > w[n][1])
  <2>1. CASE v = <<>>
    <3>1. n = Len(w)
      BY <1>1, <2>1, EmptySeq
    <3> QED BY <1>1, <2>1, <3>1 DEF LastRead
  <2>2. CASE v # <<>>
    <3>1. w[n][1] \in Nat
      BY <1>2
    <3> QED BY <1>5, <2>2, <3>1 DEF LastRead, Starts
  <2> QED BY <2>1, <2>2
<1>7. \A f : f \in w[1][1]..w[n][1] <=> \E k \in 1..n : f = w[k][1]
  <2>0. n \in 1..Len(w) /\ Len(w) \in 1..Len(w) /\ 1 \in 1..Len(w)
    BY <1>1
  <2>1. ASSUME NEW k \in 1..n PROVE w[k][1] \in w[1][1]..w[n][1]
    <3>1. k \in 1..Len(w) /\ 1 <= k /\ k <= n
      BY <1>1
    <3>2. w[1][1] <= w[k][1] /\ w[k][1] <= w[n][1]
      BY <1>3, <2>0, <3>1
    <3> QED BY <1>2, <2>0, <3>1, <3>2
  <2>2. ASSUME NEW f \in w[1][1]..w[n][1] PROVE \E k \in 1..n : f = w[k][1]
    <3>1. w[n][1] <= last /\ w[1][1] \in Nat /\ w[n][1] \in Nat
      BY <1>1, <1>2, <1>3, <2>0
    <3>2. f \in FramesOf(w)
      BY <1>1, <3>1
    <3>3. PICK k \in 1..Len(w) : f = w[k][1]
      BY <3>2, FrameIn
    <3>4. CASE k <= n
      BY <3>3, <3>4
    <3>5. CASE k > n
      <4>1. w[n][1] <= w[k][1]
        BY <1>1, <1>3, <3>5
      <4>2. f = w[n][1]
        BY <3>1, <3>3, <4>1
      <4> QED BY <1>1, <4>2
    <3> QED BY <1>1, <3>4, <3>5
  <2> QED BY <2>1, <2>2
<1>8. ASSUME v # <<>> PROVE FramesOf(v) = v[1][1]..last
  <2>0. /\ m \in 1..Len(w) /\ 1 \in 1..Len(v) /\ v[1] = w[m] /\ w[m][1] \in Nat
    BY <1>2, <1>5, <1>8
  <2>1. ASSUME NEW f \in FramesOf(v) PROVE f \in v[1][1]..last
    <3>1. PICK k \in 1..Len(v) : f = v[k][1]
      BY <2>1, FrameIn
    <3> DEFINE j == n + k
    <3>2. v[k] = w[j] /\ j \in 1..Len(w) /\ m <= j /\ j <= Len(w) /\ Len(w) \in 1..Len(w)
      BY <1>1, <3>1 DEF m
    <3> HIDE DEF j
    <3>3. w[m][1] <= w[j][1] /\ w[j][1] <= w[Len(w)][1]
      BY <1>3, <2>0, <3>2
    <3> QED BY <1>1, <1>2, <2>0, <3>1, <3>2, <3>3
  <2>2. ASSUME NEW f \in v[1][1]..last PROVE f \in FramesOf(v)
    <3>1. w[1][1] <= w[m][1] /\ w[1][1] \in Nat
      BY <1>1, <1>2, <1>3, <2>0
    <3>2. f \in FramesOf(w)
      BY <1>1, <2>0, <3>1
    <3>3. PICK k \in 1..Len(w) : f = w[k][1]
      BY <3>2, FrameIn
    <3>4. \E i \in 1..Len(v) : f = v[i][1]
      <4>1. CASE k > n
        <5> DEFINE i == k - n
        <5>1. i \in 1..Len(v) /\ n + i = k
          BY <1>1, <4>1
        <5> QED BY <3>3, <5>1
      <4>2. CASE k <= n
        <5>1. w[k][1] <= w[m][1]
          BY <1>1, <1>3, <2>0, <4>2 DEF m
        <5> QED BY <2>0, <3>3, <5>1
      <4> QED BY <1>1, <4>1, <4>2
    <3>5. PICK i \in 1..Len(v) : f = v[i][1]
      BY <3>4
    <3>6. n + i \in 1..Len(w) /\ v[i] = w[n + i]
      BY <1>1, <3>5
    <3>7. Real(v[i])
      BY <1>2, <3>6
    <3> QED BY <3>5, <3>7, FrameIn
  <2> QED BY <2>1, <2>2
<1> QED BY <1>6, <1>7, <1>8

LEMMA OnWire ==
  ASSUME TypeOK, OnTheWire, Contiguous, NEW n \in 1..Len(wire), NEW v, v = From(wire, n + 1)
  PROVE  /\ \A f : f \in wire[1][1]..LastRead(v, Len(sizes)) <=> \E k \in 1..n : f = wire[k][1]
         /\ v # <<>> => FramesOf(v) = v[1][1]..Len(sizes)
         /\ LastRead(v, Len(sizes)) = wire[n][1]
         /\ v # <<>> /\ v[1][2] = 1 => v[1][1] > wire[n][1]
<1>1. wire \in Seq(Cells) /\ sizes \in Seq(Nat) /\ Unbroken(wire, sizes) /\ NoPads(wire)
      /\ Len(wire) \in Nat /\ Len(sizes) \in Nat
  BY WireCells DEF OnTheWire
<1>2. n \in 0..Len(wire)
  BY <1>1
<1>3. v \in Seq(Cells) /\ Len(v) = Len(wire) - n /\ \A k \in 1..Len(v) : v[k] = wire[n + k]
  BY <1>2, WireCut
<1>4. wire # <<>> => wire[Len(wire)][1] = Len(sizes) /\ FramesOf(wire) = wire[1][1]..Len(sizes)
  BY DEF OnTheWire, Contiguous
<1> QED BY <1>1, <1>3, <1>4, CutFrames

\* The buffer is thrown away, with n bytes of the wire.
LEMMA DropContiguous ==
  ASSUME TypeOK, OnTheWire, Contiguous, NEW n \in 0..Len(wire), wire' = From(wire, n + 1),
         readable' = <<>>, UNCHANGED sizes
  PROVE  Contiguous'
<1>1. CASE n = 0
  <2>1. wire' = wire
    BY <1>1, WireCut
  <2> QED BY <2>1 DEF Contiguous
<1>2. CASE n # 0
  <2>1. n \in 1..Len(wire)
    BY <1>2, WireCells
  <2>2. wire' # <<>> => FramesOf(wire') = wire'[1][1]..Len(sizes)
    BY <2>1, OnWire
  <2> QED BY <2>2 DEF Contiguous, FramesOf
<1> QED BY <1>1, <1>2

LEMMA FitsContiguous ==
  ASSUME TypeOK, OnTheWire, Contiguous, state = "receiving", NEW chunk, chunk \in Chunks,
         Padded(chunk, ReadCount(chunk)), chunk # <<>>,
         buffer' = buffer \o chunk, wire' = From(wire, ReadCount(chunk) + 1),
         UNCHANGED <<sizes, state>>
  PROVE  /\ Contiguous' /\ ReadCount(chunk) \in 1..Len(wire) /\ wire # <<>>
         /\ readable = buffer /\ readable' = buffer' /\ buffer' # <<>> /\ Len(buffer') >= Len(buffer)
         /\ buffer'[1] = IF buffer # <<>> THEN buffer[1] ELSE wire[1]
<1> DEFINE n == ReadCount(chunk)
           B == Len(buffer)
<1>1. /\ chunk \in Seq(Cells) /\ n \in 0..Len(wire) /\ Len(chunk) \in Nat /\ Len(chunk) >= n
      /\ Carries(chunk, 0, wire, n) /\ PaddedBehind(chunk, n)
  BY ChunkIsCut
<1>2. wire \in Seq(Cells) /\ NoPads(wire) /\ buffer \in Seq(Cells) /\ B \in Nat /\ Len(wire) \in Nat
      /\ (buffer # <<>> => B > 0) /\ Len(sizes) \in Nat
  BY WireCells
<1>3. n \in 1..Len(wire) /\ n > 0 /\ n \in Nat
  <2>1. Len(chunk) > 0
    BY <1>1, <1>2, EmptySeq
  <2>2. Len(chunk) > n => n > 0
    BY DEF Padded
  <2> QED BY <1>1, <1>2, <2>1, <2>2
<1>4. wire # <<>>
  BY <1>2, <1>3, EmptySeq
<1>5. /\ buffer' \in Seq(Cells) /\ Len(buffer') = B + Len(chunk)
      /\ \A i \in 1..B + Len(chunk) : buffer'[i] = IF i <= B THEN buffer[i] ELSE chunk[i - B]
  BY <1>1, <1>2, ConcatProperties
<1> HIDE DEF n, B
<1>6. Len(buffer') > 0 /\ buffer' # <<>> /\ Len(buffer') >= B
  BY <1>1, <1>2, <1>3, <1>5, EmptySeq
<1>7. readable = buffer /\ readable' = buffer'
  BY DEF readable
<1>8. \A i \in 1..n : chunk[i] = wire[i] /\ i \in 1..Len(wire) /\ Real(wire[i])
  <2> SUFFICES ASSUME NEW i \in 1..n PROVE chunk[i] = wire[i] /\ i \in 1..Len(wire) /\ Real(wire[i])
    OBVIOUS
  <2>1. i \in 1..Len(wire) /\ 0 + i = i
    BY <1>1, <1>2, <1>3
  <2>2. chunk[0 + i] = wire[i]
    BY <1>1 DEF Carries
  <2>3. Real(wire[i])
    BY <1>2, <2>1 DEF NoPads
  <2> QED BY <2>1, <2>2, <2>3
<1>9. buffer'[1] = IF buffer # <<>> THEN buffer[1] ELSE wire[1]
  <2>1. CASE buffer # <<>>
    BY <1>1, <1>2, <1>5, <2>1
  <2>2. CASE buffer = <<>>
    <3>1. B = 0
      BY <2>2, EmptySeq DEF B
    <3>2. 1 \in 1..B + Len(chunk) /\ 1 \in 1..n /\ 1 - B = 1 /\ ~(1 <= B)
      BY <1>1, <1>3, <3>1
    <3> QED BY <1>5, <1>8, <2>2, <3>2
  <2> QED BY <2>1, <2>2
<1>10. \A f : f \in FramesOf(buffer') <=> f \in FramesOf(buffer) \/ \E k \in 1..n : f = wire[k][1]
  <2>1. ASSUME NEW k \in 1..Len(buffer'), Real(buffer'[k])
        PROVE  (k \in 1..B /\ buffer'[k] = buffer[k]) \/ (k - B \in 1..n /\ buffer'[k] = wire[k - B])
    <3>1. CASE k <= B
      BY <1>2, <1>5, <3>1
    <3>2. CASE k > B
      <4>1. k - B \in 1..Len(chunk) /\ buffer'[k] = chunk[k - B]
        BY <1>1, <1>2, <1>5, <3>2
      <4>2. k - B > n => k - B \in n + 1..Len(chunk)
        BY <1>1, <1>2, <1>3, <4>1
      <4>3. k - B \in 1..n
        BY <1>1, <1>2, <1>3, <2>1, <4>1, <4>2 DEF PaddedBehind
      <4> QED BY <1>8, <4>1, <4>3
    <3> QED BY <1>1, <1>2, <1>5, <3>1, <3>2
  <2>2. ASSUME NEW k \in 1..B PROVE k \in 1..Len(buffer') /\ buffer'[k] = buffer[k]
    BY <1>1, <1>2, <1>5
  <2>3. ASSUME NEW k \in 1..n PROVE B + k \in 1..Len(buffer') /\ buffer'[B + k] = wire[k] /\ Real(wire[k])
    <3>1. B + k \in 1..B + Len(chunk) /\ ~(B + k <= B) /\ (B + k) - B = k
      BY <1>1, <1>2, <1>3
    <3>2. buffer'[B + k] = chunk[k]
      BY <1>5, <3>1
    <3> QED BY <1>5, <1>8, <3>1, <3>2
  <2>4. \A f : f \in FramesOf(buffer') => f \in FramesOf(buffer) \/ \E k \in 1..n : f = wire[k][1]
    <3> SUFFICES ASSUME NEW f, f \in FramesOf(buffer')
                 PROVE  f \in FramesOf(buffer) \/ \E k \in 1..n : f = wire[k][1]
      OBVIOUS
    <3>1. PICK k \in 1..Len(buffer') : Real(buffer'[k]) /\ f = buffer'[k][1]
      BY <1>5, FrameIn
    <3> QED BY <1>2, <2>1, <3>1, FrameIn DEF B
  <2>5. \A f : f \in FramesOf(buffer) => f \in FramesOf(buffer')
    <3> SUFFICES ASSUME NEW f, f \in FramesOf(buffer) PROVE f \in FramesOf(buffer')
      OBVIOUS
    <3>1. PICK k \in 1..B : Real(buffer[k]) /\ f = buffer[k][1]
      BY <1>2, FrameIn DEF B
    <3> QED BY <1>5, <2>2, <3>1, FrameIn
  <2>6. \A k \in 1..n : wire[k][1] \in FramesOf(buffer')
    <3> SUFFICES ASSUME NEW k \in 1..n PROVE wire[k][1] \in FramesOf(buffer')
      OBVIOUS
    <3> QED BY <1>5, <2>3, FrameIn
  <2> QED BY <2>4, <2>5, <2>6
<1> DEFINE last == LastRead(wire', Len(sizes))
<1>11. /\ \A f : f \in wire[1][1]..last <=> \E k \in 1..n : f = wire[k][1]
       /\ wire' # <<>> => FramesOf(wire') = wire'[1][1]..Len(sizes)
       /\ last = wire[n][1]
  BY <1>3, OnWire DEF n
<1>12. wire[1][1] \in Nat /\ wire[n][1] \in Nat /\ wire[1][1] <= wire[n][1]
  <2>1. 1 \in 1..n /\ 1 \in 1..Len(wire) /\ 1 <= n
    BY <1>1, <1>2, <1>3
  <2>2. Unbroken(wire, sizes) /\ sizes \in Seq(Nat)
    BY WireCells DEF OnTheWire
  <2>3. wire[1][1] <= wire[n][1]
    BY <1>2, <1>3, <1>8, <2>1, <2>2, InOrderOf
  <2>4. wire[1] \in Cells /\ wire[n] \in Cells
    BY <1>2, <1>3, <2>1, ElementOfSeq
  <2> QED BY <2>3, <2>4, CellIsPair
<1> HIDE DEF last
<1>13. Real(buffer'[1]) /\ \A f : f \in FramesOf(buffer') <=> f \in buffer'[1][1]..last
  <2>1. CASE buffer = <<>>
    <3>1. \A f : f \notin FramesOf(buffer)
      <4>1. \A f : f \in FramesOf(buffer) => \E k \in 1..Len(buffer) : Real(buffer[k])
        BY <1>2, FrameIn
      <4> QED BY <2>1, <4>1, EmptySeq
    <3>2. 1 \in 1..n
      BY <1>3
    <3> QED BY <1>8, <1>9, <1>10, <1>11, <2>1, <3>1, <3>2
  <2>2. CASE buffer # <<>>
    <3> DEFINE e == LastRead(wire, Len(sizes))
    <3>1. Real(buffer[1]) /\ FramesOf(buffer) = buffer[1][1]..e
      BY <1>7, <2>2 DEF Contiguous
    <3>2. e \in {wire[1][1], wire[1][1] - 1}
      BY <1>4 DEF LastRead
    <3>3. 1 \in 1..B /\ buffer[1] \in Cells
      BY <1>2, <2>2, ElementOfSeq DEF B
    <3>4. buffer[1][1] \in FramesOf(buffer) /\ buffer[1][1] \in Nat
      BY <1>2, <3>1, <3>3, FrameIn, CellIsPair DEF B
    <3> HIDE DEF e
    <3>5. buffer[1][1] <= e
      BY <3>1, <3>4
    <3>6. \A f : f \in buffer[1][1]..last <=> f \in buffer[1][1]..e \/ f \in wire[1][1]..last
      BY <1>11, <1>12, <3>2, <3>4, <3>5
    <3> QED BY <1>9, <1>10, <1>11, <2>2, <3>1, <3>6
  <2> QED BY <2>1, <2>2
<1>14. FramesOf(buffer') = buffer'[1][1]..last
  BY <1>13
<1>15. Contiguous'
  BY <1>7, <1>11, <1>13, <1>14 DEF Contiguous, last, FramesOf, Real, LastRead
<1> QED BY <1>3, <1>4, <1>6, <1>7, <1>9, <1>15 DEF n, B

\* A frame that is not whole yet goes on on the wire.
LEMMA GoesOnWire ==
  ASSUME TypeOK, InTheBuffer, InStep, MoreNeeded, state # "invalid_usb_read_size"
  PROVE  wire # <<>> /\ wire[1][1] = buffer[1][1] /\ wire[1][2] # 1
<1> DEFINE f == buffer[1][1]
           B == Len(buffer)
<1>1. Tied /\ B \in Nat /\ 1 \in 1..B
  BY GoodSize, WireCells DEF InTheBuffer
<1>2. B < FrameSize /\ FrameSize = Header + sizes[f] /\ FrameSize \in Nat
  BY <1>1, BeginningHeld, GoodSize DEF FrameSize
<1>3. B \in 1..B /\ B <= FrameSize /\ B # 0
  BY <1>1, <1>2
<1>4. buffer[B][1] = f /\ buffer[B][2] = B /\ Real(buffer[B])
  BY <1>1, <1>3, FirstFrame
<1>5. ~Ends(buffer[B], sizes)
  BY <1>2, <1>4, <1>3 DEF Ends
<1>6. LastReal(buffer, B)
  BY <1>1, <1>4 DEF LastReal
<1>7. wire # <<>> /\ Ahead(wire[1], buffer[B], 1)
  BY <1>1, <1>3, <1>5, <1>6 DEF Tied, Joins
<1> HIDE DEF f
<1>8. wire[1][1] = f /\ wire[1][2] = B + 1
  BY <1>4, <1>7 DEF Ahead
<1>9. wire[1][2] # 1
  BY <1>1, <1>3, <1>8
<1> QED BY <1>7, <1>8, <1>9 DEF f

\* receive() has a whole frame, and behind it nothing or the next one.
LEMMA ReturnFrames ==
  ASSUME TypeOK, Receiving, Contiguous, Return
  PROVE  /\ readable = buffer /\ buffer # <<>> /\ Len(buffer) >= Header /\ InStep
         /\ readable' = buffer' /\ UNCHANGED <<sizes, wire>>
         /\ Contiguous'
         /\ \/ /\ buffer' = <<>> /\ LastRead(wire, Len(sizes)) = buffer[1][1]
               /\ wire # <<>> => Starts(wire[1], buffer[1][1] + 1)
            \/ /\ buffer' # <<>> /\ Starts(buffer'[1], buffer[1][1] + 1)
               /\ buffer[1][1] + 1 <= LastRead(wire, Len(sizes))
<1> DEFINE f == buffer[1][1]
           F == FrameSize
           rest == From(buffer, F + 1)
           B == Len(buffer)
           e == LastRead(wire, Len(sizes))
<1>1. HeaderThere /\ HeaderOk /\ B >= F /\ state = "receiving" /\ B >= Header
  BY DEF Return, FrameThere, HeaderThere
<1>2. InStep /\ InTheBuffer
  BY <1>1, GoodHeader DEF Receiving
<1>3. f \in 1..Len(sizes) /\ Len(sizes) \in Nat /\ f \in Nat /\ Real(buffer[1]) /\ 1 \in 1..B
  BY <1>2, GoodSize, WireCells
<1>4. Tied /\ buffer \in Seq(Cells)
  BY <1>1, <1>2, WireCells DEF Receiving, InTheBuffer
<1>5. UNCHANGED <<sizes, wire>> /\ state' = "idle" /\ buffer' = Kept(rest)
  BY DEF Return
<1>6. B \in Nat /\ F \in Nat /\ F >= 1 /\ F <= B
  BY <1>1, <1>2, WireCells, GoodSize, Numbers
<1>7. /\ F \in 1..B /\ Ends(buffer[F], sizes) /\ F <= FrameSize
      /\ rest \in Seq(Cells) /\ Unbroken(rest, sizes) /\ Len(rest) = B - F
      /\ \A i \in 1..Len(rest) : rest[i] = buffer[F + i]
      /\ (\E i \in 1..Len(rest) : Real(rest[i])) =>
               1 \in 1..Len(rest) /\ Real(rest[1]) /\ Starts(rest[1], f + 1)
  BY <1>1, <1>2, <1>6, Behind
<1>8. \A k \in 1..F : buffer[k][1] = f /\ Real(buffer[k])
  BY <1>2, <1>6, FirstFrame
<1>9. buffer # <<>> /\ readable = buffer /\ readable' = buffer'
  BY <1>1, <1>3, <1>5, EmptySeq DEF readable
<1>10. \A g : g \in FramesOf(buffer) <=> g \in f..e
  BY <1>9 DEF Contiguous
<1> HIDE DEF F, f, rest, e
<1>11. /\ \A g \in FramesOf(rest) : g \in FramesOf(buffer)
       /\ \A g \in FramesOf(buffer) : g = f \/ g \in FramesOf(rest)
  <2>1. ASSUME NEW k \in 1..B, Real(buffer[k]) PROVE buffer[k][1] = f \/ buffer[k][1] \in FramesOf(rest)
    <3>1. CASE k <= F
      BY <1>6, <1>8, <3>1
    <3>2. CASE k > F
      <4>1. k - F \in 1..Len(rest) /\ F + (k - F) = k
        BY <1>6, <1>7, <3>2
      <4>2. rest[k - F] = buffer[k]
        BY <1>7, <4>1
      <4> QED BY <1>7, <2>1, <4>1, <4>2, FrameIn
    <3> QED BY <1>6, <3>1, <3>2
  <2>2. ASSUME NEW k \in 1..Len(rest), Real(rest[k]) PROVE rest[k][1] \in FramesOf(buffer)
    <3>1. F + k \in 1..B /\ rest[k] = buffer[F + k]
      BY <1>6, <1>7
    <3> QED BY <1>4, <2>2, <3>1, FrameIn
  <2>3. \A g \in FramesOf(rest) : \E k \in 1..Len(rest) : Real(rest[k]) /\ g = rest[k][1]
    BY <1>7, FrameIn
  <2>4. \A g \in FramesOf(buffer) : \E k \in 1..B : Real(buffer[k]) /\ g = buffer[k][1]
    BY <1>4, FrameIn
  <2> QED BY <2>1, <2>2, <2>3, <2>4
<1>12. e \in Int
  <2>1. wire # <<>> => wire[1] \in Cells
    BY WireCells, ElementOfSeq
  <2> QED BY <1>3, <2>1, CellIsPair DEF e, LastRead
<1>13. f <= e
  <2>1. f \in FramesOf(buffer)
    BY <1>3, <1>4, FrameIn DEF f
  <2> QED BY <1>3, <1>10, <1>12, <2>1
<1>14. CASE \A i \in 1..Len(rest) : ~Real(rest[i])
  <2>1. buffer' = <<>>
    <3>1. Kept(rest) = <<>> \/ \E i \in 1..Len(rest) : Real(rest[i])
      BY <1>7, KeptIsRest
    <3> QED BY <1>5, <1>14, <3>1
  <2>2. \A g : g \notin FramesOf(rest)
    BY <1>7, <1>14, FrameIn
  <2>3. e = f
    <3>1. e \in FramesOf(buffer)
      BY <1>3, <1>10, <1>12, <1>13
    <3> QED BY <1>11, <2>2, <3>1
  <2>4. LastReal(buffer, F)
    <3> SUFFICES ASSUME F < B PROVE ~Real(buffer[F + 1])
      BY <1>6, <1>8 DEF LastReal
    <3>1. 1 \in 1..Len(rest)
      BY <1>6, <1>7
    <3> QED BY <1>7, <1>14, <3>1
  <2>5. wire # <<>> => Starts(wire[1], f + 1)
    <3>1. F \in 1..F
      BY <1>6
    <3> QED BY <1>4, <1>7, <1>8, <2>4, <3>1 DEF Tied, Joins
  <2>6. Contiguous'
    BY <1>5, <1>9, <2>1 DEF Contiguous, FramesOf
  <2> QED BY <1>1, <1>2, <1>5, <1>9, <2>1, <2>3, <2>5, <2>6 DEF e, f
<1>15. CASE \E i \in 1..Len(rest) : Real(rest[i])
  <2>1. buffer' = rest
    <3>1. Kept(rest) = rest \/ \A i \in 1..Len(rest) : ~Real(rest[i])
      BY <1>7, KeptIsRest
    <3> QED BY <1>5, <1>15, <3>1
  <2>2. 1 \in 1..Len(rest) /\ Real(rest[1]) /\ Starts(rest[1], f + 1) /\ rest # <<>>
    BY <1>7, <1>15, EmptySeq
  <2>3. f + 1 \in FramesOf(rest)
    BY <1>7, <2>2, FrameIn DEF Starts
  <2>4. f + 1 <= e
    BY <1>3, <1>10, <1>11, <1>12, <2>3
  <2>5. \A g \in FramesOf(rest) : g \in f + 1..e
    <3> SUFFICES ASSUME NEW g \in FramesOf(rest) PROVE g \in f + 1..e
      OBVIOUS
    <3>1. PICK k \in 1..Len(rest) : Real(rest[k]) /\ g = rest[k][1]
      BY <1>7, FrameIn
    <3>2. 1 <= k /\ k \in 1..Len(rest)
      BY <1>6, <1>7
    <3>3. rest[1][1] <= rest[k][1]
      BY <1>7, <2>2, <3>1, <3>2, InOrderOf
    <3>4. g \in f..e
      BY <1>10, <1>11
    <3>5. g >= f + 1
      BY <2>2, <3>1, <3>3 DEF Starts
    <3> QED BY <1>3, <1>12, <3>4, <3>5
  <2>6. \A g \in f + 1..e : g \in FramesOf(rest)
    <3> SUFFICES ASSUME NEW g \in f + 1..e PROVE g \in FramesOf(rest)
      OBVIOUS
    <3>1. g \in f..e /\ g # f
      BY <1>3, <1>12
    <3> QED BY <1>10, <1>11, <3>1
  <2>7. FramesOf(rest) = rest[1][1]..e
    BY <2>2, <2>5, <2>6 DEF Starts
  <2>8. Contiguous'
    BY <1>5, <1>9, <2>1, <2>2, <2>7 DEF Contiguous, FramesOf, e, Real
  <2> QED BY <1>1, <1>2, <1>5, <1>9, <2>1, <2>2, <2>4, <2>8 DEF e, f
<1> QED BY <1>14, <1>15

LEMMA SendsContiguous ==
  ASSUME TypeOK, OnTheWire, Contiguous, ReaderSends
  PROVE  /\ Contiguous' /\ UNCHANGED readable
         /\ Len(sizes') = Len(sizes) + 1 /\ wire' # <<>>
         /\ wire'[1] = IF wire # <<>> THEN wire[1] ELSE <<Len(sizes) + 1, 1>>
<1> DEFINE f == Len(sizes) + 1
<1>1. PICK n \in 1..MaxBody :
        /\ sizes' = Append(sizes, n)
        /\ wire' = wire \o [k \in 1..Header + n |-> <<f, k>>]
  BY DEF ReaderSends
<1>2. /\ wire \in Seq(Cells) /\ NoPads(wire) /\ Len(wire) \in Nat /\ f \in Nat /\ f > 0 /\ f \in 1..MaxFrames
      /\ sizes \in Seq(Nat) /\ n \in Nat /\ n > 0 /\ Header \in Nat /\ Len(sizes) \in Nat
      /\ wire # <<>> => Len(wire) > 0
  <2>1. wire \in Seq(Cells) /\ NoPads(wire) /\ Len(wire) \in Nat /\ sizes \in Seq(Nat) /\ Len(sizes) \in Nat
        /\ (wire # <<>> => Len(wire) > 0)
    BY WireCells
  <2>2. Len(sizes) < MaxFrames
    BY DEF ReaderSends
  <2> QED BY <2>1, <2>2, Numbers
<1>3. readable' = readable
  BY DEF ReaderSends, readable
<1>4. Len(sizes') = f
  BY <1>1, <1>2, AppendProperties
<1> DEFINE g == [k \in 1..Header + n |-> <<f, k>>]
<1>5. g \in Seq(Cells) /\ Len(g) = Header + n /\ Len(g) \in Nat /\ Len(g) > 0
      /\ \A k \in 1..Len(g) : g[k] = <<f, k>> /\ Real(g[k])
  <2>1. \A k \in 1..Header + n : <<f, k>> \in (1..MaxFrames) \X (1..Header + MaxBody)
    BY <1>2, Numbers
  <2>2. \A k \in 1..Header + n : <<f, k>> \in Cells
    BY <2>1, RealCells
  <2>3. Header + n \in Nat
    BY <1>2
  <2>4. g \in Seq(Cells)
    BY <2>2, <2>3, IsASeq
  <2>5. Len(g) = Header + n
    BY <2>3
  <2> QED BY <1>2, <2>4, <2>5 DEF Real
<1>6. wire' = wire \o g
  BY <1>1
<1> HIDE DEF g, f
<1>7. /\ wire' \in Seq(Cells) /\ Len(wire') = Len(wire) + Len(g)
      /\ \A i \in 1..Len(wire) + Len(g) :
           wire'[i] = IF i <= Len(wire) THEN wire[i] ELSE g[i - Len(wire)]
  BY <1>2, <1>5, <1>6, ConcatProperties
<1>8. wire' # <<>> /\ 1 \in 1..Len(wire')
  BY <1>2, <1>5, <1>7, EmptySeq
<1>9. \A i \in 1..Len(wire) : i \in 1..Len(wire') /\ wire'[i] = wire[i]
  BY <1>2, <1>5, <1>7
<1>10. \A i \in 1..Len(wire') : i \in 1..Len(wire) \/ wire'[i][1] = f
  <2> SUFFICES ASSUME NEW i \in 1..Len(wire'), i > Len(wire) PROVE wire'[i][1] = f
    BY <1>2, <1>5, <1>7
  <2>1. i - Len(wire) \in 1..Len(g)
    BY <1>2, <1>5, <1>7
  <2>2. wire'[i] = g[i - Len(wire)]
    BY <1>2, <1>7
  <2> QED BY <1>5, <2>1, <2>2
<1>11. Len(wire) + 1 \in 1..Len(wire') /\ wire'[Len(wire) + 1] = <<f, 1>>
  <2>1. Len(wire) + 1 \in 1..Len(wire) + Len(g) /\ ~(Len(wire) + 1 <= Len(wire)) /\ 1 \in 1..Len(g)
        /\ (Len(wire) + 1) - Len(wire) = 1
    BY <1>2, <1>5
  <2> QED BY <1>5, <1>7, <2>1
<1>12. wire'[1] = IF wire # <<>> THEN wire[1] ELSE <<f, 1>>
  <2>1. CASE wire # <<>>
    BY <1>2, <1>9, <2>1
  <2>2. CASE wire = <<>>
    <3>1. Len(wire) + 1 = 1
      BY <2>2, EmptySeq
    <3> QED BY <1>11, <2>2, <3>1
  <2> QED BY <2>1, <2>2
<1>13. \A h : h \in FramesOf(wire') <=> h \in FramesOf(wire) \/ h = f
  <2>1. \A i \in 1..Len(wire) : Real(wire[i]) /\ Real(wire'[i])
    BY <1>2, <1>9 DEF NoPads
  <2>2. Real(wire'[Len(wire) + 1]) /\ wire'[Len(wire) + 1][1] = f
    BY <1>11 DEF Real
  <2>3. f \in FramesOf(wire')
    BY <1>7, <1>11, <2>2, FrameIn
  <2>4. ASSUME NEW h, h \in FramesOf(wire') PROVE h \in FramesOf(wire) \/ h = f
    <3>1. PICK i \in 1..Len(wire') : h = wire'[i][1]
      BY <1>7, <2>4, FrameIn
    <3>2. CASE i \in 1..Len(wire)
      <4>1. Real(wire[i]) /\ h = wire[i][1]
        BY <1>9, <2>1, <3>1, <3>2
      <4> QED BY <1>2, <3>2, <4>1, FrameIn
    <3> QED BY <1>10, <3>1, <3>2
  <2>5. ASSUME NEW h, h \in FramesOf(wire) PROVE h \in FramesOf(wire')
    <3>1. PICK i \in 1..Len(wire) : h = wire[i][1]
      BY <1>2, <2>5, FrameIn
    <3>2. i \in 1..Len(wire') /\ Real(wire'[i]) /\ h = wire'[i][1]
      BY <1>9, <2>1, <3>1
    <3> QED BY <1>7, <3>2, FrameIn
  <2> QED BY <2>3, <2>4, <2>5
<1>14. FramesOf(wire') = wire'[1][1]..f /\ LastRead(wire', f) = LastRead(wire, Len(sizes))
  <2>1. CASE wire # <<>>
    <3>1. FramesOf(wire) = wire[1][1]..Len(sizes) /\ wire'[1] = wire[1]
      BY <1>12, <2>1 DEF Contiguous
    <3>2. 1 \in 1..Len(wire) /\ wire[1] \in Cells /\ Real(wire[1])
      BY <1>2, <2>1, ElementOfSeq DEF NoPads
    <3>3. wire[1][1] \in FramesOf(wire) /\ wire[1][1] \in Nat
      BY <1>2, <3>2, FrameIn, CellIsPair
    <3>4. wire[1][1] <= Len(sizes)
      BY <1>2, <3>1, <3>3
    <3>5. \A h : h \in wire[1][1]..f <=> h \in wire[1][1]..Len(sizes) \/ h = f
      BY <1>2, <3>3, <3>4 DEF f
    <3>6. FramesOf(wire') = wire'[1][1]..f
      BY <1>13, <3>1, <3>5
    <3> QED BY <1>8, <2>1, <3>1, <3>6 DEF LastRead
  <2>2. CASE wire = <<>>
    <3>1. \A h : h \notin FramesOf(wire)
      <4>1. \A h : h \in FramesOf(wire) => \E k \in 1..Len(wire) : Real(wire[k])
        BY <1>2, FrameIn
      <4> QED BY <2>2, <4>1, EmptySeq
    <3>2. \A h : h \in f..f <=> h = f
      BY <1>2
    <3>3. wire'[1] = <<f, 1>>
      BY <1>12, <2>2
    <3>4. FramesOf(wire') = wire'[1][1]..f
      BY <1>13, <3>1, <3>2, <3>3
    <3>5. f - 1 = Len(sizes)
      BY <1>2 DEF f
    <3> QED BY <1>8, <2>2, <3>3, <3>4, <3>5 DEF LastRead
  <2> QED BY <2>1, <2>2
<1>15. readable # <<>> =>
         Real(readable[1]) /\ FramesOf(readable) = readable[1][1]..LastRead(wire, Len(sizes))
  BY DEF Contiguous
<1>16. Contiguous'
  BY <1>3, <1>4, <1>14, <1>15 DEF Contiguous, FramesOf, Real, LastRead
<1> QED BY <1>3, <1>4, <1>8, <1>12, <1>16 DEF f

LEMMA ContiguousStep ==
  ASSUME TypeOK, Receiving, Contiguous, [Next]_vars
  PROVE  Contiguous'
<1>1. OnTheWire
  BY DEF Receiving
<1>2. CASE ReaderSends
  BY <1>1, <1>2, SendsContiguous
<1>3. CASE Call \/ BadHeader \/ ReadTimeout \/ UNCHANGED vars
  <2>1. readable' = readable /\ UNCHANGED <<wire, sizes>>
    BY <1>3 DEF Call, BadHeader, ReadTimeout, vars, readable, Failures
  <2> QED BY <2>1 DEF Contiguous, FramesOf, LastRead, Real
<1>4. CASE Return
  BY <1>4, ReturnFrames
<1>5. CASE Read
  <2>1. state = "receiving" /\ UNCHANGED sizes
    BY <1>5 DEF Read
  <2>2. PICK chunk \in Chunks :
          /\ Padded(chunk, ReadCount(chunk))
          /\ wire' = From(wire, ReadCount(chunk) + 1)
          /\ Fits(chunk) => buffer' = buffer \o chunk /\ UNCHANGED <<state, lost>>
          /\ ~Fits(chunk) => state' = "invalid_usb_read_size"
    BY <1>5, Zenon DEF Read, ReadCount
  <2>3. CASE Fits(chunk)
    <3>1. chunk # <<>>
      BY <2>3 DEF Fits
    <3> QED BY <1>1, <2>1, <2>2, <2>3, <3>1, FitsContiguous
  <2>4. CASE ~Fits(chunk)
    <3>1. readable' = <<>>
      BY <2>2, <2>4 DEF readable
    <3>2. ReadCount(chunk) \in 0..Len(wire)
      BY ChunkIsCut
    <3> QED BY <1>1, <2>1, <2>2, <3>1, <3>2, DropContiguous
  <2> QED BY <2>3, <2>4
<1>6. CASE Discard
  <2>1. readable' = <<>> /\ UNCHANGED sizes
    BY <1>6 DEF Discard, readable
  <2>2. PICK n \in 0..Len(wire) : wire' = From(wire, n + 1)
    <3>1. wire' = wire \/ \E n \in 1..Len(wire) : wire' = From(wire, n + 1)
      BY <1>6 DEF Discard
    <3>2. From(wire, 0 + 1) = wire
      BY WireCells, SubSeqFull DEF From
    <3> QED BY <3>1, <3>2, WireCells
  <2> QED BY <1>1, <2>1, <2>2, DropContiguous
<1> QED BY <1>2, <1>3, <1>4, <1>5, <1>6 DEF Next

\* ReaderLink's state, from the first byte c on its way and the last frame n.
LinkFrame(c, j) == IF j = 1 /\ c[2] # 1 THEN BadFrame ELSE <<"frame", c[1] + j - 1>>
LinkFrames(c, n) == [j \in 1..n - c[1] + 1 |-> LinkFrame(c, j)]
LastFrame == Len(sizes)
ReadUpTo == LastRead(wire, LastFrame)
WholeUpTo == LastWhole(wire, LastFrame)

\* Where reading stands: the wire goes on with the rest of a frame, or the next.
Standing ==
  /\ LastFrame \in Nat /\ ReadUpTo \in Nat /\ WholeUpTo \in Nat
  /\ WholeUpTo \in {ReadUpTo, ReadUpTo - 1} /\ ReadUpTo <= LastFrame
  /\ wire # <<>> => wire[1][1] \in 1..LastFrame /\ WholeUpTo = wire[1][1] - 1
                    /\ (wire[1][2] = 1 => ReadUpTo = WholeUpTo)
                    /\ (wire[1][2] # 1 => ReadUpTo = WholeUpTo + 1)
  /\ wire = <<>> => WholeUpTo = LastFrame /\ ReadUpTo = LastFrame

View ==
  /\ Standing
  /\ readable = <<>> /\ wire = <<>> => linkPipe = <<>>
  /\ readable # <<>> \/ wire # <<>> => first[1] \in 1..LastFrame /\ linkPipe = LinkFrames(first, LastFrame)
  /\ linkSplit \in BOOLEAN
  /\ readable = <<>> => linkGot = 0 /\ ~linkSplit
  /\ readable # <<>> =>
       /\ first[1] \in 1..ReadUpTo
       /\ Len(readable) < Header => linkGot = 0 /\ linkSplit
       /\ Len(readable) >= Header =>
            linkGot = WholeUpTo - first[1] + 1 /\ (linkSplit <=> WholeUpTo < ReadUpTo)
       /\ Len(readable) < Header /\ first[2] = 1 => WholeUpTo = first[1] - 1 /\ ReadUpTo = first[1]

LEMMA UpTo == ASSUME TypeOK, Contiguous PROVE Standing
<1> USE DEF Standing
<1>1. LastFrame \in Nat /\ wire \in Seq(Cells) /\ (wire # <<>> => Len(wire) > 0) /\ Len(wire) \in Nat /\ NoPads(wire)
  BY WireCells DEF LastFrame
<1>2. CASE wire = <<>>
  BY <1>1, <1>2 DEF ReadUpTo, WholeUpTo, LastRead, LastWhole
<1>3. CASE wire # <<>>
  <2>1. 1 \in 1..Len(wire) /\ Real(wire[1])
    BY <1>1, <1>3 DEF NoPads
  <2>2. wire[1][1] \in FramesOf(wire) /\ wire[1][1] \in Nat /\ wire[1][1] > 0
    BY <1>1, <2>1, FrameIn
  <2>3. wire[1][1] \in 1..LastFrame
    BY <1>1, <1>3, <2>2 DEF Contiguous, LastFrame
  <2> QED BY <1>1, <1>3, <2>3 DEF ReadUpTo, WholeUpTo, LastRead, LastWhole
<1> QED BY <1>2, <1>3

LEMMA SizeOfRange ==
  ASSUME NEW a \in Nat, NEW b \in Nat, a <= b + 1
  PROVE  Cardinality(a..b) = b - a + 1
BY FS_Interval

LEMMA ViewHolds ==
  ASSUME TypeOK, Receiving, Contiguous
  PROVE  View
<1> DEFINE e == ReadUpTo
           u == WholeUpTo
           l == LastFrame
           r == readable[1][1]
<1>1. /\ l \in Nat /\ e \in Nat /\ u \in Nat /\ u \in {e, e - 1} /\ e <= l
      /\ wire # <<>> => wire[1][1] \in 1..l /\ u = wire[1][1] - 1
                        /\ (wire[1][2] = 1 => e = u) /\ (wire[1][2] # 1 => e = u + 1)
      /\ wire = <<>> => u = l /\ e = l
  BY UpTo DEF Standing
<1>2. readable \in Seq(Cells) /\ wire \in Seq(Cells)
  BY WireCells, EmptySeq DEF readable
<1>3. /\ wire # <<>> => FramesOf(wire) = wire[1][1]..l
      /\ readable # <<>> => Real(readable[1]) /\ FramesOf(readable) = r..e
  BY DEF Contiguous, LastFrame, ReadUpTo
<1>4. readable # <<>> => r \in FramesOf(readable) /\ r \in Nat /\ r > 0
  <2> SUFFICES ASSUME readable # <<>> PROVE r \in FramesOf(readable) /\ r \in Nat /\ r > 0
    OBVIOUS
  <2>1. 1 \in 1..Len(readable)
    BY <1>2, EmptySeq
  <2> QED BY <1>2, <1>3, <2>1, FrameIn
<1>5. FramesOf(<<>>) = {}
  <2>1. <<>> \in Seq(Cells) /\ Len(<<>>) = 0
    BY EmptySeq
  <2>2. \A f : f \in FramesOf(<<>>) => \E k \in 1..0 : TRUE
    BY <2>1, FrameIn
  <2> QED BY <2>2
<1>6. IsFiniteSet({}) /\ Cardinality({}) = 0
  BY FS_EmptySet
<1>7. readable # <<>> => first = readable[1]
  BY DEF first
<1>8. readable = <<>> => first = wire[1]
  BY DEF first
<1> HIDE DEF e, u, l, r
<1>9. readable # <<>> => r \in 1..e
  BY <1>1, <1>3, <1>4
<1>10. readable = <<>> /\ wire = <<>> => linkPipe = <<>>
  <2> SUFFICES ASSUME readable = <<>>, wire = <<>> PROVE linkPipe = <<>>
    OBVIOUS
  <2>1. Coming = {}
    BY <1>5 DEF Coming
  <2> QED BY <1>6, <2>1 DEF linkPipe
<1>11. readable # <<>> \/ wire # <<>> => first[1] \in 1..l /\ linkPipe = LinkFrames(first, l)
  <2> SUFFICES ASSUME readable # <<>> \/ wire # <<>>
               PROVE  first[1] \in 1..l /\ linkPipe = LinkFrames(first, l)
    OBVIOUS
  <2>1. first[1] \in 1..l /\ Coming = first[1]..l
    <3>1. CASE readable = <<>>
      BY <1>1, <1>3, <1>5, <1>8, <3>1 DEF Coming
    <3>2. CASE readable # <<>> /\ wire = <<>>
      BY <1>1, <1>3, <1>5, <1>7, <1>9, <3>2 DEF Coming, r
    <3>3. CASE readable # <<>> /\ wire # <<>>
      <4>1. Coming = (r..e) \cup (wire[1][1]..l)
        BY <1>3, <3>3 DEF Coming
      <4>2. r \in 1..l /\ (r..e) \cup (wire[1][1]..l) = r..l
        BY <1>1, <1>9, <3>3
      <4> QED BY <1>7, <3>3, <4>1, <4>2 DEF r
    <3> QED BY <3>1, <3>2, <3>3
  <2>2. Cardinality(Coming) = l - first[1] + 1
    BY <1>1, <2>1, SizeOfRange
  <2> QED BY <2>1, <2>2 DEF linkPipe, LinkFrames, LinkFrame
<1>12. readable = <<>> => linkGot = 0 /\ ~linkSplit
  <2> SUFFICES ASSUME readable = <<>> PROVE linkGot = 0 /\ ~linkSplit
    OBVIOUS
  <2>1. Len(readable) < Header
    BY EmptySeq, Numbers
  <2> QED BY <1>5, <1>6, <2>1 DEF linkGot, linkSplit
<1>13. readable # <<>> => Cardinality(FramesOf(readable)) = e - r + 1
  BY <1>1, <1>3, <1>9, SizeOfRange
<1>14. readable # <<>> => Cardinality(Complete) = u - r + 1
  <2> SUFFICES ASSUME readable # <<>> PROVE Cardinality(Complete) = u - r + 1
    OBVIOUS
  <2>1. Complete = r..u
    <3>1. CASE wire = <<>>
      BY <1>1, <1>3, <1>5, <3>1 DEF Complete
    <3>2. CASE wire # <<>>
      <4>1. Complete = (r..e) \ (wire[1][1]..l)
        BY <1>3, <3>2 DEF Complete
      <4>2. (r..e) \ (wire[1][1]..l) = r..u
        BY <1>1, <1>9, <3>2
      <4> QED BY <4>1, <4>2
    <3> QED BY <3>1, <3>2
  <2>2. r \in Nat /\ u \in Nat /\ r <= u + 1
    BY <1>1, <1>9
  <2> QED BY <2>1, <2>2, SizeOfRange
<1>15. readable # <<>> /\ Len(readable) < Header => linkGot = 0 /\ linkSplit
  BY <1>1, <1>9, <1>13 DEF linkGot, linkSplit
<1>16. readable # <<>> /\ Len(readable) >= Header =>
         linkGot = u - first[1] + 1 /\ (linkSplit <=> u < e)
  <2> SUFFICES ASSUME readable # <<>>, Len(readable) >= Header
               PROVE  linkGot = u - r + 1 /\ (linkSplit <=> u < e)
    BY <1>7 DEF r
  <2>1. ~(Len(readable) < Header)
    BY <1>2, LenProperties, Numbers
  <2>2. linkGot = u - r + 1
    BY <1>14, <2>1 DEF linkGot
  <2> QED BY <1>1, <1>9, <1>13, <2>2 DEF linkSplit
<1>17. readable # <<>> /\ Len(readable) < Header /\ first[2] = 1 => u = first[1] - 1 /\ e = first[1]
  <2> SUFFICES ASSUME readable # <<>>, Len(readable) < Header, readable[1][2] = 1
               PROVE  u = r - 1 /\ e = r
    BY <1>7 DEF r
  <2>1. readable = buffer /\ state # "invalid_usb_read_size"
    BY DEF readable
  <2>2. InStep /\ ~HeaderThere /\ InTheBuffer
    BY <2>1, WireCells, Numbers DEF InStep, HeaderThere, Receiving
  <2>3. MoreNeeded
    BY <2>2 DEF MoreNeeded
  <2>4. wire # <<>> /\ wire[1][1] = r /\ wire[1][2] # 1
    BY <2>1, <2>2, <2>3, GoesOnWire DEF r
  <2> QED BY <1>1, <1>9, <2>4
<1>18. linkSplit \in BOOLEAN
  BY DEF linkSplit
<1> QED BY <1>7, <1>9, <1>10, <1>11, <1>12, <1>15, <1>16, <1>17, <1>18, UpTo DEF View, e, u, l, r

LinkItem == {BadFrame} \cup ({"frame"} \X Nat)

LEMMA LinkFramesAre ==
  ASSUME NEW n \in Nat, NEW c, c[1] \in 1..n + 1
  PROVE  /\ LinkFrames(c, n) \in Seq(LinkItem) /\ Len(LinkFrames(c, n)) = n - c[1] + 1
         /\ n - c[1] + 1 \in Nat
         /\ \A j \in 1..n - c[1] + 1 : LinkFrames(c, n)[j] = LinkFrame(c, j)
<1> DEFINE m == n - c[1] + 1
<1>1. m \in Nat
  OBVIOUS
<1>2. \A j \in 1..m : LinkFrame(c, j) \in LinkItem
  BY DEF LinkFrame, LinkItem
<1>3. LinkFrames(c, n) = [j \in 1..m |-> LinkFrame(c, j)]
  BY DEF LinkFrames
<1> HIDE DEF m
<1>4. LinkFrames(c, n) \in Seq(LinkItem)
  BY <1>1, <1>2, <1>3, IsASeq
<1>5. Len(LinkFrames(c, n)) = m
  BY <1>1, <1>3
<1> QED BY <1>1, <1>3, <1>4, <1>5 DEF m

\* The head of the first frame is lost.
Behead(s) == [s EXCEPT ![1] = BadFrame]

LEMMA BeheadIs ==
  ASSUME NEW s \in Seq(LinkItem), NEW t \in Seq(LinkItem), Len(t) = Len(s), Len(t) > 0, t[1] = BadFrame,
         \A j \in 1..Len(t) : j > 1 => t[j] = s[j]
  PROVE  Behead(s) = t
<1>1. DOMAIN s = 1..Len(t) /\ DOMAIN t = 1..Len(t) /\ Len(t) \in Nat
  BY LenProperties
<1>2. s = [j \in 1..Len(t) |-> s[j]] /\ t = [j \in 1..Len(t) |-> t[j]]
  BY <1>1
<1>3. \A j \in 1..Len(t) : j = 1 \/ j > 1
  BY <1>1
<1> QED BY <1>1, <1>2, <1>3 DEF Behead

\* The link without its first k frames, the next of which is beheaded or not.
LEMMA RestFrames ==
  ASSUME NEW n \in Nat, NEW c, c[1] \in 1..n, NEW k \in 0..n - c[1] + 1,
         NEW d, d[1] = c[1] + k,
         NEW rest, rest = SubSeq(LinkFrames(c, n), k + 1, Len(LinkFrames(c, n)))
  PROVE  /\ d[2] = 1 /\ (k > 0 \/ c[2] = 1) => rest = LinkFrames(d, n)
         /\ d[2] # 1 /\ d[1] <= n => Behead(rest) = LinkFrames(d, n)
<1> DEFINE p == LinkFrames(c, n)
           m == n - d[1] + 1
<1>1. /\ p \in Seq(LinkItem) /\ Len(p) = n - c[1] + 1 /\ Len(p) \in Nat
      /\ \A j \in 1..Len(p) : p[j] = LinkFrame(c, j)
  <2>1. c[1] \in 1..n + 1
    OBVIOUS
  <2> QED BY <2>1, LinkFramesAre
<1>2. /\ LinkFrames(d, n) \in Seq(LinkItem) /\ Len(LinkFrames(d, n)) = m /\ m \in Nat
      /\ \A j \in 1..m : LinkFrames(d, n)[j] = LinkFrame(d, j)
  <2>1. d[1] \in 1..n + 1
    OBVIOUS
  <2> QED BY <2>1, LinkFramesAre
<1>3. m = Len(p) - k /\ Len(p) - (k + 1) + 1 = m
  BY <1>1
<1>4. rest = From(p, k + 1) /\ k + 1 \in 1..Len(p) + 1
  BY <1>1 DEF From
<1> HIDE DEF p, m
<1>5. rest \in Seq(LinkItem) /\ Len(rest) = m /\ \A j \in 1..m : rest[j] = p[(k + 1) + j - 1]
  <2> DEFINE a == k + 1
             r == From(p, a)
  <2>1. a \in 1..Len(p) + 1 /\ p \in Seq(LinkItem)
    BY <1>1, <1>4
  <2> HIDE DEF a
  <2>2. r \in Seq(LinkItem) /\ Len(r) = Len(p) - a + 1 /\ \A j \in 1..Len(r) : r[j] = p[a + j - 1]
    BY <2>1, RestOf
  <2>3. r = rest /\ Len(r) = m
    BY <1>3, <1>4, <2>2 DEF a
  <2> HIDE DEF r
  <2> QED BY <2>2, <2>3 DEF a
<1>6. \A j \in 1..m : rest[j] = LinkFrame(c, k + j)
  <2> SUFFICES ASSUME NEW j \in 1..m PROVE rest[j] = LinkFrame(c, k + j)
    OBVIOUS
  <2>1. (k + 1) + j - 1 = k + j /\ k + j \in 1..Len(p)
    BY <1>1, <1>2, <1>3
  <2>2. rest[j] = p[k + j]
    BY <1>5, <2>1
  <2> QED BY <1>1, <2>1, <2>2
<1>7. \A j \in 1..m : j > 1 => rest[j] = LinkFrame(d, j)
  <2> SUFFICES ASSUME NEW j \in 1..m, j > 1 PROVE LinkFrame(c, k + j) = LinkFrame(d, j)
    BY <1>6
  <2>1. k + j # 1 /\ j # 1 /\ c[1] + (k + j) - 1 = d[1] + j - 1
    <3>1. j \in Nat /\ j > 1 /\ k \in Nat /\ c[1] \in Nat
      BY <1>2
    <3> QED BY <3>1
  <2> QED BY <2>1 DEF LinkFrame
<1>8. ASSUME d[2] = 1, k > 0 \/ c[2] = 1 PROVE rest = LinkFrames(d, n)
  <2>1. 1 \in 1..m => rest[1] = LinkFrame(d, 1)
    <3>1. k + 1 = 1 => c[2] = 1
      BY <1>8
    <3>2. c[1] + (k + 1) - 1 = d[1] + 1 - 1
      OBVIOUS
    <3> QED BY <1>6, <1>8, <3>1, <3>2 DEF LinkFrame
  <2>2. \A j \in 1..m : rest[j] = LinkFrame(d, j)
    <3> SUFFICES ASSUME NEW j \in 1..m PROVE rest[j] = LinkFrame(d, j)
      OBVIOUS
    <3>1. j = 1 \/ j > 1
      BY <1>2
    <3> QED BY <1>7, <2>1, <3>1
  <2> QED BY <1>2, <1>5, <2>2, SeqEqual
<1>9. ASSUME d[2] # 1, d[1] <= n PROVE Behead(rest) = LinkFrames(d, n)
  <2> DEFINE t == LinkFrames(d, n)
  <2>1. t \in Seq(LinkItem) /\ Len(t) = m /\ \A j \in 1..m : t[j] = LinkFrame(d, j)
    BY <1>2
  <2> HIDE DEF t
  <2>2. m > 0 /\ 1 \in 1..m
    BY <1>2, <1>9 DEF m
  <2>3. t[1] = BadFrame
    BY <1>9, <2>1, <2>2 DEF LinkFrame
  <2>4. \A j \in 1..Len(t) : j > 1 => t[j] = rest[j]
    BY <1>7, <2>1
  <2>5. Behead(rest) = t
    BY <1>5, <2>1, <2>2, <2>3, <2>4, BeheadIs
  <2> QED BY <2>5 DEF t
<1> QED BY <1>8, <1>9

-----------------------------------------------------------------------------
(* Each step, as ReaderLink sees it. *)

LinkSent == UNCHANGED <<linkGot, linkSplit>> /\ linkPipe' = Append(linkPipe, <<"frame", Len(sizes) + 1>>)
LinkStep == \/ Link!Transfer \/ (Link!Ready /\ Link!Consume) \/ Link!Discard \/ Link!LostTransfer
            \/ LinkSent

LEMMA QuietLink ==
  ASSUME readable' = readable, UNCHANGED <<sizes, wire>>
  PROVE  UNCHANGED <<linkPipe, linkGot, linkSplit>>
BY DEF linkPipe, linkGot, linkSplit, Coming, Complete, FramesOf, first

\* Nothing is whole in the buffer as long as receive() reads on.
LEMMA NotReady ==
  ASSUME TypeOK, Receiving, View, MoreNeeded, state = "receiving"
  PROVE  linkGot = 0
<1>1. readable = buffer
  BY DEF readable
<1>2. CASE buffer = <<>> \/ Len(buffer) < Header
  BY <1>1, <1>2 DEF View
<1>3. CASE buffer # <<>> /\ ~(Len(buffer) < Header)
  <2>1. HeaderThere /\ HeaderOk
    BY <1>3, WireCells, Numbers DEF HeaderThere, MoreNeeded
  <2>2. InStep /\ InTheBuffer
    BY <2>1, GoodHeader DEF Receiving
  <2>3. wire # <<>> /\ wire[1][1] = buffer[1][1]
    BY <2>2, GoesOnWire
  <2>4. first = buffer[1] /\ first[1] \in Nat
    BY <1>1, <1>3 DEF first, View, Standing
  <2>5. WholeUpTo = first[1] - 1
    BY <2>3, <2>4 DEF View, Standing
  <2>6. linkGot = WholeUpTo - first[1] + 1
    BY <1>1, <1>3, <2>1 DEF View, HeaderThere
  <2> QED BY <2>4, <2>5, <2>6
<1> QED BY <1>2, <1>3

LEMMA SendsLink ==
  ASSUME TypeOK, Receiving, Contiguous, View, View', ReaderSends
  PROVE  LinkSent
<1> DEFINE n == Len(sizes)
<1>1. /\ readable' = readable /\ Len(sizes') = n + 1 /\ wire' # <<>>
      /\ wire'[1] = IF wire # <<>> THEN wire[1] ELSE <<n + 1, 1>>
      /\ n \in Nat
  BY SendsContiguous, WireCells DEF Receiving
<1>2. LastFrame = n /\ LastFrame' = n + 1
  BY <1>1 DEF LastFrame
<1>3. first' = IF readable # <<>> \/ wire # <<>> THEN first ELSE <<n + 1, 1>>
  BY <1>1 DEF first
<1>4. linkPipe' = LinkFrames(first', n + 1) /\ first'[1] \in 1..n + 1
  BY <1>1, <1>2 DEF View, LinkFrames, LinkFrame, BadFrame
<1> HIDE DEF n
<1>5. linkPipe' = Append(linkPipe, <<"frame", n + 1>>)
  <2>1. CASE readable = <<>> /\ wire = <<>>
    <3>1. first'[1] = n + 1 /\ first'[2] = 1 /\ linkPipe = <<>>
      BY <1>3, <2>1 DEF View
    <3>2. (n + 1) - (n + 1) + 1 = 1 /\ (n + 1) + 1 - 1 = n + 1
      BY <1>1
    <3>3. linkPipe' = [j \in 1..1 |-> <<"frame", (n + 1) + j - 1>>]
      BY <1>4, <3>1, <3>2 DEF LinkFrames, LinkFrame
    <3>4. linkPipe' = <<<<"frame", n + 1>>>>
      BY <3>2, <3>3
    <3> QED BY <3>1, <3>4
  <2>2. CASE readable # <<>> \/ wire # <<>>
    <3> DEFINE c == first
    <3>1. first' = c /\ linkPipe = LinkFrames(c, n) /\ c[1] \in 1..n
      BY <1>2, <1>3, <2>2 DEF View
    <3>2. linkPipe' = LinkFrames(c, n + 1)
      BY <1>4, <3>1
    <3> HIDE DEF c
    <3> DEFINE m == n - c[1] + 1
    <3>3. m \in Nat /\ (n + 1) - c[1] + 1 = m + 1 /\ c[1] \in 1..n + 1 /\ c[1] \in 1..(n + 1) + 1 /\ n + 1 \in Nat
      BY <1>1, <3>1
    <3>4. /\ linkPipe \in Seq(LinkItem) /\ Len(linkPipe) = m
          /\ \A j \in 1..m : linkPipe[j] = LinkFrame(c, j)
      BY <1>1, <3>1, <3>3, LinkFramesAre
    <3>5. /\ linkPipe' \in Seq(LinkItem) /\ Len(linkPipe') = m + 1
          /\ \A j \in 1..m + 1 : linkPipe'[j] = LinkFrame(c, j)
      BY <3>2, <3>3, LinkFramesAre
    <3> DEFINE x == <<"frame", n + 1>>
    <3>6. x \in LinkItem
      BY <1>1 DEF LinkItem
    <3>7. /\ Append(linkPipe, x) \in Seq(LinkItem) /\ Len(Append(linkPipe, x)) = m + 1
          /\ \A j \in 1..m : Append(linkPipe, x)[j] = linkPipe[j]
          /\ Append(linkPipe, x)[m + 1] = x
      BY <3>4, <3>6, AppendProperties
    <3>8. LinkFrame(c, m + 1) = x
      <4>1. m + 1 # 1 /\ c[1] + (m + 1) - 1 = n + 1
        BY <1>1, <3>1
      <4> QED BY <4>1 DEF LinkFrame
    <3> HIDE DEF m, x
    <3>9. \A j \in 1..m + 1 : linkPipe'[j] = Append(linkPipe, x)[j]
      <4> SUFFICES ASSUME NEW j \in 1..m + 1 PROVE linkPipe'[j] = Append(linkPipe, x)[j]
        OBVIOUS
      <4>1. CASE j = m + 1
        BY <3>5, <3>7, <3>8, <4>1
      <4>2. CASE j # m + 1
        <5>1. j \in 1..m
          BY <3>3, <4>2
        <5> QED BY <3>4, <3>5, <3>7, <5>1
      <4> QED BY <4>1, <4>2
    <3>10. linkPipe' = Append(linkPipe, x)
      BY <3>5, <3>7, <3>9, SeqEqual
    <3> QED BY <3>10 DEF x
  <2> QED BY <2>1, <2>2
<1>6. ReadUpTo' = ReadUpTo /\ WholeUpTo' = WholeUpTo
  BY <1>1, <1>2 DEF ReadUpTo, WholeUpTo, LastRead, LastWhole
<1>7. UNCHANGED <<linkGot, linkSplit>>
  <2>1. CASE readable = <<>>
    BY <1>1, <2>1 DEF View
  <2>2. CASE readable # <<>>
    <3>1. first' = first
      BY <1>3, <2>2
    <3>2. Len(readable) < Header \/ Len(readable) >= Header
      <4>1. readable \in Seq(Cells)
        BY WireCells, EmptySeq DEF readable
      <4> QED BY <4>1, LenProperties, Numbers
    <3> QED BY <1>1, <1>6, <2>2, <3>1, <3>2 DEF View
  <2> QED BY <2>1, <2>2
<1> QED BY <1>5, <1>7 DEF LinkSent, n

LEMMA ReturnLink ==
  ASSUME TypeOK, Receiving, Contiguous, View, View', Return
  PROVE  Link!Ready /\ Link!Consume
<1> DEFINE f == buffer[1][1]
           l == LastFrame
<1>1. /\ readable = buffer /\ buffer # <<>> /\ Len(buffer) >= Header /\ InStep
      /\ readable' = buffer' /\ UNCHANGED <<sizes, wire>>
      /\ \/ /\ buffer' = <<>> /\ ReadUpTo = f
            /\ wire # <<>> => Starts(wire[1], f + 1)
         \/ /\ buffer' # <<>> /\ Starts(buffer'[1], f + 1)
            /\ f + 1 <= ReadUpTo
  BY ReturnFrames DEF ReadUpTo, LastFrame
<1>2. first = buffer[1] /\ first[2] = 1
  BY <1>1 DEF first, InStep
<1>3. /\ l \in Nat /\ f \in 1..l /\ linkPipe = LinkFrames(buffer[1], l)
      /\ linkGot = WholeUpTo - f + 1 /\ (linkSplit <=> WholeUpTo < ReadUpTo) /\ linkSplit \in BOOLEAN
      /\ ReadUpTo \in Nat /\ WholeUpTo \in {ReadUpTo, ReadUpTo - 1} /\ ReadUpTo <= l
  BY <1>1, <1>2 DEF View, Standing
<1>4. UNCHANGED <<LastFrame, ReadUpTo, WholeUpTo>>
  BY <1>1 DEF LastFrame, ReadUpTo, WholeUpTo
<1> HIDE DEF f, l
<1>5. linkGot > 0 /\ linkGot' = linkGot - 1 /\ linkSplit' = linkSplit
  <2>1. CASE buffer' = <<>>
    <3>1. ReadUpTo = f /\ WholeUpTo = f
      <4>1. ReadUpTo = f
        BY <1>1, <1>3, <2>1 DEF Starts
      <4>2. CASE wire = <<>>
        BY <4>1, <4>2 DEF View, Standing
      <4>3. CASE wire # <<>>
        <5>1. wire[1][2] = 1
          BY <1>1, <1>3, <2>1, <4>3 DEF Starts
        <5> QED BY <4>1, <4>3, <5>1 DEF View, Standing
      <4> QED BY <4>1, <4>2, <4>3
    <3>2. linkGot' = 0 /\ ~linkSplit'
      BY <1>1, <2>1 DEF View
    <3>3. linkSplit' \in BOOLEAN
      BY DEF View
    <3> QED BY <1>3, <3>1, <3>2, <3>3
  <2>2. CASE buffer' # <<>>
    <3>1. Starts(buffer'[1], f + 1) /\ f + 1 <= ReadUpTo /\ first' = buffer'[1] /\ readable' # <<>>
      BY <1>1, <2>2 DEF first
    <3>2. first'[1] = f + 1 /\ first'[2] = 1
      BY <3>1 DEF Starts
    <3>3. /\ linkSplit' \in BOOLEAN
          /\ Len(readable') < Header => linkGot' = 0 /\ linkSplit' /\ WholeUpTo = f /\ ReadUpTo = f + 1
          /\ Len(readable') >= Header => linkGot' = WholeUpTo - (f + 1) + 1 /\ (linkSplit' <=> WholeUpTo < ReadUpTo)
      <4>1. Len(readable') < Header => WholeUpTo' = (f + 1) - 1 /\ ReadUpTo' = f + 1
        BY <3>1, <3>2 DEF View
      <4>2. WholeUpTo' = WholeUpTo /\ ReadUpTo' = ReadUpTo
        BY <1>4
      <4>3. (f + 1) - 1 = f
        BY <1>3
      <4>4. /\ linkSplit' \in BOOLEAN
            /\ Len(readable') < Header => linkGot' = 0 /\ linkSplit'
            /\ Len(readable') >= Header => linkGot' = WholeUpTo' - first'[1] + 1 /\ (linkSplit' <=> WholeUpTo' < ReadUpTo')
        BY <3>1 DEF View
      <4> QED BY <3>2, <4>1, <4>2, <4>3, <4>4
    <3>4. Len(readable') < Header \/ Len(readable') >= Header
      <4>1. buffer \in Seq(Cells) /\ FrameSize \in Nat /\ FrameSize <= Len(buffer)
        BY <1>1, GoodSize, WireCells DEF Return, FrameThere, Receiving
      <4>2. From(buffer, FrameSize + 1) \in Seq(Cells)
        <5>1. FrameSize + 1 \in 1..Len(buffer) + 1
          BY <4>1, LenProperties
        <5> QED BY <4>1, <5>1, RestOf
      <4>3. buffer' \in Seq(Cells)
        BY <4>2, EmptySeq DEF Return, Kept
      <4> QED BY <1>1, <4>3, LenProperties, Numbers
    <3> QED BY <1>3, <3>1, <3>3, <3>4
  <2> QED BY <2>1, <2>2
<1>6. linkPipe' = Tail(linkPipe)
  <2> DEFINE c == buffer[1]
             d == <<f + 1, 1>>
  <2>1. linkPipe' = LinkFrames(d, l)
    <3>1. CASE buffer' = <<>> /\ wire = <<>>
      <4>1. f = l
        BY <1>1, <1>3, <3>1 DEF View, Standing, l, Starts
      <4>2. linkPipe' = <<>>
        BY <1>1, <3>1 DEF View
      <4>3. LinkFrames(d, l) = <<>>
        <5>1. l + 1 \in 1..l + 1 /\ l - (l + 1) + 1 = 0
          BY <1>3
        <5>2. LinkFrames(d, l) \in Seq(LinkItem) /\ Len(LinkFrames(d, l)) = 0
          BY <1>3, <4>1, <5>1, LinkFramesAre
        <5> QED BY <5>2, EmptySeq
      <4> QED BY <4>2, <4>3
    <3>2. CASE buffer' # <<>> \/ wire # <<>>
      <4>1. /\ readable' # <<>> \/ wire' # <<>>
            /\ first' = IF buffer' # <<>> THEN buffer'[1] ELSE wire[1]
        BY <1>1, <3>2 DEF first
      <4>2. first'[1] = f + 1 /\ first'[2] = 1
        BY <1>1, <3>2, <4>1 DEF Starts
      <4>3. linkPipe' = LinkFrames(first', l)
        <5>1. linkPipe' = LinkFrames(first', LastFrame')
          BY <4>1 DEF View, LinkFrames, LinkFrame, BadFrame
        <5> QED BY <1>4, <5>1 DEF l
      <4>4. LinkFrames(first', l) = LinkFrames(d, l)
        BY <4>2 DEF LinkFrames, LinkFrame
      <4> QED BY <4>3, <4>4
    <3> QED BY <3>1, <3>2
  <2>2. c[1] = f /\ c[2] = 1 /\ d[1] = c[1] + 1 /\ d[2] = 1 /\ c[1] \in 1..l /\ 1 \in 0..l - c[1] + 1
    BY <1>2, <1>3 DEF f
  <2> HIDE DEF d, c
  <2>3. SubSeq(LinkFrames(c, l), 1 + 1, Len(LinkFrames(c, l))) = LinkFrames(d, l)
    <3> DEFINE k == 1
               rest == SubSeq(LinkFrames(c, l), k + 1, Len(LinkFrames(c, l)))
    <3>1. l \in Nat /\ c[1] \in 1..l /\ k \in 0..l - c[1] + 1 /\ d[1] = c[1] + k /\ d[2] = 1 /\ c[2] = 1
      BY <1>3, <2>2
    <3> HIDE DEF k
    <3>2. PICK r : r = rest
      OBVIOUS
    <3>3. r = LinkFrames(d, l)
      BY <3>1, <3>2, RestFrames
    <3> QED BY <3>2, <3>3 DEF k
  <2>4. LinkFrames(c, l) \in Seq(LinkItem) /\ LinkFrames(c, l) # <<>>
    <3>1. c[1] \in 1..l + 1 /\ l - c[1] + 1 > 0
      BY <1>3, <2>2
    <3>2. LinkFrames(c, l) \in Seq(LinkItem) /\ Len(LinkFrames(c, l)) > 0
      BY <1>3, <3>1, LinkFramesAre
    <3> QED BY <3>2, EmptySeq
  <2>5. Tail(LinkFrames(c, l)) = LinkFrames(d, l)
    BY <2>3, <2>4, TailIsSubSeq
  <2>6. linkPipe = LinkFrames(c, l)
    BY <1>3 DEF c
  <2> QED BY <2>1, <2>5, <2>6
<1> QED BY <1>5, <1>6 DEF Link!Ready, Link!Consume

\* What is read of the frames from f on is some of them, or the head of one.
LEMMA SomeRead ==
  ASSUME NEW r \in Nat, NEW w \in {r, r - 1}, NEW l \in Nat, r <= l, NEW f \in 1..r
  PROVE  /\ w - f + 1 \in 0..l - f + 1 /\ (w < r => w - f + 1 < l - f + 1)
         /\ w - f + 1 > 0 \/ w < r
<1>1. w = r \/ w = r - 1
  OBVIOUS
<1> QED BY <1>1

LEMMA TransferIs ==
  ASSUME linkGot = 0, NEW n \in 0..Len(linkPipe), NEW s \in BOOLEAN, s => n < Len(linkPipe),
         n > 0 \/ (s /\ ~linkSplit), linkGot' = n, linkSplit' = s, linkPipe' = linkPipe
  PROVE  Link!Transfer
<1>1. ~Link!Ready
  BY DEF Link!Ready
<1> QED BY <1>1, Zenon DEF Link!Transfer

LEMMA FitsLink ==
  ASSUME TypeOK, Receiving, Contiguous, View, View', MoreNeeded, state = "receiving",
         NEW chunk, chunk \in Chunks, Padded(chunk, ReadCount(chunk)), chunk # <<>>,
         buffer' = buffer \o chunk, wire' = From(wire, ReadCount(chunk) + 1),
         UNCHANGED <<sizes, state>>
  PROVE  Link!Transfer \/ UNCHANGED <<linkPipe, linkGot, linkSplit>>
<1>1. linkGot = 0
  BY NotReady
<1>2. /\ wire # <<>> /\ readable = buffer /\ readable' = buffer' /\ buffer' # <<>> /\ Len(buffer') >= Len(buffer)
      /\ buffer'[1] = IF buffer # <<>> THEN buffer[1] ELSE wire[1]
  BY FitsContiguous DEF Receiving
<1>3. first' = first /\ LastFrame' = LastFrame /\ LastFrame \in Nat
  BY <1>2 DEF first, LastFrame, View, Standing
<1>4. /\ first[1] \in 1..LastFrame /\ linkPipe = LinkFrames(first, LastFrame)
      /\ linkPipe' = LinkFrames(first', LastFrame')
  BY <1>2 DEF View, LinkFrames, LinkFrame, BadFrame
<1>5. linkPipe' = linkPipe
  BY <1>3, <1>4
<1> DEFINE l == LastFrame
<1>6. Len(linkPipe) = l - first[1] + 1
  <2>1. first[1] \in 1..l + 1
    BY <1>3, <1>4
  <2> QED BY <1>3, <1>4, <2>1, LinkFramesAre
<1>7. /\ ReadUpTo' \in Nat /\ WholeUpTo' \in {ReadUpTo', ReadUpTo' - 1} /\ ReadUpTo' <= l
      /\ first[1] \in 1..ReadUpTo' /\ linkSplit' \in BOOLEAN /\ linkSplit \in BOOLEAN
      /\ Len(readable') < Header => linkGot' = 0 /\ linkSplit'
      /\ Len(readable') >= Header => linkGot' = WholeUpTo' - first[1] + 1 /\ (linkSplit' <=> WholeUpTo' < ReadUpTo')
  BY <1>2, <1>3 DEF View, Standing
<1>8. Len(readable') < Header \/ Len(readable') >= Header
  <2>1. chunk \in Seq(Cells) /\ buffer \in Seq(Cells)
    BY ChunkIsCut, WireCells
  <2>2. readable' \in Seq(Cells)
    BY <1>2, <2>1, ConcatProperties
  <2> QED BY <2>2, LenProperties, Numbers
<1>9. CASE Len(readable') < Header
  <2>1. readable = <<>> => ~linkSplit
    BY DEF View
  <2>2. linkGot' = 0 /\ linkSplit'
    BY <1>7, <1>9
  <2>3. CASE linkSplit
    <3>1. linkSplit' = linkSplit
      BY <1>7, <2>2, <2>3
    <3> QED BY <1>1, <1>5, <2>2, <3>1
  <2>4. CASE ~linkSplit
    <3>1. 0 \in 0..Len(linkPipe) /\ 0 < Len(linkPipe)
      BY <1>3, <1>4, <1>6
    <3>2. linkSplit' = TRUE
      BY <1>7, <2>2
    <3> QED BY <1>1, <1>5, <2>2, <2>4, <3>1, <3>2, TransferIs, Zenon
  <2> QED BY <2>3, <2>4
<1>10. CASE Len(readable') >= Header
  <2>1. linkGot' = WholeUpTo' - first[1] + 1 /\ (linkSplit' <=> WholeUpTo' < ReadUpTo')
    BY <1>7, <1>10
  <2>2. linkGot' \in 0..Len(linkPipe) /\ (linkSplit' => linkGot' < Len(linkPipe)) /\ (linkGot' > 0 \/ linkSplit')
    <3>1. /\ WholeUpTo' - first[1] + 1 \in 0..l - first[1] + 1
          /\ WholeUpTo' < ReadUpTo' => WholeUpTo' - first[1] + 1 < l - first[1] + 1
          /\ WholeUpTo' - first[1] + 1 > 0 \/ WholeUpTo' < ReadUpTo'
      BY <1>3, <1>7, SomeRead
    <3> QED BY <1>6, <2>1, <3>1
  <2>3. CASE linkGot' > 0 \/ ~linkSplit
    <3>1. linkGot' > 0 \/ (linkSplit' /\ ~linkSplit)
      BY <2>2, <2>3
    <3> QED BY <1>1, <1>5, <1>7, <2>2, <3>1, TransferIs, Zenon
  <2>4. CASE ~(linkGot' > 0) /\ linkSplit
    <3>0. linkSplit'
      BY <2>2, <2>4
    <3>1. linkGot' = 0 /\ linkSplit' = linkSplit
      <4>1. linkGot' \in Nat
        BY <2>2, LenProperties
      <4>2. linkGot' = 0
        BY <2>4, <4>1
      <4>3. linkSplit' = linkSplit
        BY <1>7, <2>4, <3>0
      <4> QED BY <4>2, <4>3
    <3> QED BY <1>1, <1>5, <3>1
  <2> QED BY <2>3, <2>4
<1> QED BY <1>8, <1>9, <1>10

\* How many frames of the link go with n bytes of the wire and what was read.
Dropped == IF wire' = <<>> THEN Len(linkPipe) ELSE wire'[1][1] - first[1]
Beheaded == wire' # <<>> /\ wire'[1][2] # 1

LEMMA DropLink ==
  ASSUME TypeOK, Receiving, Contiguous, View, View', NEW n \in 0..Len(wire), wire' = From(wire, n + 1),
         readable' = <<>>, UNCHANGED sizes
  PROVE  /\ linkGot' = 0 /\ linkSplit' = FALSE
         /\ Dropped \in 0..Len(linkPipe) /\ Beheaded \in BOOLEAN /\ (Beheaded => Dropped < Len(linkPipe))
         /\ linkPipe' = LET rest == SubSeq(linkPipe, Dropped + 1, Len(linkPipe))
                        IN  IF Beheaded THEN Behead(rest) ELSE rest
<1> DEFINE l == LastFrame
           c == first
           d == wire'[1]
           rest == SubSeq(linkPipe, Dropped + 1, Len(linkPipe))
<1>1. linkGot' = 0 /\ linkSplit' = FALSE
  BY DEF View
<1>2. LastFrame' = l /\ l \in Nat
  BY DEF LastFrame, View, Standing
<1>3. wire \in Seq(Cells) /\ Len(wire) \in Nat /\ OnTheWire
  BY WireCells DEF Receiving
<1>4. linkPipe \in Seq(LinkItem) /\ Len(linkPipe) \in Nat
  <2>1. CASE readable = <<>> /\ wire = <<>>
    <3>1. linkPipe = <<>>
      BY <2>1 DEF View
    <3> QED BY <3>1, EmptySeq
  <2>2. CASE readable # <<>> \/ wire # <<>>
    <3>1. linkPipe = LinkFrames(c, l) /\ c[1] \in 1..l
      BY <2>2 DEF View
    <3>2. c[1] \in 1..l + 1
      BY <1>2, <3>1
    <3> QED BY <1>2, <3>1, <3>2, LinkFramesAre
  <2> QED BY <2>1, <2>2
<1>5. CASE wire' = <<>>
  <2>1. linkPipe' = <<>> /\ Dropped = Len(linkPipe) /\ ~Beheaded
    BY <1>5 DEF View, Dropped, Beheaded
  <2>2. rest = <<>>
    BY <1>4, <2>1, SubSeqEmpty
  <2>3. Dropped \in 0..Len(linkPipe) /\ Beheaded = FALSE
    BY <1>4, <2>1 DEF Beheaded
  <2>4. linkPipe' = rest
    BY <2>1, <2>2
  <2> QED BY <1>1, <2>3, <2>4, Zenon
<1>6. CASE wire' # <<>>
  <2>1. wire # <<>>
    <3>1. wire = <<>> => n = 0 /\ From(wire, n + 1) = wire
      BY <1>3, WireCut, EmptySeq
    <3> QED BY <1>6, <3>1
  <2>2. c[1] \in 1..l /\ linkPipe = LinkFrames(c, l) /\ wire[1][1] \in 1..l
    BY <2>1 DEF View, Standing
  <2>3. d[1] \in 1..l /\ linkPipe' = LinkFrames(d, l)
    <3>1. first' = d
      BY DEF first
    <3>2. d[1] \in 1..LastFrame' /\ linkPipe' = LinkFrames(first', LastFrame')
      BY <1>6 DEF View, Standing, LinkFrames, LinkFrame, BadFrame
    <3> QED BY <1>2, <3>1, <3>2
  <2>4. c[1] <= wire[1][1] /\ (readable # <<>> /\ wire[1][2] = 1 => c[1] < wire[1][1])
        /\ (readable = <<>> => c = wire[1])
    <3>1. CASE readable = <<>>
      BY <2>2, <3>1 DEF first
    <3>2. CASE readable # <<>>
      <4>1. c[1] \in 1..ReadUpTo /\ ReadUpTo \in Nat
        BY <3>2 DEF View, Standing
      <4>2. /\ wire[1][2] = 1 => ReadUpTo = wire[1][1] - 1
            /\ wire[1][2] # 1 => ReadUpTo = wire[1][1] - 1 + 1
        BY <2>1 DEF View, Standing
      <4> HIDE DEF c
      <4> QED BY <1>2, <2>2, <3>2, <4>1, <4>2
    <3> QED BY <3>1, <3>2
  <2>5. wire[1][1] <= d[1] /\ (n > 0 /\ d[2] = 1 => wire[1][1] < d[1]) /\ (n = 0 => d = wire[1])
    <3>1. CASE n = 0
      <4>1. wire' = wire
        BY <1>3, <3>1, WireCut
      <4> QED BY <2>2, <3>1, <4>1
    <3>2. CASE n # 0
      <4>0. n \in 1..Len(wire)
        BY <1>3, <3>2
      <4>1. /\ LastRead(wire', Len(sizes)) = wire[n][1]
            /\ wire'[1][2] = 1 => wire'[1][1] > wire[n][1]
        BY <1>3, <1>6, <4>0, OnWire
      <4>2. wire[1][1] <= wire[n][1] /\ wire[n][1] \in Nat
        <5>1. Unbroken(wire, sizes) /\ NoPads(wire) /\ 1 \in 1..Len(wire) /\ 1 <= n
          BY <1>3, <4>0, WireCells DEF OnTheWire
        <5>2. Real(wire[n]) /\ wire[n] \in Cells
          BY <1>3, <4>0, <5>1, ElementOfSeq DEF NoPads
        <5> QED BY <4>0, <5>1, <5>2, InOrderOf, CellIsPair
      <4>3. d[2] # 1 => d[1] = wire[n][1]
        BY <1>6, <4>1 DEF LastRead
      <4> QED BY <1>2, <2>2, <2>3, <3>2, <4>1, <4>2, <4>3
    <3> QED BY <3>1, <3>2
  <2>6. Dropped = d[1] - c[1] /\ (Beheaded <=> d[2] # 1)
    BY <1>6 DEF Dropped, Beheaded
  <2> DEFINE k == Dropped
  <2> HIDE DEF d, c
  <2>7. Len(linkPipe) = l - c[1] + 1
    <3>1. c[1] \in 1..l + 1
      BY <1>2, <2>2
    <3> QED BY <1>2, <2>2, <3>1, LinkFramesAre
  <2>8. /\ k \in 0..l - c[1] + 1 /\ d[1] = c[1] + k /\ d[1] <= l /\ k < Len(linkPipe)
        /\ k \in 0..Len(linkPipe)
    <3> DEFINE a == c[1]
               b == d[1]
    <3>1. a \in 1..l /\ b \in 1..l /\ l \in Nat /\ a <= b /\ k = b - a /\ Len(linkPipe) = l - a + 1
      <4>1. c[1] <= wire[1][1] /\ wire[1][1] <= d[1] /\ wire[1][1] \in Nat
        BY <1>2, <2>2, <2>4, <2>5
      <4>2. a \in 1..l /\ b \in 1..l /\ l \in Nat /\ k = b - a /\ Len(linkPipe) = l - a + 1
        BY <1>2, <2>2, <2>3, <2>6, <2>7
      <4> QED BY <4>1, <4>2
    <3> HIDE DEF a, b, k
    <3>2. k \in 0..l - a + 1 /\ b = a + k /\ b <= l /\ k < Len(linkPipe) /\ k \in 0..Len(linkPipe)
      BY <3>1
    <3> QED BY <3>2 DEF a, b
  <2>9. d[2] = 1 => k > 0 \/ c[2] = 1
    <3>1. CASE n = 0 /\ readable = <<>>
      <4>1. d = c
        BY <2>4, <2>5, <3>1
      <4> QED BY <4>1
    <3>2. CASE n > 0
      BY <1>2, <2>2, <2>3, <2>4, <2>5, <2>8, <3>2
    <3>3. CASE n = 0 /\ readable # <<>>
      <4>1. d = wire[1]
        BY <2>5, <3>3
      <4> QED BY <1>2, <2>2, <2>3, <2>4, <2>8, <3>3, <4>1
    <3> QED BY <1>3, <3>1, <3>2, <3>3
  <2>10. rest = SubSeq(LinkFrames(c, l), k + 1, Len(LinkFrames(c, l)))
    BY <2>2
  <2> HIDE DEF rest, k
  <2>11. /\ d[2] = 1 => rest = LinkFrames(d, l)
         /\ d[2] # 1 => Behead(rest) = LinkFrames(d, l)
    <3>1. l \in Nat /\ c[1] \in 1..l /\ k \in 0..l - c[1] + 1 /\ d[1] = c[1] + k /\ d[1] <= l
      BY <1>2, <2>2, <2>8
    <3>2. PICK r : r = rest
      OBVIOUS
    <3>3. r = SubSeq(LinkFrames(c, l), k + 1, Len(LinkFrames(c, l)))
      BY <2>10, <3>2
    <3>4. /\ d[2] = 1 /\ (k > 0 \/ c[2] = 1) => r = LinkFrames(d, l)
          /\ d[2] # 1 /\ d[1] <= l => Behead(r) = LinkFrames(d, l)
      BY <3>1, <3>3, RestFrames
    <3> QED BY <2>9, <3>1, <3>2, <3>4
  <2>12. linkPipe' = IF Beheaded THEN Behead(rest) ELSE rest
    BY <2>3, <2>6, <2>11
  <2>13. Beheaded \in BOOLEAN
    BY DEF Beheaded
  <2> QED BY <1>1, <2>8, <2>12, <2>13 DEF rest, k
<1> QED BY <1>5, <1>6

LEMMA LostIs ==
  ASSUME linkGot = 0, NEW n \in 0..Len(linkPipe), NEW s \in BOOLEAN, s => n < Len(linkPipe),
         linkPipe' = (IF s THEN Behead(SubSeq(linkPipe, n + 1, Len(linkPipe)))
                      ELSE SubSeq(linkPipe, n + 1, Len(linkPipe))),
         linkGot' = 0, linkSplit' = FALSE
  PROVE  Link!LostTransfer
<1>1. ~Link!Ready
  BY DEF Link!Ready
<1>2. Link!Bad = BadFrame
  BY DEF Link!Bad, BadFrame
<1> QED BY <1>1, <1>2, Zenon DEF Link!LostTransfer, Behead

LEMMA DropIsLost ==
  ASSUME TypeOK, Receiving, Contiguous, View, View', NEW n \in 0..Len(wire), wire' = From(wire, n + 1),
         readable' = <<>>, UNCHANGED sizes, linkGot = 0
  PROVE  Link!LostTransfer
<1> DEFINE k == Dropped
           s == Beheaded
<1>1. /\ linkGot' = 0 /\ linkSplit' = FALSE
      /\ k \in 0..Len(linkPipe) /\ s \in BOOLEAN /\ (s => k < Len(linkPipe))
      /\ linkPipe' = IF s THEN Behead(SubSeq(linkPipe, k + 1, Len(linkPipe)))
                     ELSE SubSeq(linkPipe, k + 1, Len(linkPipe))
  BY DropLink
<1> HIDE DEF k, s
<1> QED BY <1>1, LostIs, Zenon

LEMMA DiscardLink ==
  ASSUME TypeOK, Receiving, Contiguous, View, View', Discard
  PROVE  Link!Discard \/ Link!LostTransfer
<1>1. readable' = <<>> /\ UNCHANGED sizes
  BY DEF Discard, readable
<1>2. wire \in Seq(Cells) /\ Len(wire) \in Nat
  BY WireCells
<1>3. From(wire, 0 + 1) = wire /\ 0 \in 0..Len(wire)
  BY <1>2, SubSeqFull DEF From
<1>4. CASE linkGot = 0
  <2>1. PICK n \in 0..Len(wire) : wire' = From(wire, n + 1)
    <3>1. wire' = wire \/ \E n \in 1..Len(wire) : wire' = From(wire, n + 1)
      BY DEF Discard
    <3> QED BY <1>2, <1>3, <3>1
  <2> QED BY <1>1, <1>4, <2>1, DropIsLost
<1>5. CASE linkGot # 0
  <2>1. wire' = wire
    BY <1>5, NotReady DEF Discard
  <2>2. /\ readable # <<>> /\ Len(readable) >= Header
    <3>1. readable \in Seq(Cells)
      BY WireCells, EmptySeq DEF readable
    <3>2. Len(readable) < Header \/ Len(readable) >= Header
      BY <3>1, LenProperties, Numbers
    <3> QED BY <1>5, <3>2 DEF View
  <2>3. /\ linkGot = WholeUpTo - first[1] + 1 /\ (linkSplit <=> WholeUpTo < ReadUpTo) /\ first[1] \in 1..LastFrame
        /\ linkPipe = LinkFrames(first, LastFrame) /\ LastFrame \in Nat
    BY <2>2 DEF View, Standing
  <2>4. Len(linkPipe) = LastFrame - first[1] + 1
    <3>1. first[1] \in 1..LastFrame + 1
      BY <2>3
    <3> QED BY <2>3, <3>1, LinkFramesAre
  <2>5. Dropped = linkGot /\ (Beheaded <=> linkSplit)
    <3>1. CASE wire = <<>>
      <4>1. WholeUpTo = LastFrame /\ ReadUpTo = LastFrame
        BY <3>1 DEF View, Standing
      <4> QED BY <2>1, <2>3, <2>4, <3>1, <4>1 DEF Dropped, Beheaded
    <3>2. CASE wire # <<>>
      <4>1. /\ wire[1][1] \in 1..LastFrame /\ WholeUpTo = wire[1][1] - 1
            /\ (wire[1][2] = 1 => ReadUpTo = WholeUpTo) /\ (wire[1][2] # 1 => ReadUpTo = WholeUpTo + 1)
            /\ ReadUpTo \in Nat /\ WholeUpTo \in Nat
        BY <3>2 DEF View, Standing
      <4>2. Dropped = wire[1][1] - first[1] /\ (Beheaded <=> wire[1][2] # 1)
        BY <2>1, <3>2 DEF Dropped, Beheaded
      <4> QED BY <2>3, <4>1, <4>2
    <3> QED BY <3>1, <3>2
  <2>6. /\ linkGot' = 0 /\ linkSplit' = FALSE
        /\ linkPipe' = IF linkSplit THEN Behead(SubSeq(linkPipe, linkGot + 1, Len(linkPipe)))
                       ELSE SubSeq(linkPipe, linkGot + 1, Len(linkPipe))
    <3>1. wire' = From(wire, 0 + 1)
      BY <1>3, <2>1
    <3>2. /\ linkGot' = 0 /\ linkSplit' = FALSE
          /\ linkPipe' = IF Beheaded THEN Behead(SubSeq(linkPipe, Dropped + 1, Len(linkPipe)))
                         ELSE SubSeq(linkPipe, Dropped + 1, Len(linkPipe))
      BY <1>1, <1>3, <3>1, DropLink
    <3> QED BY <2>5, <3>2
  <2> QED BY <2>6 DEF Link!Discard, Link!Bad, BadFrame, Behead
<1> QED BY <1>4, <1>5

LEMMA LinkStepHolds ==
  ASSUME TypeOK, Receiving, Contiguous, View, View', [Next]_vars
  PROVE  [LinkStep]_<<linkPipe, linkGot, linkSplit>>
<1>1. CASE ReaderSends
  BY <1>1, SendsLink DEF LinkStep
<1>2. CASE Call \/ BadHeader \/ ReadTimeout \/ UNCHANGED vars
  <2>1. readable' = readable /\ UNCHANGED <<wire, sizes>>
    BY <1>2 DEF Call, BadHeader, ReadTimeout, vars, readable, Failures
  <2> QED BY <2>1, QuietLink
<1>3. CASE Return
  BY <1>3, ReturnLink DEF LinkStep
<1>4. CASE Read
  <2>1. state = "receiving" /\ MoreNeeded /\ UNCHANGED sizes
    BY <1>4 DEF Read
  <2>2. PICK chunk \in Chunks :
          /\ Padded(chunk, ReadCount(chunk))
          /\ wire' = From(wire, ReadCount(chunk) + 1)
          /\ Fits(chunk) => buffer' = buffer \o chunk /\ UNCHANGED <<state, lost>>
          /\ ~Fits(chunk) => state' = "invalid_usb_read_size"
    BY <1>4, Zenon DEF Read, ReadCount
  <2>3. CASE Fits(chunk)
    <3>1. chunk # <<>>
      BY <2>3 DEF Fits
    <3> QED BY <2>1, <2>2, <2>3, <3>1, FitsLink DEF LinkStep
  <2>4. CASE ~Fits(chunk)
    <3>1. readable' = <<>>
      BY <2>2, <2>4 DEF readable
    <3>2. ReadCount(chunk) \in 0..Len(wire)
      BY ChunkIsCut
    <3> QED BY <2>1, <2>2, <3>1, <3>2, NotReady, DropIsLost DEF LinkStep
  <2> QED BY <2>3, <2>4
<1>5. CASE Discard
  BY <1>5, DiscardLink DEF LinkStep
<1> QED BY <1>1, <1>2, <1>3, <1>4, <1>5 DEF Next

LEMMA AlwaysView == Spec => [](TypeOK /\ Receiving /\ Contiguous /\ View)
<1>1. Init => Contiguous
  <2>1. Init => wire = <<>> /\ readable = <<>>
    BY DEF Init, readable
  <2> QED BY <2>1 DEF Contiguous
<1>2. TypeOK /\ Receiving /\ Contiguous /\ [Next]_vars => Contiguous'
  BY ContiguousStep
<1>3. TypeOK /\ Receiving /\ Contiguous => View
  BY ViewHolds
<1> QED BY <1>1, <1>2, <1>3, AlwaysReceiving, PTL DEF Spec

\* For frames, buffers, transfers and padding of any size, every step of receive()
\* and of fdt_down's handler is a step of ReaderLink on whole frames, or puts the
\* next frame the reader sends behind the others: ReaderRun may work with frames.
THEOREM ReceiveKeepsLink == Spec => ReceiveIsLink
<1>1. (TypeOK /\ Receiving /\ Contiguous /\ View) /\ (TypeOK /\ Receiving /\ Contiguous /\ View)'
        /\ [Next]_vars => [LinkStep]_<<linkPipe, linkGot, linkSplit>>
  BY LinkStepHolds
<1>2. [LinkStep]_<<linkPipe, linkGot, linkSplit>> =>
        [Link!Transfer \/ (Link!Ready /\ Link!Consume) \/ Link!Discard \/ Link!LostTransfer
         \/ (UNCHANGED <<linkGot, linkSplit>> /\ linkPipe' = Append(linkPipe, <<"frame", Len(sizes) + 1>>))
        ]_<<linkPipe, linkGot, linkSplit>>
  BY DEF LinkStep, LinkSent
<1> QED BY <1>1, <1>2, AlwaysView, PTL DEF Spec, ReceiveIsLink
=============================================================================
