------------------------- MODULE HexUtility_proofs -------------------------
(***************************************************************************)
(* Lemmas about the hex file reader: where a call looks, which record it   *)
(* finds, and that it moves the reader forward by exactly one chunk.       *)
(***************************************************************************)
EXTENDS HexUtility, FiniteSetTheorems, WellFoundedInduction, TLAPS

Reader(f, h) ==
  /\ h.curr_line \in 0..Len(f)
  /\ h.is_first_8 \in BOOLEAN /\ h.is_eof \in BOOLEAN /\ h.is_open \in BOOLEAN
  /\ h.is_first_8 /\ h.is_open => h.curr_line \in DataLines(f)
  /\ ~h.is_first_8 => h.curr_line \in DOMAIN f
  /\ ~h.is_first_8 /\ ~EndsData(f, h.curr_line) => h.curr_line \in DataLines(f)
  /\ ~h.is_eof /\ ~h.is_open => h.curr_line = 0 /\ h.is_first_8

-----------------------------------------------------------------------------
(* A non-empty set of naturals has a least element, and Min is it. *)

LEMMA LeastNatural ==
  ASSUME NEW S, S \subseteq Nat, S # {}
  PROVE  \E x \in S : \A y \in S : x <= y
<1> DEFINE Below(x) == {y \in S : y <= x}
           T == {Below(x) : x \in S}
<1>1. T \subseteq FiniteSubsetsOf(S)
  <2> SUFFICES ASSUME NEW x \in S PROVE Below(x) \in FiniteSubsetsOf(S)
    OBVIOUS
  <2>1. IsFiniteSet(Below(x))
    <3> DEFINE B == Below(x)
    <3>1. B \in SUBSET Nat /\ x \in Nat /\ \A s \in B : s <= x
      OBVIOUS
    <3> HIDE DEF B
    <3>2. IsFiniteSet(B)
      BY <3>1, FS_BoundedSetOfNaturals
    <3> QED
      BY <3>2 DEF B
  <2> QED
    BY <2>1 DEF FiniteSubsetsOf
<1>2. T # {}
  OBVIOUS
<1>3. PICK W \in T : \A V \in T : ~(<<V, W>> \in StrictSubsetOrdering(S))
  <2> HIDE DEF T
  <2> QED
    BY <1>1, <1>2, FS_StrictSubsetOrderingWellFounded, WFMin
<1>4. PICK x \in S : W = Below(x)
  BY <1>3
<1>5. ASSUME NEW y \in S, ~(x <= y) PROVE FALSE
  <2>1. y \in Nat /\ x \in Nat /\ y < x
    BY <1>5
  <2>2. \A z \in S : z <= y => z <= x
    BY <2>1
  <2>3. Below(y) \subseteq Below(x) /\ x \in Below(x) /\ x \notin Below(y)
    <3>1. Below(y) \subseteq Below(x)
      BY <2>2
    <3>2. x \in Below(x)
      BY <2>1
    <3>3. x \notin Below(y)
      BY <2>1
    <3> QED
      BY <3>1, <3>2, <3>3
  <2>4. <<Below(y), Below(x)>> \in StrictSubsetOrdering(S)
    BY <2>3 DEF StrictSubsetOrdering
  <2> QED
    BY <1>3, <1>4, <2>4
<1> QED
  BY <1>5

LEMMA MinOfNaturals ==
  ASSUME NEW S, S \subseteq Nat, S # {}
  PROVE  Min(S) \in S /\ \A x \in S : Min(S) <= x
BY LeastNatural DEF Min

-----------------------------------------------------------------------------
(* Counting the data records up to a line. *)

LEMMA DataLinesFinite ==
  ASSUME NEW f, HexFile(f), NEW n \in Nat
  PROVE  /\ IsFiniteSet({d \in DataLines(f) : d <= n})
         /\ DataLinesTo(f, n) \in Nat
<1> DEFINE D == {d \in DataLines(f) : d <= n}
<1>1. D \in SUBSET Nat /\ \A d \in D : d <= n
  BY DEF HexFile, DataLines
<1> HIDE DEF D
<1>2. IsFiniteSet(D)
  BY <1>1, FS_BoundedSetOfNaturals
<1> QED
  BY <1>2, FS_CardinalityType DEF D, DataLinesTo

\* The count grows by one from a line to the next data record after it ...
LEMMA NextDataLineCounts ==
  ASSUME NEW f, HexFile(f), NEW c \in Nat, NEW d \in DataLines(f), c < d,
         \A m \in DataLines(f) : c < m => d <= m
  PROVE  DataLinesTo(f, d) = DataLinesTo(f, c) + 1
<1> DEFINE C == {m \in DataLines(f) : m <= c}
           D == {m \in DataLines(f) : m <= d}
<1>1. d \in Nat /\ DataLines(f) \subseteq Nat
  BY DEF HexFile, DataLines
<1>2. D = C \cup {d} /\ d \notin C
  <2>1. \A m \in DataLines(f) : m <= d <=> (m <= c \/ m = d)
    BY <1>1
  <2>2. D = C \cup {d}
    BY <2>1
  <2>3. d \notin C
    BY <1>1
  <2> QED
    BY <2>2, <2>3
<1>3. IsFiniteSet(C)
  BY DataLinesFinite
<1> HIDE DEF C, D
<1>4. Cardinality(D) = Cardinality(C) + 1
  BY <1>2, <1>3, FS_AddElement
<1> QED
  BY <1>4 DEF C, D, DataLinesTo

\* ... and does not grow over a line that is not a data record.
LEMMA OtherLineCounts ==
  ASSUME NEW f, HexFile(f), NEW c \in Nat, c + 1 \notin DataLines(f)
  PROVE  DataLinesTo(f, c + 1) = DataLinesTo(f, c)
<1>1. DataLines(f) \subseteq Nat
  BY DEF HexFile, DataLines
<1>2. \A m \in DataLines(f) : m <= c + 1 <=> m <= c
  BY <1>1
<1>3. {m \in DataLines(f) : m <= c + 1} = {m \in DataLines(f) : m <= c}
  BY <1>2
<1> QED
  BY <1>3 DEF DataLinesTo

-----------------------------------------------------------------------------
(* A call of get_next_8_bytes. *)

\* It looks at a line of the file.
LEMMA LineReadInFile ==
  ASSUME NEW f, HexFile(f), NEW h, Reader(f, h)
  PROVE  LineRead(h) \in DOMAIN f
<1>1. DOMAIN f = 1..Len(f) /\ Len(f) \in Nat /\ Len(f) >= 1
  BY DEF HexFile
<1>2. CASE ~h.is_first_8
  BY <1>2 DEF Reader, LineRead
<1>3. CASE h.is_first_8 /\ h.is_open
  <2>1. h.curr_line \in DOMAIN f /\ f[h.curr_line].type = "DATA"
    BY <1>3 DEF Reader, DataLines
  <2>2. f[Len(f)].type # "DATA"
    BY DEF HexFile, EndsData
  <2>3. h.curr_line # Len(f)
    BY <2>1, <2>2
  <2> QED
    BY <1>1, <1>3, <2>1, <2>3 DEF LineRead
<1>4. CASE h.is_first_8 /\ ~h.is_open
  BY <1>1, <1>4 DEF LineRead
<1> QED
  BY <1>2, <1>3, <1>4 DEF Reader

\* When the data does not end there it finds the first data record from there on.
LEMMA DataLineIsNext ==
  ASSUME NEW f, HexFile(f), NEW h, Reader(f, h), ~AtEnd(f, h)
  PROVE  /\ DataLineRead(f, h) \in DataLines(f)
         /\ LineRead(h) <= DataLineRead(f, h)
         /\ \A m \in DataLines(f) : LineRead(h) <= m => DataLineRead(f, h) <= m
<1> DEFINE c == LineRead(h)
           S == {d \in DataLines(f) : d >= c}
<1>1. c \in DOMAIN f /\ c \in Nat /\ DataLines(f) \subseteq Nat
  BY LineReadInFile DEF HexFile, DataLines
<1>2. S # {}
  <2>1. CASE c \in DataLines(f)
    BY <1>1, <2>1
  <2>2. CASE c \notin DataLines(f)
    BY <1>1, <2>2 DEF HexFile, AtEnd
  <2> QED
    BY <2>1, <2>2
<1>3. Min(S) \in S /\ \A x \in S : Min(S) <= x
  <2> S \subseteq Nat
    BY <1>1
  <2> HIDE DEF S
  <2> QED
    BY <1>2, MinOfNaturals
<1> QED
  BY <1>1, <1>3 DEF DataLineRead

\* It leaves the reader well formed, one chunk further, and hands out that chunk.
LEMMA OneChunkForward ==
  ASSUME NEW f, HexFile(f), NEW h, Reader(f, h), ~AtEnd(f, h)
  PROVE  /\ Reader(f, AfterChunk(f, h))
         /\ AfterChunk(f, h).is_eof = h.is_eof
         /\ NextChunk(f, h).line \in DataLines(f) /\ NextChunk(f, h).half \in 1..2
         /\ ~h.is_eof => /\ Position(f, AfterChunk(f, h)) = Position(f, h) + 1
                         /\ ChunkNumber(f, NextChunk(f, h)) = Position(f, h) + 1
<1> DEFINE d == DataLineRead(f, h)
           g == AfterChunk(f, h)
<1>1. /\ d \in DataLines(f) /\ LineRead(h) <= d
      /\ \A m \in DataLines(f) : LineRead(h) <= m => d <= m
  BY DataLineIsNext
<1>2. /\ Len(f) \in Nat /\ DOMAIN f = 1..Len(f) /\ DataLines(f) \subseteq 1..Len(f)
      /\ d < Len(f) /\ d \in Nat
  <2>1. Len(f) \in Nat /\ DOMAIN f = 1..Len(f) /\ DataLines(f) \subseteq 1..Len(f)
    BY DEF HexFile, DataLines
  <2>2. Len(f) \notin DataLines(f)
    BY DEF HexFile, EndsData, DataLines
  <2> QED
    BY <1>1, <2>1, <2>2
<1>3. /\ h.curr_line \in Nat /\ h.is_first_8 \in BOOLEAN
      /\ DataLinesTo(f, h.curr_line) \in Nat
  <2>1. h.curr_line \in Nat /\ h.is_first_8 \in BOOLEAN
    BY <1>2 DEF Reader
  <2> QED
    BY <2>1, DataLinesFinite
<1>4. CASE h.is_first_8
  <2>1. h.curr_line < LineRead(h) \/ h.is_eof
    BY <1>3, <1>4 DEF LineRead, Reader
  <2>2. ~h.is_eof => \A m \in DataLines(f) : h.curr_line < m => d <= m
    BY <1>1, <1>2, <1>3, <1>4 DEF LineRead, Reader
  <2>3. ~h.is_eof => DataLinesTo(f, d) = DataLinesTo(f, h.curr_line) + 1
    <3> SUFFICES ASSUME ~h.is_eof PROVE DataLinesTo(f, d) = DataLinesTo(f, h.curr_line) + 1
      OBVIOUS
    <3>1. LineRead(h) \in Nat /\ h.curr_line < d
      BY <1>1, <1>2, <1>3, <2>1, LineReadInFile
    <3> HIDE DEF d
    <3> QED
      BY <1>1, <1>3, <2>2, <3>1, NextDataLineCounts
  <2>4. NextChunk(f, h) = [line |-> d, half |-> 1]
    BY <1>4 DEF NextChunk, Chunk
  <2>5. CASE f[d].len <= CAN_DATA_LEN
    <3>1. g = [curr_line |-> d + 1, is_first_8 |-> FALSE, is_eof |-> h.is_eof, is_open |-> TRUE]
      BY <1>4, <2>5 DEF AfterChunk
    <3>2. f[d].len < HEX_DATA_RECORD_LEN
      <4>1. f[d] \in HexRecord
        BY <1>1, <1>2 DEF HexFile
      <4>2. f[d].len \in 0..HEX_DATA_RECORD_LEN
        BY <4>1 DEF HexRecord
      <4> QED
        BY <2>5, <4>2 DEF CAN_DATA_LEN, HEX_DATA_RECORD_LEN
    <3>3. \A m \in DataLines(f) : m <= d
      BY <1>1, <3>2 DEF HexFile
    <3>4. d + 1 \in DOMAIN f /\ d + 1 \notin DataLines(f)
      BY <1>2, <3>3
    <3>5. EndsData(f, d + 1)
      <4>1. ~\E m \in DataLines(f) : m > d + 1
        BY <1>2, <3>3
      <4> QED
        BY <3>4, <4>1 DEF HexFile
    <3>6. DataLinesTo(f, d + 1) = DataLinesTo(f, d)
      BY <1>2, <3>4, OtherLineCounts
    <3>7. Reader(f, g)
      BY <1>2, <3>1, <3>4, <3>5 DEF Reader
    <3>8. ~h.is_eof => Position(f, g) = Position(f, h) + 1
      BY <1>3, <1>4, <2>3, <3>1, <3>6 DEF Position, Reader
    <3>9. ~h.is_eof => ChunkNumber(f, NextChunk(f, h)) = Position(f, h) + 1
      BY <1>3, <1>4, <2>3, <2>4 DEF Position, ChunkNumber
    <3> QED
      BY <1>1, <2>4, <3>1, <3>7, <3>8, <3>9 DEF Reader
  <2>6. CASE ~(f[d].len <= CAN_DATA_LEN)
    <3>1. g = [curr_line |-> d, is_first_8 |-> FALSE, is_eof |-> h.is_eof, is_open |-> TRUE]
      BY <1>4, <2>6 DEF AfterChunk
    <3>2. Reader(f, g)
      BY <1>1, <1>2, <3>1 DEF Reader
    <3>3. ~h.is_eof => Position(f, g) = Position(f, h) + 1
      BY <1>3, <1>4, <2>3, <3>1 DEF Position, Reader
    <3>4. ~h.is_eof => ChunkNumber(f, NextChunk(f, h)) = Position(f, h) + 1
      BY <1>3, <1>4, <2>3, <2>4 DEF Position, ChunkNumber
    <3> QED
      BY <1>1, <2>4, <3>1, <3>2, <3>3, <3>4 DEF Reader
  <2> QED
    BY <2>5, <2>6
<1>5. CASE ~h.is_first_8
  <2>1. h.curr_line \in DataLines(f) /\ LineRead(h) = h.curr_line
    BY <1>5 DEF Reader, LineRead, AtEnd
  <2>2. d = h.curr_line
    BY <1>1, <1>2, <2>1
  <2>3. NextChunk(f, h) = [line |-> d, half |-> 2]
    BY <1>5 DEF NextChunk, Chunk
  <2>4. g = [curr_line |-> d, is_first_8 |-> TRUE, is_eof |-> h.is_eof, is_open |-> TRUE]
    BY <1>5 DEF AfterChunk
  <2>5. Reader(f, g)
    BY <1>1, <1>2, <2>4 DEF Reader
  <2>6. Position(f, g) = Position(f, h) + 1
    BY <1>3, <1>5, <2>2, <2>4 DEF Position, Reader
  <2>7. ChunkNumber(f, NextChunk(f, h)) = Position(f, h) + 1
    BY <1>3, <1>5, <2>2, <2>3 DEF Position, ChunkNumber
  <2> QED
    BY <1>1, <2>3, <2>4, <2>5, <2>6, <2>7 DEF Reader
<1> QED
  BY <1>3, <1>4, <1>5

\* A -1 leaves it well formed too.
LEMMA EndKeepsReader ==
  ASSUME NEW f, HexFile(f), NEW h, Reader(f, h), AtEnd(f, h)
  PROVE  Reader(f, AfterEnd(h)) /\ AfterEnd(h).is_eof
<1>1. LineRead(h) \in DOMAIN f /\ Len(f) \in Nat /\ DOMAIN f = 1..Len(f)
  BY LineReadInFile DEF HexFile
<1>2. EndsData(f, LineRead(h))
  BY DEF AtEnd
<1> QED
  BY <1>1, <1>2 DEF AfterEnd, Reader

\* A new reader is well formed and at the start of the file.
LEMMA NewReaderAtStart ==
  ASSUME NEW f, HexFile(f)
  PROVE  Reader(f, NewReader) /\ ~NewReader.is_eof /\ Position(f, NewReader) = 0
<1>1. {d \in DataLines(f) : d <= 0} = {}
  BY DEF HexFile, DataLines
<1>2. DataLinesTo(f, 0) = 0
  BY <1>1, FS_EmptySet DEF DataLinesTo
<1>3. Len(f) \in Nat
  BY DEF HexFile
<1> QED
  BY <1>2, <1>3 DEF NewReader, Reader, Position

-----------------------------------------------------------------------------
(* The position of the reader against the number of chunks. *)

Short(f, d) == f[d].len <= CAN_DATA_LEN

\* What the half-record flag says of the record at hand: it is set again only after the
\* second half of a record longer than a frame; a reader that stands behind the data with
\* the flag off has left a short last record.
Halfway(f, h) ==
  ~h.is_eof =>
    /\ h.is_first_8 /\ h.is_open => ~Short(f, h.curr_line)
    /\ ~h.is_first_8 /\ h.curr_line \in DataLines(f) => ~Short(f, h.curr_line)
    /\ ~h.is_first_8 /\ h.curr_line \notin DataLines(f) => \E d \in DataLines(f) : Short(f, d)

\* The data records of a file can be counted up to any line, and all of them up to a line
\* that none lies behind.
LEMMA AllDataLines ==
  ASSUME NEW f, HexFile(f)
  PROVE  /\ IsFiniteSet(DataLines(f)) /\ Cardinality(DataLines(f)) \in Nat
         /\ \A n \in Nat : /\ DataLinesTo(f, n) <= Cardinality(DataLines(f))
                           /\ (\A d \in DataLines(f) : d <= n) =>
                                DataLinesTo(f, n) = Cardinality(DataLines(f))
                           /\ (\E d \in DataLines(f) : d > n) =>
                                DataLinesTo(f, n) < Cardinality(DataLines(f))
<1>1. DataLines(f) \subseteq Nat /\ Len(f) \in Nat /\ \A d \in DataLines(f) : d <= Len(f)
  BY DEF HexFile, DataLines
<1>2. IsFiniteSet(DataLines(f))
  BY <1>1, FS_BoundedSetOfNaturals
<1>3. Cardinality(DataLines(f)) \in Nat
  BY <1>2, FS_CardinalityType
<1>4. ASSUME NEW n \in Nat
      PROVE  /\ DataLinesTo(f, n) <= Cardinality(DataLines(f))
             /\ (\A d \in DataLines(f) : d <= n) =>
                  DataLinesTo(f, n) = Cardinality(DataLines(f))
             /\ (\E d \in DataLines(f) : d > n) =>
                  DataLinesTo(f, n) < Cardinality(DataLines(f))
  <2> DEFINE D == {d \in DataLines(f) : d <= n}
  <2>1. D \in SUBSET DataLines(f) /\ DataLinesTo(f, n) = Cardinality(D)
    BY DEF DataLinesTo
  <2>2. /\ Cardinality(D) <= Cardinality(DataLines(f))
        /\ Cardinality(DataLines(f)) = Cardinality(D) => DataLines(f) = D
    <3> HIDE DEF D
    <3> QED
      BY <1>2, <2>1, FS_Subset
  <2>3. (\A d \in DataLines(f) : d <= n) => D = DataLines(f)
    OBVIOUS
  <2>4. (\E d \in DataLines(f) : d > n) => D # DataLines(f)
    BY <1>1
  <2>5. DataLinesTo(f, n) \in Nat
    BY DataLinesFinite
  <2> HIDE DEF D
  <2> QED
    BY <1>3, <2>1, <2>2, <2>3, <2>4, <2>5
<1> QED
  BY <1>2, <1>3, <1>4

\* Only the last data record is short.
LEMMA ShortIsLast ==
  ASSUME NEW f, HexFile(f), NEW d \in DataLines(f), Short(f, d)
  PROVE  \A m \in DataLines(f) : m <= d
<1>1. d \in DOMAIN f /\ f[d] \in HexRecord
  BY DEF HexFile, DataLines
<1>2. f[d].len < HEX_DATA_RECORD_LEN
  BY <1>1 DEF HexRecord, Short, CAN_DATA_LEN, HEX_DATA_RECORD_LEN
<1> QED
  BY <1>2 DEF HexFile

LEMMA ChunkCountIsNat ==
  ASSUME NEW f, HexFile(f)
  PROVE  ChunkCount(f) \in Nat
<1>1. /\ IsFiniteSet(DataLines(f)) /\ Cardinality(DataLines(f)) \in Nat
  BY AllDataLines
<1>2. DataLines(f) # {} => Cardinality(DataLines(f)) # 0
  BY <1>1, FS_EmptySet
<1>3. CASE \E d \in DataLines(f) : f[d].len <= CAN_DATA_LEN
  BY <1>1, <1>2, <1>3 DEF ChunkCount
<1>4. CASE ~\E d \in DataLines(f) : f[d].len <= CAN_DATA_LEN
  BY <1>1, <1>4 DEF ChunkCount
<1> QED
  BY <1>3, <1>4

\* While a call still finds data there is a chunk left.
LEMMA ChunkLeft ==
  ASSUME NEW f, HexFile(f), NEW h, Reader(f, h), Halfway(f, h), ~h.is_eof, ~AtEnd(f, h)
  PROVE  Position(f, h) < ChunkCount(f)
<1> DEFINE d == DataLineRead(f, h)
           n == Cardinality(DataLines(f))
<1>1. /\ d \in DataLines(f) /\ LineRead(h) <= d /\ d \in Nat
      /\ \A m \in DataLines(f) : LineRead(h) <= m => d <= m
  BY DataLineIsNext DEF HexFile, DataLines
<1>2. DataLines(f) \subseteq Nat /\ h.curr_line \in Nat /\ h.is_first_8 \in BOOLEAN
  BY DEF HexFile, DataLines, Reader
<1>3. n \in Nat /\ DataLinesTo(f, h.curr_line) \in Nat /\ DataLinesTo(f, h.curr_line) <= n
  BY <1>2, AllDataLines, DataLinesFinite
<1>4. CASE h.is_first_8
  <2>1. h.curr_line < d
    <3>1. h.curr_line < LineRead(h)
      BY <1>2, <1>4 DEF LineRead, Reader
    <3> QED
      BY <1>1, <1>2, <3>1, LineReadInFile DEF LineRead
  <2>2. DataLinesTo(f, h.curr_line) < n
    BY <1>1, <1>2, <2>1, AllDataLines
  <2> QED
    BY <1>3, <1>4, <2>2 DEF Position, ChunkCount
<1>5. CASE ~h.is_first_8
  <2>1. h.curr_line \in DataLines(f) /\ ~Short(f, h.curr_line)
    BY <1>5 DEF Reader, LineRead, AtEnd, Halfway
  <2>2. CASE \E m \in DataLines(f) : m > h.curr_line
    <3>1. DataLinesTo(f, h.curr_line) < n
      BY <1>2, <2>2, AllDataLines
    <3> QED
      BY <1>3, <1>5, <3>1 DEF Position, ChunkCount
  <2>3. CASE ~\E m \in DataLines(f) : m > h.curr_line
    <3>1. \A m \in DataLines(f) : m <= h.curr_line
      BY <1>2, <2>3
    <3>2. DataLinesTo(f, h.curr_line) = n
      BY <1>2, <3>1, AllDataLines
    <3>3. ~\E m \in DataLines(f) : f[m].len <= CAN_DATA_LEN
      <4> SUFFICES ASSUME NEW m \in DataLines(f), Short(f, m) PROVE FALSE
        BY DEF Short
      <4>1. h.curr_line <= m /\ m <= h.curr_line
        BY <2>1, <3>1, ShortIsLast
      <4> QED
        BY <1>2, <2>1, <4>1
    <3> QED
      BY <1>3, <1>5, <3>2, <3>3 DEF Position, ChunkCount
  <2> QED
    BY <2>2, <2>3
<1> QED
  BY <1>2, <1>4, <1>5

\* When it finds the end, all chunks have been handed out.
LEMMA EndOfChunks ==
  ASSUME NEW f, HexFile(f), NEW h, Reader(f, h), Halfway(f, h), ~h.is_eof, AtEnd(f, h)
  PROVE  Position(f, h) = ChunkCount(f) /\ Position(f, AfterEnd(h)) = Position(f, h)
<1> DEFINE n == Cardinality(DataLines(f))
<1>1. EndsData(f, LineRead(h)) /\ LineRead(h) \in DOMAIN f
  BY LineReadInFile DEF AtEnd
<1>2. \A d \in DataLines(f) : d < LineRead(h)
  BY <1>1 DEF HexFile
<1>3. LineRead(h) \notin DataLines(f)
  BY <1>1 DEF EndsData, DataLines
<1>4. /\ DataLines(f) \subseteq Nat /\ h.curr_line \in Nat /\ h.is_first_8 \in BOOLEAN
      /\ LineRead(h) \in Nat
  BY <1>1 DEF HexFile, DataLines, Reader
<1>5. n \in Nat /\ DataLinesTo(f, h.curr_line) \in Nat
  BY <1>4, AllDataLines, DataLinesFinite
<1>6. /\ AfterEnd(h).curr_line = LineRead(h)
      /\ AfterEnd(h).is_first_8 = h.is_first_8
  BY DEF AfterEnd
<1>7. CASE h.is_first_8
  <2>1. LineRead(h) = h.curr_line + 1
    BY <1>4, <1>7 DEF LineRead, Reader
  <2>2. \A d \in DataLines(f) : d <= h.curr_line
    BY <1>2, <1>4, <2>1
  <2>3. DataLinesTo(f, h.curr_line) = n
    BY <1>4, <2>2, AllDataLines
  <2>4. DataLinesTo(f, LineRead(h)) = DataLinesTo(f, h.curr_line)
    BY <1>3, <1>4, <2>1, OtherLineCounts
  <2>5. ~\E m \in DataLines(f) : f[m].len <= CAN_DATA_LEN
    <3> SUFFICES ASSUME NEW m \in DataLines(f), Short(f, m) PROVE FALSE
      BY DEF Short
    <3>1. m <= h.curr_line /\ m \in DOMAIN f /\ m > 0
      BY <2>2 DEF DataLines, HexFile
    <3>2. h.is_open /\ h.curr_line \in DataLines(f) /\ ~Short(f, h.curr_line)
      BY <1>4, <1>7, <3>1 DEF Reader, Halfway
    <3>3. h.curr_line <= m
      BY <3>2, ShortIsLast
    <3> QED
      BY <1>4, <3>1, <3>2, <3>3
  <2> QED
    BY <1>5, <1>6, <1>7, <2>3, <2>4, <2>5 DEF Position, ChunkCount
<1>8. CASE ~h.is_first_8
  <2>1. LineRead(h) = h.curr_line
    BY <1>8 DEF LineRead
  <2>2. \A d \in DataLines(f) : d <= h.curr_line
    BY <1>2, <1>4, <2>1
  <2>3. DataLinesTo(f, h.curr_line) = n
    BY <1>4, <2>2, AllDataLines
  <2>4. \E m \in DataLines(f) : f[m].len <= CAN_DATA_LEN
    BY <1>3, <1>8, <2>1 DEF Halfway, Short
  <2> QED
    BY <1>5, <1>6, <1>8, <2>1, <2>3, <2>4 DEF Position, ChunkCount
<1> QED
  BY <1>4, <1>7, <1>8

\* A chunk leaves the reader standing on a line of the file, with a flag that says which
\* half comes next.
LEMMA ChunkKeepsHalfway ==
  ASSUME NEW f, HexFile(f), NEW h, Reader(f, h), Halfway(f, h), ~h.is_eof, ~AtEnd(f, h)
  PROVE  /\ AfterChunk(f, h) \in [curr_line : 0..Len(f), is_first_8 : BOOLEAN,
                                  is_eof : BOOLEAN, is_open : BOOLEAN]
         /\ AfterChunk(f, h).curr_line > 0
         /\ ~AfterChunk(f, h).is_eof
         /\ Halfway(f, AfterChunk(f, h))
<1> DEFINE d == DataLineRead(f, h)
           g == AfterChunk(f, h)
<1>1. /\ d \in DataLines(f) /\ LineRead(h) <= d
      /\ \A m \in DataLines(f) : LineRead(h) <= m => d <= m
  BY DataLineIsNext
<1>2. Reader(f, g) /\ g.is_eof = h.is_eof
  BY OneChunkForward
<1>3. g.curr_line \in 0..Len(f) /\ g.is_first_8 \in BOOLEAN /\ g.is_eof = FALSE /\ g.is_open = TRUE
  BY <1>2 DEF Reader, AfterChunk
<1>4. g = [curr_line |-> g.curr_line, is_first_8 |-> g.is_first_8, is_eof |-> g.is_eof,
           is_open |-> g.is_open]
  BY DEF AfterChunk
<1>5. d \in Nat /\ d > 0
  BY <1>1 DEF HexFile, DataLines
<1>6. g.curr_line > 0
  BY <1>5 DEF AfterChunk
<1>7. h.is_first_8 \in BOOLEAN /\ g.is_first_8 = ~h.is_first_8
  BY DEF Reader, AfterChunk
<1>8. CASE h.is_first_8 /\ Short(f, d)
  <2>1. g.curr_line = d + 1 /\ ~g.is_first_8
    BY <1>7, <1>8 DEF AfterChunk, Short
  <2>2. d + 1 \notin DataLines(f)
    BY <1>1, <1>5, <1>8, ShortIsLast
  <2> QED
    BY <1>1, <1>3, <1>4, <1>6, <1>8, <2>1, <2>2 DEF Halfway
<1>9. CASE h.is_first_8 /\ ~Short(f, d)
  <2>1. g.curr_line = d /\ ~g.is_first_8
    BY <1>7, <1>9 DEF AfterChunk, Short
  <2> QED
    BY <1>1, <1>3, <1>4, <1>6, <1>9, <2>1 DEF Halfway
<1>10. CASE ~h.is_first_8
  <2>1. h.curr_line \in DataLines(f) /\ ~Short(f, h.curr_line) /\ LineRead(h) = h.curr_line
    BY <1>10 DEF Reader, LineRead, AtEnd, Halfway
  <2>2. h.curr_line \in Nat
    BY <2>1 DEF HexFile, DataLines
  <2>3. d = h.curr_line
    BY <1>1, <1>5, <2>1, <2>2
  <2>4. g.curr_line = d /\ g.is_first_8
    BY <1>7, <1>10 DEF AfterChunk
  <2> QED
    BY <1>3, <1>4, <1>6, <2>1, <2>3, <2>4 DEF Halfway
<1> QED
  BY <1>7, <1>8, <1>9, <1>10

-----------------------------------------------------------------------------
(* Sums over finite sets.  A table of F over S holds the sums of F over all subsets *)
(* of S, as MapThenSumSet computes them: one element at a time.                     *)

SumF(F, S) == MapThenSumSet(LAMBDA k : F[k], S)

SumTable(F, S, g) ==
  g = [s \in SUBSET S |->
         IF s = {} THEN 0
         ELSE LET x == CHOOSE e \in s : TRUE IN F[x] + g[s \ {x}]]

LEMMA SmallestSubset ==
  ASSUME NEW S, IsFiniteSet(S), NEW T, T \subseteq SUBSET S, T # {}
  PROVE  \E t \in T : \A u \in T : u \subseteq t => u = t
<1>1. FiniteSubsetsOf(S) = SUBSET S
  BY FS_FiniteSubsetsOfFinite
<1>2. IsWellFoundedOn(StrictSubsetOrdering(S), FiniteSubsetsOf(S))
  BY FS_StrictSubsetOrderingWellFounded
<1>3. PICK t \in T : \A u \in T : ~(<<u, t>> \in StrictSubsetOrdering(S))
  BY <1>1, <1>2, WFMin
<1>4. ASSUME NEW u \in T, u \subseteq t, u # t
      PROVE  FALSE
  BY <1>3, <1>4 DEF StrictSubsetOrdering
<1> QED
  BY <1>4

LEMMA TablesAgree ==
  ASSUME NEW F, NEW A, NEW B, NEW g, NEW h, SumTable(F, A, g), SumTable(F, B, h),
         NEW s, IsFiniteSet(s), s \subseteq A, s \subseteq B
  PROVE  g[s] = h[s]
<1> DEFINE T == {t \in SUBSET s : g[t] # h[t]}
<1> SUFFICES ASSUME T # {} PROVE FALSE
  OBVIOUS
<1>1. PICK t \in T : \A u \in T : u \subseteq t => u = t
  <2> T \subseteq SUBSET s
    OBVIOUS
  <2> HIDE DEF T
  <2> QED
    BY SmallestSubset
<1>2. t \subseteq A /\ t \subseteq B /\ t \subseteq s
  OBVIOUS
<1>3. CASE t = {}
  BY <1>1, <1>2, <1>3 DEF SumTable
<1>4. CASE t # {}
  <2> DEFINE x == CHOOSE e \in t : TRUE
  <2>1. x \in t
    BY <1>4
  <2>2. g[t] = F[x] + g[t \ {x}] /\ h[t] = F[x] + h[t \ {x}]
    BY <1>2, <1>4 DEF SumTable
  <2> HIDE DEF x
  <2>3. t \ {x} \notin T
    BY <1>1, <2>1
  <2>4. g[t \ {x}] = h[t \ {x}]
    BY <1>2, <2>3
  <2> QED
    BY <1>1, <2>2, <2>4
<1> QED
  BY <1>3, <1>4

LEMMA TableExists ==
  ASSUME NEW F, NEW S, IsFiniteSet(S)
  PROVE  \E g : SumTable(F, S, g)
<1> DEFINE T == {t \in SUBSET S : ~\E g : SumTable(F, t, g)}
<1> SUFFICES ASSUME T # {} PROVE FALSE
  OBVIOUS
<1>1. PICK t \in T : \A u \in T : u \subseteq t => u = t
  <2> T \subseteq SUBSET S
    OBVIOUS
  <2> HIDE DEF T
  <2> QED
    BY SmallestSubset
<1> DEFINE G(u) == CHOOSE g : SumTable(F, u, g)
           E(u) == CHOOSE e \in u : TRUE
           g == [s \in SUBSET t |-> IF s = {} THEN 0 ELSE F[E(s)] + G(s \ {E(s)})[s \ {E(s)}]]
<1>2. ASSUME NEW u, u \subseteq t, u # t
      PROVE  SumTable(F, u, G(u))
  <2>1. u \notin T /\ u \subseteq S
    BY <1>1, <1>2
  <2>2. \E h : SumTable(F, u, h)
    BY <2>1
  <2> QED
    BY <2>2
<1>3. ASSUME NEW s \in SUBSET t, s # {}
      PROVE  E(s) \in s
  BY <1>3
<1> HIDE DEF G, E, T
<1>4. ASSUME NEW s \in SUBSET t, s # {}
      PROVE  g[s] = F[E(s)] + g[s \ {E(s)}]
  <2> DEFINE u == s \ {E(s)}
  <2>1. E(s) \in s
    BY <1>3, <1>4
  <2>2. u \subseteq t /\ u # t
    BY <2>1
  <2>3. SumTable(F, u, G(u))
    BY <1>2, <2>2
  <2>4. G(u)[u] = g[u]
    <3>1. CASE u = {}
      <4>1. g[u] = 0
        BY <3>1
      <4>2. u \in SUBSET u
        OBVIOUS
      <4> HIDE DEF u, g
      <4>3. G(u)[u] = 0
        BY <2>3, <3>1, <4>2 DEF SumTable
      <4> QED
        BY <4>1, <4>3
    <3>2. CASE u # {}
      <4> DEFINE w == u \ {E(u)}
      <4>1. E(u) \in u
        BY <1>3, <2>2, <3>2
      <4>2. g[u] = F[E(u)] + G(w)[w]
        BY <2>2, <3>2
      <4> HIDE DEF g
      <4>3. G(u)[u] = F[E(u)] + G(u)[w]
        <5> HIDE DEF u
        <5> QED
        BY <2>3, <3>2 DEF SumTable, E
      <4>4. SumTable(F, w, G(w)) /\ IsFiniteSet(w) /\ w \subseteq u
        <5>1. w \subseteq t /\ w # t /\ w \in SUBSET S /\ w \subseteq u
          BY <2>2, <4>1 DEF T
        <5> HIDE DEF w
        <5> QED
          BY <1>2, <5>1, FS_Subset
      <4>5. G(u)[w] = G(w)[w]
        <5> HIDE DEF u, w
        <5> QED
          BY <2>3, <4>4, TablesAgree
      <4> QED
        BY <4>2, <4>3, <4>5
    <3> QED
      BY <3>1, <3>2
  <2> QED
    BY <1>4, <2>4
<1>5. SumTable(F, t, g)
  <2>1. g[{}] = 0
    OBVIOUS
  <2>2. g = [s \in SUBSET t |-> g[s]]
    OBVIOUS
  <2> HIDE DEF g
  <2>3. \A s \in SUBSET t : g[s] = IF s = {} THEN 0
                                   ELSE LET x == CHOOSE e \in s : TRUE IN F[x] + g[s \ {x}]
    BY <1>4, <2>1 DEF E
  <2> QED
    BY <2>2, <2>3 DEF SumTable
<1> QED
  BY <1>5 DEF T

LEMMA SumIsTable ==
  ASSUME NEW F, NEW S, IsFiniteSet(S), NEW g, SumTable(F, S, g)
  PROVE  SumF(F, S) = g[S]
<1> DEFINE it == CHOOSE i : SumTable(F, S, i)
<1>1. SumTable(F, S, it)
  OBVIOUS
<1>2. SumF(F, S) = it[S]
  BY DEF SumF, MapThenSumSet, MapThenFoldSet, SumTable
<1> HIDE DEF it
<1> QED
  BY <1>1, <1>2, TablesAgree

\* The sum of a set, one element at a time ...
LEMMA SumUnfold ==
  ASSUME NEW F, NEW S, IsFiniteSet(S), S # {}
  PROVE  LET x == CHOOSE e \in S : TRUE IN x \in S /\ SumF(F, S) = F[x] + SumF(F, S \ {x})
<1> DEFINE x == CHOOSE e \in S : TRUE
           R == S \ {x}
<1>1. x \in S
  OBVIOUS
<1>2. PICK g : SumTable(F, S, g)
  BY TableExists
<1>3. g[S] = F[x] + g[R]
  BY <1>2 DEF SumTable
<1>4. IsFiniteSet(R) /\ R \subseteq S
  BY FS_Subset
<1>5. PICK h : SumTable(F, R, h)
  BY <1>4, TableExists
<1> HIDE DEF x, R
<1>6. g[R] = h[R]
  BY <1>2, <1>4, <1>5, TablesAgree
<1>7. SumF(F, S) = g[S] /\ SumF(F, R) = h[R]
  BY <1>2, <1>4, <1>5, SumIsTable
<1> QED
  BY <1>1, <1>3, <1>6, <1>7 DEF x, R

LEMMA SumEmpty ==
  ASSUME NEW F
  PROVE  SumF(F, {}) = 0
<1>1. PICK g : SumTable(F, {}, g)
  BY TableExists, FS_EmptySet
<1>2. g[{}] = 0
  BY <1>1 DEF SumTable
<1> QED
  BY <1>1, <1>2, SumIsTable, FS_EmptySet

LEMMA SumType ==
  ASSUME NEW F, NEW S, IsFiniteSet(S), \A k \in S : F[k] \in Int
  PROVE  SumF(F, S) \in Int
<1> DEFINE T == {t \in SUBSET S : SumF(F, t) \notin Int}
<1> SUFFICES ASSUME T # {} PROVE FALSE
  OBVIOUS
<1>1. PICK t \in T : \A u \in T : u \subseteq t => u = t
  <2> T \subseteq SUBSET S
    OBVIOUS
  <2> HIDE DEF T
  <2> QED
    BY SmallestSubset
<1>2. t \subseteq S /\ IsFiniteSet(t)
  BY FS_Subset
<1>3. ASSUME t = {} PROVE FALSE
  <2>1. SumF(F, {}) \in Int
    BY SumEmpty
  <2>2. SumF(F, t) \notin Int
    OBVIOUS
  <2> QED
    BY <1>3, <2>1, <2>2
<1>4. PICK x \in t : SumF(F, t) = F[x] + SumF(F, t \ {x})
  BY <1>2, <1>3, SumUnfold
<1>5. SumF(F, t \ {x}) \in Int
  BY <1>1, <1>2, <1>4
<1> QED
  BY <1>1, <1>2, <1>4, <1>5

\* ... and in any order.
LEMMA SumRemove ==
  ASSUME NEW F, NEW S, IsFiniteSet(S), \A k \in S : F[k] \in Int, NEW y \in S
  PROVE  SumF(F, S) = F[y] + SumF(F, S \ {y})
<1> DEFINE T == {t \in SUBSET S : \E z \in t : SumF(F, t) # F[z] + SumF(F, t \ {z})}
<1> SUFFICES ASSUME T # {} PROVE FALSE
  OBVIOUS
<1>1. PICK t \in T : \A u \in T : u \subseteq t => u = t
  <2> T \subseteq SUBSET S
    OBVIOUS
  <2> HIDE DEF T
  <2> QED
    BY SmallestSubset
<1>2. t \subseteq S /\ IsFiniteSet(t)
  BY FS_Subset
<1>3. PICK z \in t : SumF(F, t) # F[z] + SumF(F, t \ {z})
  BY <1>1
<1>4. PICK x \in t : SumF(F, t) = F[x] + SumF(F, t \ {x})
  BY <1>2, <1>3, SumUnfold
<1>5. x # z
  BY <1>3, <1>4
<1>6. t \ {x} \notin T /\ t \ {z} \notin T
  BY <1>1, <1>3, <1>4
<1> DEFINE w == (t \ {x}) \ {z}
<1>7. SumF(F, t \ {x}) = F[z] + SumF(F, w)
  BY <1>2, <1>3, <1>5, <1>6
<1>8. SumF(F, t \ {z}) = F[x] + SumF(F, w)
  <2>1. (t \ {z}) \ {x} = w
    OBVIOUS
  <2>2. x \in t \ {z} /\ t \ {z} \in SUBSET S
    BY <1>2, <1>4, <1>5
  <2> QED
    BY <1>6, <2>1, <2>2
<1>9. SumF(F, w) \in Int /\ F[x] \in Int /\ F[z] \in Int
  <2>1. w \subseteq S /\ IsFiniteSet(w)
    BY <1>2, FS_Subset
  <2> HIDE DEF w
  <2> QED
    BY <1>2, <1>3, <1>4, <2>1, SumType
<1> QED
  BY <1>3, <1>4, <1>7, <1>8, <1>9

LEMMA SumAdd ==
  ASSUME NEW F, NEW S, IsFiniteSet(S), NEW y, y \notin S, \A k \in S \cup {y} : F[k] \in Int
  PROVE  SumF(F, S \cup {y}) = F[y] + SumF(F, S)
<1> DEFINE R == S \cup {y}
<1>1. IsFiniteSet(R) /\ y \in R /\ R \ {y} = S /\ \A k \in R : F[k] \in Int
  BY FS_AddElement
<1> HIDE DEF R
<1>2. SumF(F, R) = F[y] + SumF(F, R \ {y})
  BY <1>1, SumRemove
<1> QED
  BY <1>1, <1>2 DEF R

LEMMA SumSingle ==
  ASSUME NEW F, NEW y, F[y] \in Int
  PROVE  SumF(F, {y}) = F[y]
<1>1. SumF(F, {} \cup {y}) = F[y] + SumF(F, {})
  BY FS_EmptySet, SumAdd
<1> QED
  BY <1>1, SumEmpty

LEMMA SumNat ==
  ASSUME NEW F, NEW S, IsFiniteSet(S), \A k \in S : F[k] \in Nat
  PROVE  SumF(F, S) \in Nat
<1> DEFINE T == {t \in SUBSET S : SumF(F, t) \notin Nat}
<1> SUFFICES ASSUME T # {} PROVE FALSE
  OBVIOUS
<1>1. PICK t \in T : \A u \in T : u \subseteq t => u = t
  <2> T \subseteq SUBSET S
    OBVIOUS
  <2> HIDE DEF T
  <2> QED
    BY SmallestSubset
<1>2. t \subseteq S /\ IsFiniteSet(t)
  BY FS_Subset
<1>3. ASSUME t = {} PROVE FALSE
  <2>1. SumF(F, {}) \in Nat
    BY SumEmpty
  <2>2. SumF(F, t) \notin Nat
    OBVIOUS
  <2> QED
    BY <1>3, <2>1, <2>2
<1>4. PICK x \in t : SumF(F, t) = F[x] + SumF(F, t \ {x})
  BY <1>2, <1>3, SumUnfold
<1>5. SumF(F, t \ {x}) \in Nat
  BY <1>1, <1>2, <1>4
<1> QED
  BY <1>1, <1>2, <1>4, <1>5

\* Functions that agree on a set have the same sum over it; a sum with the function
\* re-indexed by an injection is the sum over the image.
LEMMA SumReindex ==
  ASSUME NEW F, NEW S, IsFiniteSet(S), \A k \in S : F[k] \in Int,
         NEW i, \A k \in S : \A l \in S : i[k] = i[l] => k = l,
         NEW G, \A k \in S : G[i[k]] = F[k]
  PROVE  SumF(F, S) = SumF(G, {i[k] : k \in S})
<1> DEFINE Im(t) == {i[k] : k \in t}
           T == {t \in SUBSET S : ~ (IsFiniteSet(Im(t)) /\ SumF(F, t) = SumF(G, Im(t)))}
<1> SUFFICES ASSUME T # {} PROVE FALSE
  OBVIOUS
<1>1. PICK t \in T : \A u \in T : u \subseteq t => u = t
  <2> T \subseteq SUBSET S
    OBVIOUS
  <2> HIDE DEF T
  <2> QED
    BY SmallestSubset
<1>2. t \subseteq S /\ IsFiniteSet(t)
  BY FS_Subset
<1>3. t # {}
  <2>1. Im({}) = {}
    OBVIOUS
  <2> QED
    BY <1>1, <2>1, SumEmpty, FS_EmptySet
<1>4. PICK x \in t : TRUE
  BY <1>3
<1> DEFINE u == t \ {x}
<1>5. u \notin T /\ u \in SUBSET S
  BY <1>1, <1>2, <1>4
<1>6. Im(t) = Im(u) \cup {i[x]}
  BY <1>4
<1>7. i[x] \notin Im(u)
  BY <1>2, <1>4
<1>8. \A k \in Im(u) \cup {i[x]} : G[k] \in Int
  BY <1>2, <1>4
<1>9. SumF(F, t) = F[x] + SumF(F, u)
  <2> HIDE DEF u, T
  <2> QED
    BY <1>2, <1>4, SumRemove DEF u
<1>10. IsFiniteSet(Im(u)) /\ SumF(F, u) = SumF(G, Im(u))
  BY <1>5
<1>11. IsFiniteSet(Im(t)) /\ SumF(G, Im(t)) = G[i[x]] + SumF(G, Im(u))
  <2> DEFINE A == Im(u)
             B == Im(t)
  <2>1. B = A \cup {i[x]} /\ i[x] \notin A /\ IsFiniteSet(A)
        /\ \A k \in A \cup {i[x]} : G[k] \in Int
    BY <1>6, <1>7, <1>8, <1>10
  <2> HIDE DEF A, B
  <2>2. IsFiniteSet(B) /\ SumF(G, B) = G[i[x]] + SumF(G, A)
    BY <2>1, FS_AddElement, SumAdd
  <2> QED
    BY <2>2 DEF A, B
<1>12. G[i[x]] = F[x]
  BY <1>2, <1>4
<1>13. t \notin T
  BY <1>9, <1>10, <1>11, <1>12
<1> QED
  BY <1>1, <1>13

LEMMA SumEqual ==
  ASSUME NEW F, NEW G, NEW S, IsFiniteSet(S), \A k \in S : F[k] = G[k], \A k \in S : F[k] \in Int
  PROVE  SumF(F, S) = SumF(G, S)
<1> DEFINE i == [k \in S |-> k]
<1>1. \A k \in S : i[k] = k
  OBVIOUS
<1> HIDE DEF i
<1>2. SumF(F, S) = SumF(G, {i[k] : k \in S})
  BY <1>1, SumReindex
<1>3. {i[k] : k \in S} = S
  BY <1>1
<1> QED
  BY <1>2, <1>3

\* The sums of disjoint sets add up.
LEMMA SumUnion ==
  ASSUME NEW F, NEW A, IsFiniteSet(A), NEW B, IsFiniteSet(B), A \cap B = {},
         \A k \in A \cup B : F[k] \in Int
  PROVE  SumF(F, A \cup B) = SumF(F, A) + SumF(F, B)
<1> DEFINE T == {t \in SUBSET B : SumF(F, A \cup t) # SumF(F, A) + SumF(F, t)}
<1> SUFFICES ASSUME T # {} PROVE FALSE
  OBVIOUS
<1>1. PICK t \in T : \A u \in T : u \subseteq t => u = t
  <2> T \subseteq SUBSET B
    OBVIOUS
  <2> HIDE DEF T
  <2> QED
    BY SmallestSubset
<1>2. t \subseteq B /\ IsFiniteSet(t)
  BY FS_Subset
<1>3. SumF(F, A) \in Int
  BY SumType
<1>4. ASSUME t = {} PROVE FALSE
  <2>1. A \cup t = A
    BY <1>4
  <2>2. SumF(F, t) = 0
    BY <1>4, SumEmpty
  <2>3. SumF(F, A \cup t) # SumF(F, A) + SumF(F, t)
    OBVIOUS
  <2>4. SumF(F, A) + SumF(F, t) = SumF(F, A)
    BY <1>3, <2>2
  <2> QED
    BY <2>1, <2>3, <2>4
<1>5. PICK x \in t : TRUE
  BY <1>4
<1> DEFINE u == t \ {x}
           C == A \cup u
<1>6. u \notin T /\ u \subseteq B
  BY <1>1, <1>2, <1>5
<1>7. SumF(F, C) = SumF(F, A) + SumF(F, u)
  BY <1>6
<1>8. IsFiniteSet(u) /\ IsFiniteSet(C) /\ x \notin C /\ C \cup {x} = A \cup t
      /\ \A k \in C \cup {x} : F[k] \in Int
  <2>1. IsFiniteSet(u)
    BY <1>2, FS_Subset
  <2>2. IsFiniteSet(C)
    <3> HIDE DEF u
    <3> QED
      BY <2>1, FS_Union
  <2> QED
    BY <1>2, <1>5, <2>1, <2>2
<1>9. SumF(F, t) = F[x] + SumF(F, u)
  BY <1>2, <1>5, SumRemove
<1>10. SumF(F, C \cup {x}) = F[x] + SumF(F, C)
  <2> HIDE DEF C
  <2> QED
    BY <1>8, SumAdd
<1>11. SumF(F, u) \in Int /\ F[x] \in Int
  <2>1. \A k \in u : F[k] \in Int
    BY <1>8
  <2> HIDE DEF u
  <2> QED
    BY <1>2, <1>5, <1>8, <2>1, SumType
<1> HIDE DEF u, C
<1>12. SumF(F, A \cup t) = SumF(F, A) + SumF(F, t)
  <2>1. SumF(F, A \cup t) = F[x] + SumF(F, C)
    BY <1>8, <1>10
  <2> HIDE DEF T
  <2> QED
    BY <1>3, <1>7, <1>9, <1>11, <2>1
<1> QED
  BY <1>1, <1>12

\* A set that lacks an element with a positive value has a smaller sum.
LEMMA SumStrict ==
  ASSUME NEW F, NEW S, IsFiniteSet(S), \A k \in S : F[k] \in Nat,
         NEW A, A \subseteq S, NEW y \in S \ A, F[y] > 0
  PROVE  SumF(F, A) < SumF(F, S)
<1> DEFINE B == S \ A
<1>1. IsFiniteSet(A) /\ IsFiniteSet(B) /\ A \cup B = S /\ A \cap B = {} /\ y \in B
  BY FS_Subset
<1>2. IsFiniteSet(B \ {y})
  BY <1>1, FS_Subset
<1> HIDE DEF B
<1>3. SumF(F, S) = SumF(F, A) + SumF(F, B)
  BY <1>1, SumUnion
<1>4. SumF(F, B) = F[y] + SumF(F, B \ {y})
  BY <1>1, SumRemove
<1>5. SumF(F, A) \in Nat /\ SumF(F, B \ {y}) \in Nat
  BY <1>1, <1>2, SumNat
<1> QED
  BY <1>3, <1>4, <1>5

-----------------------------------------------------------------------------
(* The k-th data record and the chunks in it. *)

LEMMA EveryNatural ==
  ASSUME NEW S, 0 \in S, \A n \in Nat : n \in S => n + 1 \in S
  PROVE  \A n \in Nat : n \in S
<1> DEFINE T == Nat \ S
<1> SUFFICES ASSUME T # {} PROVE FALSE
  OBVIOUS
<1>1. PICK n \in T : \A m \in T : n <= m
  <2> T \subseteq Nat
    OBVIOUS
  <2> HIDE DEF T
  <2> QED
    BY LeastNatural
<1>2. n \in Nat /\ n # 0
  OBVIOUS
<1>3. n - 1 \in Nat /\ n - 1 \in S
  BY <1>1, <1>2
<1>4. n \in S
  BY <1>3
<1> QED
  BY <1>4

LEMMA RecordFacts ==
  ASSUME NEW f, HexFile(f), NEW d \in DataLines(f)
  PROVE  /\ d \in Nat /\ d >= 1 /\ d \in DOMAIN f
         /\ f[d].len \in 1..16 /\ f[d].sum[1] \in Nat /\ f[d].sum[2] \in Nat
         /\ f[d].len <= 8 => f[d].sum[2] = 0
         /\ f[d].len < 16 => \A m \in DataLines(f) : m <= d
         /\ Short(f, d) <=> f[d].len <= 8
<1>1. d \in DOMAIN f /\ f[d] \in HexRecord /\ DOMAIN f = 1..Len(f) /\ Len(f) \in Nat
  BY DEF HexFile, DataLines
<1>2. f[d].len > 0 /\ f[d].len <= 8 => f[d].sum[2] = 0
  BY DEF HexFile, CAN_DATA_LEN
<1>3. f[d].len < 16 => \A m \in DataLines(f) : m <= d
  BY DEF HexFile, HEX_DATA_RECORD_LEN
<1>4. f[d].len \in 0..16 /\ f[d].sum \in [1..2 -> Nat]
  BY <1>1 DEF HexRecord, HEX_DATA_RECORD_LEN
<1> QED
  BY <1>1, <1>2, <1>3, <1>4 DEF Short, CAN_DATA_LEN, HexFile

LEMMA RankRange ==
  ASSUME NEW f, HexFile(f), NEW d \in DataLines(f)
  PROVE  DataLinesTo(f, d) \in 1..Cardinality(DataLines(f))
<1> DEFINE D == {e \in DataLines(f) : e <= d}
<1>1. d \in Nat
  BY RecordFacts
<1>2. DataLinesTo(f, d) \in Nat /\ DataLinesTo(f, d) <= Cardinality(DataLines(f))
      /\ Cardinality(DataLines(f)) \in Nat
  BY <1>1, AllDataLines, DataLinesFinite
<1>3. IsFiniteSet(D) /\ d \in D
  BY <1>1, DataLinesFinite
<1>4. Cardinality(D) # 0
  <2> HIDE DEF D
  <2> QED
    BY <1>3, FS_EmptySet
<1> QED
  BY <1>2, <1>4 DEF DataLinesTo

LEMMA RankIncreases ==
  ASSUME NEW f, HexFile(f), NEW d \in DataLines(f), NEW e \in DataLines(f), d < e
  PROVE  DataLinesTo(f, d) < DataLinesTo(f, e)
<1> DEFINE D == {m \in DataLines(f) : m <= d}
           E == {m \in DataLines(f) : m <= e}
<1>1. d \in Nat /\ e \in Nat /\ DataLines(f) \subseteq Nat
  BY RecordFacts
<1>2. IsFiniteSet(E) /\ DataLinesTo(f, e) \in Nat /\ DataLinesTo(f, d) \in Nat
  BY <1>1, DataLinesFinite
<1>3. D \in SUBSET E /\ e \in E /\ e \notin D
  BY <1>1
<1>4. DataLinesTo(f, d) = Cardinality(D) /\ DataLinesTo(f, e) = Cardinality(E)
  BY DEF DataLinesTo
<1> HIDE DEF D, E
<1>5. Cardinality(D) <= Cardinality(E) /\ (Cardinality(E) = Cardinality(D) => E = D)
  BY <1>2, <1>3, FS_Subset
<1> QED
  BY <1>2, <1>3, <1>4, <1>5

LEMMA RankIsUnique ==
  ASSUME NEW f, HexFile(f), NEW d \in DataLines(f), NEW e \in DataLines(f),
         DataLinesTo(f, d) = DataLinesTo(f, e)
  PROVE  d = e
<1>1. /\ d \in Nat /\ e \in Nat
      /\ DataLinesTo(f, d) \in Int /\ DataLinesTo(f, e) \in Int
  BY RecordFacts, RankRange
<1>2. CASE d < e
  BY <1>1, <1>2, RankIncreases
<1>3. CASE e < d
  BY <1>1, <1>3, RankIncreases
<1> QED
  BY <1>1, <1>2, <1>3

LEMMA EveryRank ==
  ASSUME NEW f, HexFile(f), NEW r \in 1..Cardinality(DataLines(f))
  PROVE  \E d \in DataLines(f) : DataLinesTo(f, d) = r
<1> DEFINE D == DataLines(f)
           n == Cardinality(D)
           rank == [d \in D |-> DataLinesTo(f, d)]
<1>1. IsFiniteSet(D) /\ n \in Nat
  BY AllDataLines
<1>2. rank \in Injection(D, 1..n)
  <2>1. rank \in [D -> 1..n]
    BY RankRange
  <2>2. \A d, e \in D : rank[d] = rank[e] => d = e
    BY RankIsUnique
  <2> QED
    BY <2>1, <2>2 DEF Injection, IsInjective
<1>3. IsFiniteSet(1..n) /\ Cardinality(1..n) = n
  BY <1>1, FS_Interval
<1>4. rank \in Surjection(D, 1..n)
  <2> HIDE DEF rank
  <2> QED
    BY <1>1, <1>2, <1>3, FS_Injection
<1>5. \E d \in D : rank[d] = r
  BY <1>4 DEF Surjection
<1> QED
  BY <1>5

LineAt(f, r) == CHOOSE d \in DataLines(f) : DataLinesTo(f, d) = r

LEMMA LineAtRank ==
  ASSUME NEW f, HexFile(f), NEW r \in 1..Cardinality(DataLines(f))
  PROVE  /\ LineAt(f, r) \in DataLines(f)
         /\ DataLinesTo(f, LineAt(f, r)) = r
BY EveryRank DEF LineAt

\* A short or unfilled record is the last one.
LEMMA LastLine ==
  ASSUME NEW f, HexFile(f), NEW d \in DataLines(f), f[d].len < 16
  PROVE  DataLinesTo(f, d) = Cardinality(DataLines(f))
<1>1. d \in Nat /\ \A m \in DataLines(f) : m <= d
  BY RecordFacts
<1> QED
  BY <1>1, AllDataLines

LEMMA FileChunkIs ==
  ASSUME NEW f, HexFile(f), NEW d \in DataLines(f), NEW h \in 1..2,
         ChunkNumber(f, Chunk(d, h)) <= ChunkCount(f)
  PROVE  FileChunk(f, ChunkNumber(f, Chunk(d, h))) = Chunk(d, h)
<1> DEFINE k == ChunkNumber(f, Chunk(d, h))
           found == {c \in {Chunk(e, g) : e \in DataLines(f), g \in 1..2} : ChunkNumber(f, c) = k}
<1>1. Chunk(d, h) \in found
  OBVIOUS
<1>2. ASSUME NEW c \in found PROVE c = Chunk(d, h)
  <2>1. PICK e \in DataLines(f), g \in 1..2 : c = Chunk(e, g)
    OBVIOUS
  <2>2. 2 * DataLinesTo(f, e) - (2 - g) = 2 * DataLinesTo(f, d) - (2 - h)
    BY <2>1 DEF ChunkNumber, Chunk
  <2>3. DataLinesTo(f, e) \in Int /\ DataLinesTo(f, d) \in Int
    BY RankRange
  <2>4. DataLinesTo(f, e) = DataLinesTo(f, d) /\ g = h
    BY <2>2, <2>3
  <2> QED
    BY <2>1, <2>4, RankIsUnique
<1>3. (CHOOSE c \in found : TRUE) = Chunk(d, h)
  <2> HIDE DEF found
  <2> QED
    BY <1>1, <1>2
<1> QED
  BY <1>3 DEF FileChunk

\* The two chunks of the r-th record, the second of which a short record lacks.
LEMMA ChunksOfLine ==
  ASSUME NEW f, HexFile(f), NEW r \in 1..Cardinality(DataLines(f))
  PROVE  /\ FileChunk(f, 2 * r - 1) = Chunk(LineAt(f, r), 1)
         /\ FileChunk(f, 2 * r) = IF Short(f, LineAt(f, r)) THEN Filler
                                  ELSE Chunk(LineAt(f, r), 2)
<1> DEFINE d == LineAt(f, r)
           n == Cardinality(DataLines(f))
<1>1. d \in DataLines(f) /\ DataLinesTo(f, d) = r /\ n \in Nat
  BY LineAtRank, AllDataLines
<1>2. ChunkNumber(f, Chunk(d, 1)) = 2 * r - 1 /\ ChunkNumber(f, Chunk(d, 2)) = 2 * r
  BY <1>1 DEF ChunkNumber, Chunk
<1>3. ChunkCount(f) \in {2 * n - 1, 2 * n}
  BY <1>1 DEF ChunkCount
<1> HIDE DEF d
<1>4. FileChunk(f, 2 * r - 1) = Chunk(d, 1)
  <2>1. 2 * r - 1 <= ChunkCount(f)
    BY <1>1, <1>3
  <2> QED
    BY <1>1, <1>2, <2>1, FileChunkIs
<1>5. CASE Short(f, d)
  <2>1. r = n
    BY <1>1, <1>5, LastLine, RecordFacts
  <2>2. ChunkCount(f) = 2 * n - 1
    BY <1>1, <1>5 DEF ChunkCount, Short
  <2>3. ~ (2 * r <= ChunkCount(f))
    BY <1>1, <2>1, <2>2
  <2>4. FileChunk(f, 2 * r) = Filler
    BY <2>3 DEF FileChunk
  <2> QED
    BY <1>4, <1>5, <2>4 DEF d
<1>6. CASE ~Short(f, d)
  <2>1. 2 * r <= ChunkCount(f)
    <3>1. CASE \E m \in DataLines(f) : Short(f, m)
      <4>1. PICK m \in DataLines(f) : Short(f, m)
        BY <3>1
      <4>2. DataLinesTo(f, m) = n
        BY <4>1, LastLine, RecordFacts
      <4>3. r # n
        BY <1>1, <1>6, <4>1, <4>2, RankIsUnique
      <4> QED
        BY <1>1, <1>3, <4>3
    <3>2. CASE ~\E m \in DataLines(f) : Short(f, m)
      BY <1>1, <3>2 DEF ChunkCount, Short
    <3> QED
      BY <3>1, <3>2
  <2>2. FileChunk(f, 2 * r) = Chunk(d, 2)
    BY <1>1, <1>2, <2>1, FileChunkIs
  <2> QED
    BY <1>4, <1>6, <2>2 DEF d
<1> QED
  BY <1>5, <1>6

LEMMA ChunksBehind ==
  ASSUME NEW f, HexFile(f), NEW r \in Nat, r > Cardinality(DataLines(f))
  PROVE  FileChunk(f, 2 * r - 1) = Filler /\ FileChunk(f, 2 * r) = Filler
<1>1. Cardinality(DataLines(f)) \in Nat
  BY AllDataLines
<1>2. ChunkCount(f) <= 2 * Cardinality(DataLines(f)) /\ ChunkCount(f) \in Int
  BY <1>1 DEF ChunkCount
<1>3. ~(2 * r - 1 <= ChunkCount(f)) /\ ~(2 * r <= ChunkCount(f))
  BY <1>1, <1>2
<1> QED
  BY <1>3 DEF FileChunk

-----------------------------------------------------------------------------
(* Sums over the data records, record by record and chunk by chunk. *)

LEMMA SumZero ==
  ASSUME NEW F, NEW S, IsFiniteSet(S), \A k \in S : F[k] = 0
  PROVE  SumF(F, S) = 0
<1> DEFINE T == {t \in SUBSET S : SumF(F, t) # 0}
<1> SUFFICES ASSUME T # {} PROVE FALSE
  OBVIOUS
<1>1. PICK t \in T : \A u \in T : u \subseteq t => u = t
  <2> T \subseteq SUBSET S
    OBVIOUS
  <2> HIDE DEF T
  <2> QED
    BY SmallestSubset
<1>2. t \subseteq S /\ IsFiniteSet(t) /\ SumF(F, t) # 0
  BY FS_Subset
<1>3. ASSUME t = {} PROVE FALSE
  BY <1>2, <1>3, SumEmpty
<1>4. PICK x \in t : SumF(F, t) = F[x] + SumF(F, t \ {x})
  BY <1>2, <1>3, SumUnfold
<1>5. SumF(F, t \ {x}) = 0
  BY <1>1, <1>2, <1>4
<1> QED
  BY <1>2, <1>4, <1>5

\* The sum of the first numbers, one more at a time, and two at a time.
LEMMA SumNext ==
  ASSUME NEW F, NEW n \in Nat, \A k \in 1..(n + 1) : F[k] \in Int
  PROVE  SumF(F, 1..(n + 1)) = F[n + 1] + SumF(F, 1..n)
<1>1. IsFiniteSet(1..n) /\ (n + 1) \notin 1..n /\ 1..(n + 1) = (1..n) \cup {n + 1}
  BY FS_Interval
<1> QED
  BY <1>1, SumAdd

LEMMA SumInPairs ==
  ASSUME NEW F, \A k \in Nat : F[k] \in Int,
         NEW G, \A p \in Nat : p > 0 => G[p] = F[2 * p - 1] + F[2 * p],
         NEW m \in Nat
  PROVE  SumF(F, 1..(2 * m)) = SumF(G, 1..m)
<1> DEFINE S == {n \in Nat : SumF(F, 1..(2 * n)) = SumF(G, 1..n)}
<1>1. 0 \in S
  <2>1. 1..(2 * 0) = {} /\ 1..0 = {}
    OBVIOUS
  <2> QED
    BY <2>1, SumEmpty
<1>2. ASSUME NEW n \in Nat, n \in S
      PROVE  n + 1 \in S
  <2>1. 2 * (n + 1) = (2 * n + 1) + 1 /\ 2 * n \in Nat /\ 2 * n + 1 \in Nat
    OBVIOUS
  <2>2. SumF(F, 1..(2 * n + 1)) = F[2 * n + 1] + SumF(F, 1..(2 * n))
    BY <2>1, SumNext
  <2>3. SumF(F, 1..((2 * n + 1) + 1)) = F[(2 * n + 1) + 1] + SumF(F, 1..(2 * n + 1))
    BY <2>1, SumNext
  <2>4. SumF(G, 1..(n + 1)) = G[n + 1] + SumF(G, 1..n)
    <3>1. \A p \in 1..(n + 1) : G[p] \in Int
      <4> SUFFICES ASSUME NEW p \in 1..(n + 1) PROVE G[p] \in Int
        OBVIOUS
      <4>1. 2 * p - 1 \in Nat /\ 2 * p \in Nat /\ p > 0 /\ p \in Nat
        OBVIOUS
      <4> QED
        BY <4>1
    <3> QED
      BY <3>1, SumNext
  <2>5. G[n + 1] = F[2 * n + 1] + F[(2 * n + 1) + 1]
    <3>1. 2 * (n + 1) - 1 = 2 * n + 1
      OBVIOUS
    <3>2. G[n + 1] = F[2 * (n + 1) - 1] + F[2 * (n + 1)]
      OBVIOUS
    <3> QED
      BY <2>1, <3>1, <3>2
  <2>6. SumF(F, 1..(2 * n)) \in Int
    <3>1. IsFiniteSet(1..(2 * n)) /\ \A k \in 1..(2 * n) : F[k] \in Int
      BY FS_Interval
    <3> QED
      BY <3>1, SumType
  <2>7. F[2 * n + 1] \in Int /\ F[(2 * n + 1) + 1] \in Int
    OBVIOUS
  <2>8. SumF(F, 1..(2 * n)) = SumF(G, 1..n)
    BY <1>2
  <2>9. SumF(F, 1..(2 * (n + 1))) = SumF(G, 1..(n + 1))
    <3>1. 1..(2 * (n + 1)) = 1..((2 * n + 1) + 1)
      BY <2>1
    <3>2. SumF(F, 1..(2 * (n + 1))) = SumF(F, 1..((2 * n + 1) + 1))
      BY <3>1
    <3>3. SumF(F, 1..((2 * n + 1) + 1))
            = F[(2 * n + 1) + 1] + (F[2 * n + 1] + SumF(F, 1..(2 * n)))
      BY <2>2, <2>3
    <3>4. SumF(G, 1..(n + 1)) = (F[2 * n + 1] + F[(2 * n + 1) + 1]) + SumF(F, 1..(2 * n))
      BY <2>4, <2>5, <2>8
    <3>5. \A a, b, c \in Int : b + (a + c) = (a + b) + c
      OBVIOUS
    <3>6. F[(2 * n + 1) + 1] + (F[2 * n + 1] + SumF(F, 1..(2 * n)))
            = (F[2 * n + 1] + F[(2 * n + 1) + 1]) + SumF(F, 1..(2 * n))
      BY <2>6, <2>7, <3>5
    <3> QED
      BY <3>2, <3>3, <3>4, <3>6
  <2> QED
    BY <2>9
<1> HIDE DEF S
<1>3. m \in S
  BY <1>1, <1>2, EveryNatural
<1> QED
  BY <1>3 DEF S

\* A value of the r-th data record, 0 behind the last one.
OfLines(f, F) ==
  [r \in Nat |-> IF r \in 1..Cardinality(DataLines(f)) THEN F[LineAt(f, r)] ELSE 0]

\* The sum over the records is the sum over their ranks, however far one counts.
LEMMA SumByRank ==
  ASSUME NEW f, HexFile(f), NEW F, \A d \in DataLines(f) : F[d] \in Int,
         NEW m \in Nat, m >= Cardinality(DataLines(f))
  PROVE  SumF(F, DataLines(f)) = SumF(OfLines(f, F), 1..m)
<1> DEFINE D == DataLines(f)
           n == Cardinality(D)
           i == [d \in D |-> DataLinesTo(f, d)]
           G == OfLines(f, F)
<1>1. IsFiniteSet(D) /\ n \in Nat
  BY AllDataLines
<1>2. \A d \in D : i[d] \in 1..n
  BY RankRange
<1>3. \A d, e \in D : i[d] = i[e] => d = e
  BY RankIsUnique
<1>4. ASSUME NEW d \in D PROVE G[i[d]] = F[d]
  <2>1. LineAt(f, i[d]) \in D /\ DataLinesTo(f, LineAt(f, i[d])) = i[d] /\ i[d] = DataLinesTo(f, d)
    BY <1>2, LineAtRank
  <2>2. LineAt(f, i[d]) = d
    BY <2>1, RankIsUnique
  <2> QED
    BY <1>1, <1>2, <2>2 DEF OfLines
<1>5. {i[d] : d \in D} = 1..n
  <2>1. ASSUME NEW r \in 1..n PROVE r \in {i[d] : d \in D}
    BY EveryRank
  <2> QED
    BY <1>2, <2>1
<1> HIDE DEF i, D
<1>6. SumF(F, D) = SumF(G, {i[d] : d \in D})
  <2> HIDE DEF G
  <2> QED
    BY <1>1, <1>3, <1>4, SumReindex DEF D
<1> DEFINE A == 1..n
           B == (n + 1)..m
<1>7. IsFiniteSet(A) /\ IsFiniteSet(B) /\ A \cap B = {} /\ A \cup B = 1..m
  <2>1. n \in Int /\ n + 1 \in Int
    BY <1>1
  <2>2. IsFiniteSet(1..n) /\ IsFiniteSet((n + 1)..m)
    BY <2>1, FS_Interval
  <2>3. n \in Nat /\ n <= m
    BY <1>1 DEF D
  <2>4. A \cap B = {} /\ A \cup B = 1..m
    <3> HIDE DEF n
    <3> QED
      BY <2>3
  <2> QED
    BY <2>2, <2>4
<1>8. (\A k \in A : G[k] \in Int) /\ (\A k \in B : G[k] = 0)
  <2>1. \A k \in A : G[k] \in Int
    <3> SUFFICES ASSUME NEW k \in A PROVE G[k] \in Int
      OBVIOUS
    <3>1. LineAt(f, k) \in DataLines(f)
      BY LineAtRank DEF D
    <3>2. k \in Nat
      BY <1>1
    <3> QED
      BY <3>1, <3>2 DEF OfLines, D
  <2>2. \A k \in B : G[k] = 0
    BY <1>1 DEF OfLines, D
  <2> QED
    BY <2>1, <2>2
<1>9. SumF(G, 1..m) = SumF(G, A) + SumF(G, B) /\ SumF(G, B) = 0 /\ SumF(G, A) \in Int
  <2> HIDE DEF A, B, G
  <2>1. SumF(G, A \cup B) = SumF(G, A) + SumF(G, B)
    BY <1>7, <1>8, SumUnion
  <2>2. SumF(G, B) = 0 /\ SumF(G, A) \in Int
    BY <1>7, <1>8, SumZero, SumType
  <2> QED
    BY <1>7, <2>1, <2>2
<1> QED
  <2>1. SumF(F, D) = SumF(G, 1..n)
    BY <1>5, <1>6
  <2>2. SumF(F, D) = SumF(G, 1..m)
    <3> HIDE DEF G
    <3> QED
      BY <1>9, <2>1
  <2> QED
    BY <2>2 DEF D

SumsOf(f) == [d \in DataLines(f) |-> f[d].sum[1] + f[d].sum[2]]
LensOf(f) == [d \in DataLines(f) |-> f[d].len]

LEMMA SumsOverLines ==
  ASSUME NEW f, HexFile(f)
  PROVE  /\ DataSize(f) = SumF(LensOf(f), DataLines(f))
         /\ TotalChecksum(f) = SumF(SumsOf(f), DataLines(f))
         /\ DataSize(f) \in Nat /\ TotalChecksum(f) \in Nat
<1>1. IsFiniteSet(DataLines(f))
  BY AllDataLines
<1>2. DataSize(f) = SumF(LensOf(f), DataLines(f))
  <2> DEFINE S == DataLines(f)
             Table(h) == h = [s \in SUBSET S |->
                                IF s = {} THEN 0
                                ELSE LET x == CHOOSE e \in s : TRUE
                                     IN f[x].len + h[s \ {x}]]
             it == CHOOSE h : Table(h)
  <2>1. \A h : SumTable(LensOf(f), S, h) <=> Table(h)
    BY DEF SumTable, LensOf
  <2>2. \E h : SumTable(LensOf(f), S, h)
    BY <1>1, TableExists
  <2>3. DataSize(f) = it[S]
    BY DEF DataSize, MapThenSumSet, MapThenFoldSet
  <2> HIDE DEF Table
  <2>4. Table(it)
    BY <2>1, <2>2
  <2> HIDE DEF it
  <2> QED
    BY <1>1, <2>1, <2>3, <2>4, SumIsTable
<1>3. TotalChecksum(f) = SumF(SumsOf(f), DataLines(f))
  <2> DEFINE S == DataLines(f)
             Table(h) == h = [s \in SUBSET S |->
                                IF s = {} THEN 0
                                ELSE LET x == CHOOSE e \in s : TRUE
                                     IN f[x].sum[1] + f[x].sum[2] + h[s \ {x}]]
             it == CHOOSE h : Table(h)
  <2>1. \A h : SumTable(SumsOf(f), S, h) <=> Table(h)
    BY DEF SumTable, SumsOf
  <2>2. \E h : SumTable(SumsOf(f), S, h)
    BY <1>1, TableExists
  <2>3. TotalChecksum(f) = it[S]
    BY DEF TotalChecksum, MapThenSumSet, MapThenFoldSet
  <2> HIDE DEF Table
  <2>4. Table(it)
    BY <2>1, <2>2
  <2> HIDE DEF it
  <2> QED
    BY <1>1, <2>1, <2>3, <2>4, SumIsTable
<1>4. \A d \in DataLines(f) : LensOf(f)[d] \in Nat /\ SumsOf(f)[d] \in Nat
  BY RecordFacts DEF LensOf, SumsOf
<1> QED
  BY <1>1, <1>2, <1>3, <1>4, SumNat
=============================================================================
