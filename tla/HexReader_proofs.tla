-------------------------- MODULE HexReader_proofs --------------------------
(***************************************************************************)
(* Theorems about the life of a HexUtility object, for every set of well-  *)
(* formed files of any length: the two passes over a file agree, a second  *)
(* load works, and the reader implements ChunkStream.                      *)
(***************************************************************************)
EXTENDS HexReader, HexUtility_proofs

IInv ==
  /\ TypeOK
  /\ Reader(file, ut)
  /\ Halfway(file, ut)
  /\ phase = "new" => ut = NewReader
  /\ phase = "exit" => ~Loads(file)
  /\ ut.is_eof => Position(file, ut) = ChunkCount(file)
  /\ answer = -1 => ut.is_eof

-----------------------------------------------------------------------------
(* The inductive invariant. *)

LEMMA FileIsHexFile ==
  ASSUME file \in Files
  PROVE  HexFile(file)
BY FilesAssumption

\* A reset reader is as good as a new one, for any file.
LEMMA NewReaderFits ==
  ASSUME NEW f, HexFile(f)
  PROVE  /\ NewReader \in [curr_line : 0..Len(f), is_first_8 : BOOLEAN,
                           is_eof : BOOLEAN, is_open : BOOLEAN]
         /\ ~NewReader.is_open /\ ~NewReader.is_eof
         /\ Reader(f, NewReader) /\ Halfway(f, NewReader)
<1>1. Len(f) \in Nat
  BY DEF HexFile
<1> QED
  BY <1>1, NewReaderAtStart DEF NewReader, Halfway

LEMMA InitEstablishes == Init => IInv
<1> SUFFICES ASSUME Init PROVE IInv
  OBVIOUS
<1>1. file \in Files /\ HexFile(file)
  BY FileIsHexFile DEF Init
<1> QED
  BY <1>1, NewReaderFits DEF Init, IInv, TypeOK

LEMMA StepKeeps == IInv /\ [Next]_vars => IInv'
<1> SUFFICES ASSUME IInv, [Next]_vars PROVE IInv'
  OBVIOUS
<1> USE DEF IInv
<1>1. file \in Files /\ HexFile(file) /\ phase \in {"new", "loaded", "exit"}
  BY FileIsHexFile DEF TypeOK
<1>2. CASE LoadHexFileData
  <2>1. file' = file /\ ut' = ut /\ answer' = answer
    BY <1>2 DEF LoadHexFileData
  <2>2. ~ut.is_open
    BY <1>2 DEF LoadHexFileData, NewReader
  <2>3. phase' \in {"loaded", "exit"} /\ (phase' = "exit" => ~Loads(file))
    BY <1>2, <2>2 DEF LoadHexFileData
  <2>4. TypeOK'
    BY <2>1, <2>3 DEF TypeOK
  <2> QED
    BY <2>1, <2>3, <2>4
<1>3. CASE ~ut.is_eof /\ ReadChunk
  <2>1. /\ file' = file /\ phase' = "loaded" /\ ut' = AfterChunk(file, ut)
        /\ answer' = ChunkNumber(file, NextChunk(file, ut)) /\ ~AtEnd(file, ut)
    BY <1>3 DEF ReadChunk
  <2>2. Reader(file, ut')
    BY <1>1, <2>1, OneChunkForward
  <2>3. /\ ut' \in [curr_line : 0..Len(file), is_first_8 : BOOLEAN,
                    is_eof : BOOLEAN, is_open : BOOLEAN]
        /\ ut'.curr_line > 0 /\ ~ut'.is_eof /\ Halfway(file, ut')
    BY <1>1, <1>3, <2>1, ChunkKeepsHalfway
  <2>4. answer' \in Nat
    <3>1. answer' = Position(file, ut) + 1
      BY <1>1, <1>3, <2>1, OneChunkForward
    <3>2. ut.curr_line \in Nat /\ ut.is_first_8 \in BOOLEAN
      BY <1>1 DEF Reader, HexFile
    <3>3. DataLinesTo(file, ut.curr_line) \in Nat
      BY <1>1, <3>2, DataLinesFinite
    <3>4. ~ut.is_first_8 => DataLinesTo(file, ut.curr_line) > 0
      <4> SUFFICES ASSUME ~ut.is_first_8 PROVE DataLinesTo(file, ut.curr_line) > 0
        OBVIOUS
      <4> DEFINE D == {m \in DataLines(file) : m <= ut.curr_line}
      <4>1. ut.curr_line \in DataLines(file)
        BY <1>3, <2>1 DEF Reader, LineRead, AtEnd
      <4>2. IsFiniteSet(D) /\ ut.curr_line \in D
        BY <1>1, <3>2, <4>1, DataLinesFinite
      <4> HIDE DEF D
      <4>3. Cardinality(D) # 0
        BY <4>2, FS_EmptySet
      <4> QED
        BY <3>3, <4>3 DEF D, DataLinesTo
    <3> QED
      BY <3>1, <3>2, <3>3, <3>4 DEF Position
  <2>5. TypeOK'
    BY <1>1, <2>1, <2>3, <2>4 DEF TypeOK
  <2> QED
    BY <2>1, <2>2, <2>3, <2>4, <2>5
<1>4. CASE ~ut.is_eof /\ ReadEnd
  <2>1. file' = file /\ phase' = "loaded" /\ ut' = AfterEnd(ut) /\ answer' = -1 /\ AtEnd(file, ut)
    BY <1>4 DEF ReadEnd
  <2>2. Reader(file, ut') /\ ut'.is_eof
    BY <1>1, <2>1, EndKeepsReader
  <2>3. Position(file, ut') = ChunkCount(file)
    BY <1>1, <1>4, <2>1, EndOfChunks
  <2>4. /\ ut' \in [curr_line : 0..Len(file), is_first_8 : BOOLEAN,
                    is_eof : BOOLEAN, is_open : BOOLEAN]
        /\ ~ut'.is_open
    BY <2>1, <2>2 DEF AfterEnd, Reader
  <2>5. TypeOK'
    BY <1>1, <2>1, <2>4 DEF TypeOK
  <2> QED
    BY <2>1, <2>2, <2>3, <2>5 DEF Halfway
<1>5. CASE Clear
  <2>1. file' \in Files /\ ut' = NewReader /\ phase' = "new" /\ answer' = 0
    BY <1>5 DEF Clear
  <2>2. HexFile(file')
    BY <2>1, FilesAssumption
  <2>3. /\ ut' \in [curr_line : 0..Len(file'), is_first_8 : BOOLEAN,
                    is_eof : BOOLEAN, is_open : BOOLEAN]
        /\ ~ut'.is_open /\ ~ut'.is_eof
        /\ Reader(file', ut') /\ Halfway(file', ut')
    BY <2>1, <2>2, NewReaderFits
  <2>4. TypeOK'
    BY <2>1, <2>3 DEF TypeOK
  <2> QED
    BY <2>1, <2>3, <2>4
<1>6. CASE UNCHANGED vars
  BY <1>6 DEF vars, TypeOK
<1> QED
  BY <1>2, <1>3, <1>4, <1>5, <1>6 DEF Next, GetNext8Bytes, Exited

LEMMA IInvHolds == Spec => []IInv
BY InitEstablishes, StepKeeps, PTL DEF Spec

-----------------------------------------------------------------------------
\* The object keeps its types whatever is read, cleared and loaded again
\* (HexUtility.cpp:99-206).
THEOREM TypeCorrectness == Spec => []TypeOK
<1>1. IInv => TypeOK
  BY DEF IInv
<1> QED
  BY <1>1, IInvHolds, PTL

\* A second load only ends the program over a bad record
\* (HexUtility.cpp:192-206, 293-297).
THEOREM ReloadAlwaysWorks == Spec => []ReloadWorks
<1>1. IInv => ReloadWorks
  BY DEF IInv, ReloadWorks
<1> QED
  BY <1>1, IInvHolds, PTL

\* When the end is reported, as many chunks were handed out as the loading pass counted
\* (HexUtility.cpp:99-206 against 286-350).
THEOREM EndMeansEverythingRead == Spec => []EndMeansAllRead
<1>1. IInv => EndMeansAllRead
  BY DEF IInv, EndMeansAllRead
<1> QED
  BY <1>1, IInvHolds, PTL

-----------------------------------------------------------------------------
(* The refinement: every step is a step of the stream, or none. *)

LEMMA InitImplements == Init => Stream!Init
<1> SUFFICES ASSUME Init PROVE Stream!Init
  OBVIOUS
<1>1. HexFile(file) /\ ut = NewReader /\ answer = 0
  BY FileIsHexFile DEF Init
<1> QED
  BY <1>1, ChunkCountIsNat, NewReaderAtStart DEF Stream!Init

LEMMA StepImplements == IInv /\ [Next]_vars => [Stream!Next]_(Stream!vars)
<1> SUFFICES ASSUME IInv, [Next]_vars PROVE [Stream!Next]_(Stream!vars)
  OBVIOUS
<1>1. HexFile(file) /\ Reader(file, ut) /\ Halfway(file, ut)
  BY FileIsHexFile DEF IInv, TypeOK
<1>2. CASE LoadHexFileData \/ UNCHANGED vars
  BY <1>2 DEF LoadHexFileData, vars, Stream!vars
<1>3. CASE ~ut.is_eof /\ ReadChunk
  <2>1. /\ file' = file /\ ut' = AfterChunk(file, ut)
        /\ answer' = ChunkNumber(file, NextChunk(file, ut)) /\ ~AtEnd(file, ut)
    BY <1>3 DEF ReadChunk
  <2>2. /\ Position(file, AfterChunk(file, ut)) = Position(file, ut) + 1
        /\ ChunkNumber(file, NextChunk(file, ut)) = Position(file, ut) + 1
    BY <1>1, <1>3, <2>1, OneChunkForward
  <2>3. Position(file, ut) < ChunkCount(file)
    BY <1>1, <1>3, <2>1, ChunkLeft
  <2> QED
    BY <2>1, <2>2, <2>3 DEF Stream!Next, Stream!Deliver
<1>4. CASE ~ut.is_eof /\ ReadEnd
  <2>1. file' = file /\ ut' = AfterEnd(ut) /\ answer' = -1 /\ AtEnd(file, ut)
    BY <1>4 DEF ReadEnd
  <2>2. Position(file, ut) = ChunkCount(file) /\ Position(file, AfterEnd(ut)) = Position(file, ut)
    BY <1>1, <1>4, <2>1, EndOfChunks
  <2> QED
    BY <2>1, <2>2 DEF Stream!Next, Stream!End
<1>5. CASE Clear
  <2>1. file' \in Files /\ ut' = NewReader /\ answer' = 0
    BY <1>5 DEF Clear
  <2>2. HexFile(file')
    BY <2>1, FilesAssumption
  <2> QED
    BY <2>1, <2>2, ChunkCountIsNat, NewReaderAtStart DEF Stream!Next, Stream!Restart
<1> QED
  BY <1>2, <1>3, <1>4, <1>5 DEF Next, GetNext8Bytes, Exited

\* The reader delivers every chunk of the file once and in order, then -1, for every
\* well-formed file (HexUtility.cpp:99-206).
THEOREM ReaderImplementsStream == Spec => ImplementsStream
BY InitImplements, StepImplements, IInvHolds, PTL DEF Spec, ImplementsStream, Stream!Spec
=============================================================================
