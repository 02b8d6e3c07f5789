----------------------------- MODULE HexUtility -----------------------------
(***************************************************************************)
(* The hex file reader of kinetek-util (HexUtility.cpp).                   *)
(*                                                                         *)
(* A file is a sequence of records, one per line.  A record keeps what the *)
(* reader tells apart: its type, its number of data bytes, the byte sums   *)
(* of its first eight and of its remaining data bytes, and whether its own *)
(* checksum field is right.  Eight data bytes of a record, one CAN frame's *)
(* worth, are a chunk [line, half]; Filler is a frame of 0xFF bytes.       *)
(*                                                                         *)
(* The reader object is a record `ut': curr_line is the number of the line *)
(* held in the string curr_line (0 for ""), which is also the number of    *)
(* lines taken from the stream while the file is open.                     *)
(***************************************************************************)
EXTENDS Integers, Sequences, FiniteSets, FiniteSetsExt

CAN_DATA_LEN == 8
HEX_DATA_RECORD_LEN == 16
PACKET_SIZE == 32
FRAMES == PACKET_SIZE \div CAN_DATA_LEN

RecordType == {"DATA", "END_OF_FILE", "EXTENDED_SEGMENT_AR",
               "EXTENDED_LINEAR_AR", "START_LINEAR_AR"}

HexRecord == [type : RecordType, len : 0..HEX_DATA_RECORD_LEN,
              sum : [1..2 -> Nat], valid : BOOLEAN]

DataLines(f) == {n \in DOMAIN f : f[n].type = "DATA"}
EndsData(f, n) == f[n].type \in {"END_OF_FILE", "START_LINEAR_AR"}

\* The files the class is written for: "this class assumes that the hex file
\* data records are 16 bytes long" (HexUtility.h:25), of which only the last one
\* may be shorter; the data ends with the first record that ends data.
HexFile(f) ==
  /\ f \in Seq(HexRecord)
  /\ f # <<>>
  /\ EndsData(f, Len(f))
  /\ \A n \in DOMAIN f : \A d \in DataLines(f) : EndsData(f, n) => d < n
  /\ \A d \in DataLines(f) :
        /\ f[d].len > 0
        /\ f[d].len < HEX_DATA_RECORD_LEN => \A m \in DataLines(f) : m <= d
        /\ f[d].len <= CAN_DATA_LEN => f[d].sum[2] = 0
  /\ \A n \in DOMAIN f \ DataLines(f) :
        EndsData(f, n) \/ \E d \in DataLines(f) : d > n

-----------------------------------------------------------------------------
(* load_hex_file_data *)

\* The lines whose checksum the loading loop compares: the record after a
\* leading extended linear address record is fetched inside the loop body.
CheckedLines(f) ==
  {n \in DOMAIN f : n = 2 => f[1].type # "EXTENDED_LINEAR_AR"}

Loads(f) == \A n \in CheckedLines(f) : f[n].valid

DataSize(f) == MapThenSumSet(LAMBDA d : f[d].len, DataLines(f))
TotalChecksum(f) == MapThenSumSet(LAMBDA d : f[d].sum[1] + f[d].sum[2], DataLines(f))

-----------------------------------------------------------------------------
(* get_next_8_bytes *)

Chunk(d, h) == [line |-> d, half |-> h]
Filler == Chunk(0, 0)
ChunkSum(f, c) == IF c = Filler THEN 0 ELSE f[c.line].sum[c.half]

NewReader == [curr_line |-> 0, is_first_8 |-> TRUE, is_eof |-> FALSE, is_open |-> FALSE]

\* The line the call looks at: the next line of the stream, which is opened at
\* its first line when it is closed, or the line kept from the last call.
LineRead(h) ==
  IF ~h.is_first_8 THEN h.curr_line
  ELSE IF h.is_open THEN h.curr_line + 1
  ELSE 1

\* The call returns -1 and closes the file.
M_AtEnd(f, h) == f[LineRead(h)].type # "DATA"
AtEnd(f, h) == EndsData(f, LineRead(h))
AfterEnd(h) == [curr_line |-> LineRead(h), is_first_8 |-> h.is_first_8,
                is_eof |-> TRUE, is_open |-> FALSE]

\* Otherwise it returns the next half of the data record it finds there or
\* skips to; a record that fits one frame is left behind at once.
DataLineRead(f, h) == Min({d \in DataLines(f) : d >= LineRead(h)})
NextChunk(f, h) == Chunk(DataLineRead(f, h), IF h.is_first_8 THEN 1 ELSE 2)
M_AfterChunk(f, h) ==
  [curr_line |-> DataLineRead(f, h), is_first_8 |-> ~h.is_first_8,
   is_eof |-> h.is_eof, is_open |-> TRUE]
AfterChunk(f, h) ==
  LET d == DataLineRead(f, h)
      whole == h.is_first_8 /\ f[d].len <= CAN_DATA_LEN
  IN  [curr_line |-> IF whole THEN d + 1 ELSE d, is_first_8 |-> ~h.is_first_8,
       is_eof |-> h.is_eof, is_open |-> TRUE]

-----------------------------------------------------------------------------
(* The position of the reader, in chunks, and the chunks of a file. *)

DataLinesTo(f, n) == Cardinality({d \in DataLines(f) : d <= n})
Position(f, h) == 2 * DataLinesTo(f, h.curr_line) - (IF h.is_first_8 THEN 0 ELSE 1)
ChunkNumber(f, c) == 2 * DataLinesTo(f, c.line) - (2 - c.half)

ChunkCount(f) ==
  2 * Cardinality(DataLines(f))
    - (IF \E d \in DataLines(f) : f[d].len <= CAN_DATA_LEN THEN 1 ELSE 0)

\* The k-th chunk of the data, with fillers behind the last one, and the p-th packet.
FileChunk(f, k) ==
  LET found == {c \in {Chunk(d, h) : d \in DataLines(f), h \in 1..2} : ChunkNumber(f, c) = k}
  IN  IF k <= ChunkCount(f) THEN CHOOSE c \in found : TRUE ELSE Filler
FilePacket(f, p) == [i \in 1..FRAMES |-> FileChunk(f, FRAMES * (p - 1) + i)]
FilePackets(f) == (ChunkCount(f) + FRAMES - 1) \div FRAMES
=============================================================================
