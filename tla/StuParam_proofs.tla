-------------------------- MODULE StuParam_proofs --------------------------
(***************************************************************************)
(* Theorems about the STU parameters, for any numbers of rows, files,      *)
(* memories and faults: a read that succeeds is the EEPROM, a write leaves *)
(* no row out, validation accepts the good files, and every step of a call *)
(* brings it nearer to its return.                                         *)
(***************************************************************************)
EXTENDS StuParam, HexUtility_proofs, SequenceTheorems

HalfA(n) == SubSeq(eeprom[n], 1, Half)
HalfB(n) == SubSeq(eeprom[n], Half + 1, ROW_SIZE)

IsA(m) == m.id = "EEPROM_LINE_READ_A_RESPONSE"
IsB(m) == m.id = "EEPROM_LINE_READ_B_RESPONSE"
IsAck(m) == m.id = "EEPROM_LINE_WRITE_RESPONSE"
IsValue(m) == m.id = "SINGLE_STU_PARAM_READ_A_RESPONSE"

(* What the frames on their way say. *)

NoHalves(s) == \A i \in DOMAIN s : ~IsA(s[i]) /\ ~IsB(s[i])

\* The halves of the row that was asked for, and nothing after a second one.
HalvesOf(s, n) ==
  /\ \A i \in DOMAIN s : IsA(s[i]) => s[i].data = HalfA(n)
  /\ \A i \in DOMAIN s : IsB(s[i]) => s[i].data = HalfB(n)
  /\ \A i, j \in DOMAIN s : (i < j /\ IsB(s[i])) => ~IsA(s[j]) /\ ~IsB(s[j])

RowIsStored(n) == eeprom[n] = file.lines[n].data

NoAcks(s) == \A i \in DOMAIN s : ~IsAck(s[i])

\* The confirmation of the row that was sent, once and only if it is stored.
AckOf(s, n) ==
  /\ \A i \in DOMAIN s : IsAck(s[i]) => RowIsStored(n)
  /\ \A i, j \in DOMAIN s : (i < j /\ IsAck(s[i])) => ~IsAck(s[j])

\* Whatever call it answers, a frame has the data of its kind.
HalfRow == [1..Half -> 0..255]
HasData(m) ==
  /\ IsValue(m) => m.data[1] \in Values
  /\ IsA(m) \/ IsB(m) => m.data \in HalfRow
Readable(s) == \A i \in DOMAIN s : HasData(s[i])

(* Where a call is, and what it has done by then. *)

Reading == {"read_row", "read_a", "read_b", "output"}
Sending == {"write_row", "write_resp"}
Restarting == {"disable", "enable", "error", "error_loop"}
AtHeartbeat == {"heartbeat", "heartbeat_loop"}

InCall ==
  /\ pc \in Reading => op = "read"
  /\ pc \in {"validate"} \cup Sending \cup Restarting => op = "write"
  /\ pc \in AtHeartbeat => op \in {"read", "write"}
  /\ pc \in AtHeartbeat \cup {"validate"} => row = 0 /\ rows = <<>>
  /\ (pc \in AtHeartbeat /\ op = "write") => HasRows(file)
  /\ pc \in Sending \cup Restarting => HasRows(file)
  /\ pc \in Restarting \cup {"output"} => row = NUM_STU_ROWS
  /\ pc # "idle" => status = "NONE"

RowsRead ==
  pc \in Reading =>
    /\ rows \in Seq(Row)
    /\ Len(rows) = row
    /\ "read" \notin failed => \A n \in 0..(row - 1) : rows[n + 1] = eeprom[n]

\* Only a wait that ended without its frame leaves one behind, and then the call failed.
HalvesTell ==
  "read" \notin failed =>
    /\ pc \in {"read_a", "read_b"} => HalvesOf(air, row)
    /\ pc \notin {"read_a", "read_b"} => NoHalves(air)
    /\ pc = "read_b" => respA \in {NO_DATA, HalfA(row)}
AcksTell ==
  "write" \notin failed =>
    /\ pc = "write_resp" => AckOf(air, row)
    /\ pc # "write_resp" => NoAcks(air)
DataTells ==
  /\ Readable(air)
  /\ pc = "read_b" => respA \in HalfRow \cup {NO_DATA}

AirTells == HalvesTell /\ AcksTell /\ DataTells

Outcome ==
  /\ ReadIsEeprom
  /\ (op = "write" /\ status = "STU_FILE_WRITE_SUCCESS") => row = NUM_STU_ROWS

IInv == TypeOK /\ InCall /\ RowsRead /\ AirTells /\ RowsInOrder /\ Outcome

-----------------------------------------------------------------------------
(* Rows and their halves. *)

LEMMA Sizes ==
  /\ ROW_SIZE \in Nat /\ Half \in Nat /\ 1 <= Half /\ Half < ROW_SIZE
  /\ Half + Half = ROW_SIZE
  /\ NUM_STU_ROWS \in Nat /\ NUM_STU_ROWS > 2
<1>1. ROW_SIZE \in {4, 8, 12, 16}
  BY RowSizeAssumption
<1>2. Half \in Nat /\ Half + Half = ROW_SIZE /\ 1 <= Half
  BY <1>1 DEF Half
<1> QED
  BY <1>1, <1>2, RowsAssumption

\* Its two halves make a row whole.
LEMMA TwoHalves ==
  ASSUME NEW r \in Row
  PROVE  /\ SubSeq(r, 1, Half) \in Seq(0..255) \cap HalfRow
         /\ SubSeq(r, Half + 1, ROW_SIZE) \in Seq(0..255) \cap HalfRow
         /\ SubSeq(r, 1, Half) \o SubSeq(r, Half + 1, ROW_SIZE) = r
<1>1. r \in Seq(0..255) /\ Len(r) = ROW_SIZE
  BY Sizes DEF Row, Columns
<1>2. /\ SubSeq(r, 1, Half) \in Seq(0..255) /\ Len(SubSeq(r, 1, Half)) = Half
      /\ SubSeq(r, Half + 1, ROW_SIZE) \in Seq(0..255)
      /\ Len(SubSeq(r, Half + 1, ROW_SIZE)) = Half
  <2>1. \A k \in 1..ROW_SIZE : r[k] \in 0..255
    BY DEF Row, Columns
  <2>2. 1 \in Int /\ Half \in Int /\ \A k \in 1..Half : r[k] \in 0..255
    BY <2>1, Sizes
  <2>3. Half + 1 \in Int /\ ROW_SIZE \in Int /\ \A k \in (Half + 1)..ROW_SIZE : r[k] \in 0..255
    BY <2>1, Sizes
  <2>4. SubSeq(r, 1, Half) \in Seq(0..255) /\ Len(SubSeq(r, 1, Half)) = Half
    BY <2>2, Sizes, SubSeqProperties
  <2>5. /\ SubSeq(r, Half + 1, ROW_SIZE) \in Seq(0..255)
        /\ Len(SubSeq(r, Half + 1, ROW_SIZE)) =
             IF Half + 1 <= ROW_SIZE THEN ROW_SIZE - (Half + 1) + 1 ELSE 0
    BY <2>3, SubSeqProperties
  <2> QED
    BY <2>4, <2>5, Sizes
<1>3. SubSeq(r, 1, Half) \o SubSeq(r, Half + 1, ROW_SIZE) = SubSeq(r, 1, ROW_SIZE)
  <2>1. 1 \in 1..(Len(r) + 1) /\ Half \in (1 - 1)..Len(r) /\ ROW_SIZE \in Half..Len(r)
    BY <1>1, Sizes
  <2> QED
    BY <1>1, <2>1, ConcatAdjacentSubSeq
<1>4. \A t \in Seq(0..255) : Len(t) = Half => t \in HalfRow
  BY LenProperties DEF HalfRow
<1> QED
  BY <1>1, <1>2, <1>3, <1>4, SubSeqFull

\* Any two halves make up a row, be they of the same or not.
LEMMA HalvesMakeRow ==
  ASSUME NEW p \in HalfRow, NEW q \in HalfRow
  PROVE  p \o q \in Row
<1>1. /\ p \in Seq(0..255) /\ Len(p) = Half
      /\ q \in Seq(0..255) /\ Len(q) = Half
  BY Sizes DEF HalfRow
<1>2. p \o q \in Seq(0..255) /\ Len(p \o q) = Half + Half
  BY <1>1, ConcatProperties
<1>3. Len(p \o q) = ROW_SIZE
  BY <1>2, Sizes
<1> QED
  BY <1>2, <1>3, LenProperties DEF Row, Columns

LEMMA BytesAreBytes ==
  ASSUME NEW s \in Seq(0..255)
  PROVE  s \in Seq(Bytes)
BY SeqMonotonic DEF Bytes

-----------------------------------------------------------------------------
(* The frames that are left when some were lost or taken. *)

Thinned(s, t) ==
  /\ t \in Seq(Responses)
  /\ \E h \in [1..Len(t) -> 1..Len(s)] :
       /\ \A k \in 1..Len(t) : t[k] = s[h[k]]
       /\ \A j, k \in 1..Len(t) : j < k => h[j] < h[k]

LEMMA SuffixThins ==
  ASSUME NEW s \in Seq(Responses), NEW i \in 1..Len(s)
  PROVE  /\ Thinned(s, SubSeq(s, i + 1, Len(s)))
         /\ Len(SubSeq(s, i + 1, Len(s))) = Len(s) - i
         /\ \A k \in 1..(Len(s) - i) : SubSeq(s, i + 1, Len(s))[k] = s[k + i]
<1> DEFINE t == SubSeq(s, i + 1, Len(s))
<1>1. Len(s) \in Nat /\ \A k \in 1..Len(s) : s[k] \in Responses
  BY ElementOfSeq, LenProperties
<1>2. /\ t \in Seq(Responses)
      /\ Len(t) = IF i + 1 <= Len(s) THEN Len(s) - (i + 1) + 1 ELSE 0
      /\ \A k \in 1..(Len(s) - (i + 1) + 1) : t[k] = s[(i + 1) + k - 1]
  <2>1. i + 1 \in Int /\ Len(s) \in Int /\ \A k \in (i + 1)..Len(s) : s[k] \in Responses
    BY <1>1
  <2> QED
    BY <2>1, SubSeqProperties
<1> HIDE DEF t
<1>3. Len(t) = Len(s) - i /\ \A k \in 1..(Len(s) - i) : t[k] = s[k + i]
  BY <1>1, <1>2
<1>4. Thinned(s, t)
  <2> DEFINE h == [k \in 1..Len(t) |-> k + i]
  <2>1. h \in [1..Len(t) -> 1..Len(s)]
    BY <1>1, <1>3
  <2>2. \A k \in 1..Len(t) : t[k] = s[h[k]]
    BY <1>3
  <2>3. \A j, k \in 1..Len(t) : j < k => h[j] < h[k]
    BY <1>3
  <2> HIDE DEF h
  <2> QED
    BY <1>2, <2>1, <2>2, <2>3 DEF Thinned
<1> QED
  BY <1>3, <1>4 DEF t

LEMMA AllThins == ASSUME NEW s \in Seq(Responses) PROVE Thinned(s, s)
<1> DEFINE h == [k \in 1..Len(s) |-> k]
<1>1. h \in [1..Len(s) -> 1..Len(s)]
  OBVIOUS
<1>2. /\ \A k \in 1..Len(s) : s[k] = s[h[k]]
      /\ \A j, k \in 1..Len(s) : j < k => h[j] < h[k]
  OBVIOUS
<1> HIDE DEF h
<1> QED
  BY <1>1, <1>2 DEF Thinned

LEMMA LossThins ==
  ASSUME air \in Seq(Responses), LoseFrame
  PROVE  Thinned(air, air')
<1>1. PICK i \in DOMAIN air : air' = SubSeq(air, 1, i - 1) \o SubSeq(air, i + 1, Len(air))
  BY DEF LoseFrame
<1>2. Len(air) \in Nat /\ i \in 1..Len(air) /\ \A k \in 1..Len(air) : air[k] \in Responses
  BY ElementOfSeq, LenProperties
<1> DEFINE s == SubSeq(air, 1, i - 1)
           t == SubSeq(air, i + 1, Len(air))
<1>3. s \in Seq(Responses) /\ Len(s) = i - 1 /\ \A k \in 1..(i - 1) : s[k] = air[k]
  <2>1. 1 \in Int /\ i - 1 \in Int /\ \A k \in 1..(i - 1) : air[k] \in Responses
    BY <1>2
  <2>2. /\ s \in Seq(Responses)
        /\ Len(s) = IF 1 <= i - 1 THEN (i - 1) - 1 + 1 ELSE 0
        /\ \A k \in 1..((i - 1) - 1 + 1) : s[k] = air[1 + k - 1]
    BY <2>1, SubSeqProperties
  <2> HIDE DEF s
  <2> QED
    BY <1>2, <2>2
<1>4. /\ t \in Seq(Responses) /\ Len(t) = Len(air) - i
      /\ \A k \in 1..(Len(air) - i) : t[k] = air[k + i]
  BY <1>2, SuffixThins DEF Thinned
<1> HIDE DEF s, t
<1>5. /\ air' \in Seq(Responses) /\ Len(air') = Len(s) + Len(t)
      /\ \A k \in 1..(Len(s) + Len(t)) : air'[k] = IF k <= Len(s) THEN s[k] ELSE t[k - Len(s)]
  <2>1. air' = s \o t
    BY <1>1 DEF s, t
  <2> QED
    BY <1>3, <1>4, <2>1, ConcatProperties
<1> DEFINE h == [k \in 1..Len(air') |-> IF k < i THEN k ELSE k + 1]
<1>6. Len(air') = Len(air) - 1 /\ i \in Nat
  BY <1>2, <1>3, <1>4, <1>5
<1>7. \A k \in 1..Len(air') : h[k] = IF k < i THEN k ELSE k + 1
  OBVIOUS
<1>8. h \in [1..Len(air') -> 1..Len(air)]
  BY <1>2, <1>6
<1> HIDE DEF h
<1>9. ASSUME NEW k \in 1..Len(air') PROVE air'[k] = air[h[k]]
  <2>1. k \in Nat /\ 1 <= k /\ k <= Len(air) - 1
    BY <1>2, <1>6, <1>9
  <2>2. air'[k] = IF k <= i - 1 THEN s[k] ELSE t[k - (i - 1)]
    BY <1>3, <1>5, <1>9
  <2>3. CASE k < i
    BY <1>3, <1>6, <1>7, <1>9, <2>1, <2>2, <2>3
  <2>4. CASE ~(k < i)
    <3>1. k - (i - 1) \in 1..(Len(air) - i) /\ (k - (i - 1)) + i = k + 1 /\ ~(k <= i - 1)
      BY <1>2, <1>6, <2>1, <2>4
    <3> QED
      BY <1>4, <1>7, <1>9, <2>2, <2>4, <3>1
  <2> QED
    BY <2>3, <2>4
<1>10. \A j, k \in 1..Len(air') : j < k => h[j] < h[k]
  BY <1>2, <1>6, <1>7
<1> QED
  BY <1>5, <1>8, <1>9, <1>10 DEF Thinned

\* A frame that is received was on its way, and what arrived before it is gone.
LEMMA FrameTaken ==
  ASSUME air \in Seq(Responses), NEW id, NEW m, get_frame(id, m)
  PROVE  /\ Thinned(air, air')
         /\ \/ m = NoFrame
            \/ \E i \in 1..Len(air) :
                 /\ m = air[i] /\ air[i].id = id
                 /\ Len(air') = Len(air) - i
                 /\ \A k \in 1..Len(air') : air'[k] = air[k + i]
<1>1. Len(air) \in Nat /\ DOMAIN air = 1..Len(air)
  BY LenProperties
<1>2. CASE Received(id, m)
  <2>1. PICK i \in Waiting(id) : m = air[i] /\ air' = SubSeq(air, i + 1, Len(air))
    BY <1>2 DEF Received
  <2>2. i \in 1..Len(air) /\ air[i].id = id
    BY <1>1, <2>1 DEF Waiting
  <2> QED
    BY <2>1, <2>2, SuffixThins
<1>3. CASE TimedOut(id, m)
  <2>1. m = NoFrame /\ (air' = <<>> \/ air' = air)
    BY <1>3 DEF TimedOut
  <2>2. CASE air' = <<>>
    <3>1. <<>> \in Seq(Responses) /\ Len(<<>>) = 0
      BY EmptySeq
    <3> DEFINE h == [k \in 1..0 |-> k]
    <3>2. h \in [1..0 -> 1..Len(air)] /\ \A k \in 1..0 : FALSE
      OBVIOUS
    <3> HIDE DEF h
    <3>3. air' \in Seq(Responses) /\ Len(air') = 0
      BY <2>2, <3>1
    <3> QED
      BY <2>1, <3>2, <3>3 DEF Thinned
  <2>3. CASE air' = air
    BY <2>1, <2>3, AllThins
  <2> QED
    BY <2>1, <2>2, <2>3
<1> QED
  BY <1>2, <1>3 DEF get_frame

\* What the frames say, fewer of them say as well.
LEMMA FewerTell ==
  ASSUME NEW s \in Seq(Responses), NEW t, Thinned(s, t), NEW n
  PROVE  /\ NoHalves(s) => NoHalves(t)
         /\ HalvesOf(s, n) => HalvesOf(t, n)
         /\ NoAcks(s) => NoAcks(t)
         /\ AckOf(s, n) => AckOf(t, n)
         /\ Readable(s) => Readable(t)
<1>1. PICK h \in [1..Len(t) -> 1..Len(s)] :
        /\ \A k \in 1..Len(t) : t[k] = s[h[k]]
        /\ \A j, k \in 1..Len(t) : j < k => h[j] < h[k]
  BY DEF Thinned
<1>2. t \in Seq(Responses) /\ DOMAIN t = 1..Len(t) /\ DOMAIN s = 1..Len(s)
  BY LenProperties DEF Thinned
<1>3. \A k \in DOMAIN t : h[k] \in DOMAIN s /\ t[k] = s[h[k]]
  BY <1>1, <1>2
<1>4. NoHalves(s) => NoHalves(t)
  BY <1>3 DEF NoHalves
<1>5. HalvesOf(s, n) => HalvesOf(t, n)
  <2>1. SUFFICES ASSUME HalvesOf(s, n) PROVE HalvesOf(t, n)
    OBVIOUS
  <2>2. \A i \in DOMAIN t : /\ IsA(t[i]) => t[i].data = HalfA(n)
                            /\ IsB(t[i]) => t[i].data = HalfB(n)
    BY <1>3, <2>1 DEF HalvesOf
  <2>3. ASSUME NEW i \in DOMAIN t, NEW j \in DOMAIN t, i < j, IsB(t[i])
        PROVE  ~IsA(t[j]) /\ ~IsB(t[j])
    <3>1. h[i] < h[j]
      BY <1>1, <1>2, <2>3
    <3> QED
      BY <1>3, <2>1, <2>3, <3>1 DEF HalvesOf
  <2> QED
    BY <2>2, <2>3 DEF HalvesOf
<1>6. NoAcks(s) => NoAcks(t)
  BY <1>3 DEF NoAcks
<1>7. AckOf(s, n) => AckOf(t, n)
  <2>1. SUFFICES ASSUME AckOf(s, n) PROVE AckOf(t, n)
    OBVIOUS
  <2>2. \A i \in DOMAIN t : IsAck(t[i]) => RowIsStored(n)
    BY <1>3, <2>1 DEF AckOf
  <2>3. ASSUME NEW i \in DOMAIN t, NEW j \in DOMAIN t, i < j, IsAck(t[i])
        PROVE  ~IsAck(t[j])
    <3>1. h[i] < h[j]
      BY <1>1, <1>2, <2>3
    <3> QED
      BY <1>3, <2>1, <2>3, <3>1 DEF AckOf
  <2> QED
    BY <2>2, <2>3 DEF AckOf
<1>8. Readable(s) => Readable(t)
  BY <1>3 DEF Readable
<1> QED
  BY <1>4, <1>5, <1>6, <1>7, <1>8

-----------------------------------------------------------------------------
(* Every kind of step keeps the invariant. *)

LEMMA FaultsCounted ==
  ASSUME faults \in 0..FaultBudget, Fault \/ UNCHANGED faults
  PROVE  faults' \in 0..FaultBudget
BY FaultBudgetAssumption DEF Fault

LEMMA GettingCounts ==
  ASSUME faults \in 0..FaultBudget, NEW id, NEW m, get_frame(id, m)
  PROVE  faults' \in 0..FaultBudget
BY FaultsCounted DEF get_frame, Received, TimedOut

\* The frames' names do not depend on the state, but by the memory and the file.
LEMMA SaidOfNext ==
  /\ NoHalves(air') <=> NoHalves(air)'
  /\ NoAcks(air') <=> NoAcks(air)'
  /\ Readable(air') <=> Readable(air)'
BY DEF NoHalves, NoAcks, Readable, HasData, HalfRow, IsA, IsB, IsAck, IsValue

\* Frames are lost or taken, and the call goes on to a place where it awaits none, or
\* stays where it is.
LEMMA FewerFrames ==
  ASSUME AirTells, air \in Seq(Responses), Thinned(air, air'),
         failed \subseteq failed',
         \/ UNCHANGED <<pc, row, respA, eeprom, file>>
         \/ /\ pc \notin {"read_a", "read_b", "write_resp"}
            /\ pc' \notin {"read_a", "read_b", "write_resp"}
  PROVE  AirTells'
<1>1. /\ NoHalves(air) => NoHalves(air)'
      /\ NoAcks(air) => NoAcks(air)'
      /\ Readable(air) => Readable(air)'
      /\ HalvesOf(air, row) => HalvesOf(air', row)
      /\ AckOf(air, row) => AckOf(air', row)
  BY FewerTell, SaidOfNext
<1>2. CASE UNCHANGED <<pc, row, respA, eeprom, file>>
  <2>1. /\ HalvesOf(air', row) => HalvesOf(air, row)'
        /\ AckOf(air', row) => AckOf(air, row)'
        /\ HalfA(row) = HalfA(row)'
    BY <1>2 DEF HalvesOf, AckOf, HalfA, HalfB, IsA, IsB, IsAck, RowIsStored
  <2> QED
    BY <1>1, <1>2, <2>1 DEF AirTells, HalvesTell, AcksTell, DataTells, HalfRow
<1>3. CASE /\ pc \notin {"read_a", "read_b", "write_resp"}
           /\ pc' \notin {"read_a", "read_b", "write_resp"}
  BY <1>1, <1>3 DEF AirTells, HalvesTell, AcksTell, DataTells
<1> QED
  BY <1>2, <1>3

LEMMA SameFrames ==
  ASSUME IInv, UNCHANGED <<air, failed>>,
         pc \notin {"read_a", "read_b", "write_resp"},
         pc' \notin {"read_a", "read_b", "write_resp"}
  PROVE  AirTells'
<1>1. AirTells /\ air \in Seq(Responses) /\ Thinned(air, air')
  BY AllThins DEF IInv, TypeOK
<1> QED
  BY <1>1, FewerFrames

LEMMA OneReply ==
  ASSUME air \in Seq(Responses), NEW f \in Responses, Reply(<<f>>)
  PROVE  /\ air' \in Seq(Responses) /\ DOMAIN air = 1..Len(air) /\ Len(air) \in Nat
         /\ DOMAIN air' = 1..(Len(air) + 1)
         /\ \A k \in 1..Len(air) : air'[k] = air[k]
         /\ air'[Len(air) + 1] = f
<1>1. air' = air \o <<f>> /\ <<f>> \in Seq(Responses) /\ Len(<<f>>) = 1
  BY DEF Reply
<1>2. Len(air) \in Nat /\ DOMAIN air = 1..Len(air)
  BY LenProperties
<1>3. /\ air' \in Seq(Responses) /\ Len(air') = Len(air) + 1
      /\ \A k \in 1..(Len(air) + 1) : air'[k] = IF k <= Len(air) THEN air[k] ELSE <<f>>[k - Len(air)]
  BY <1>1, ConcatProperties
<1>4. DOMAIN air' = 1..Len(air')
  BY <1>3, LenProperties
<1>5. Len(air) + 1 - Len(air) = 1 /\ <<f>>[1] = f /\ ~(Len(air) + 1 <= Len(air))
  BY <1>2
<1> QED
  BY <1>2, <1>3, <1>4, <1>5

LEMMA TwoReplies ==
  ASSUME air \in Seq(Responses), NEW f \in Responses, NEW g \in Responses, Reply(<<f, g>>)
  PROVE  /\ air' \in Seq(Responses) /\ DOMAIN air = 1..Len(air) /\ Len(air) \in Nat
         /\ DOMAIN air' = 1..(Len(air) + 2)
         /\ \A k \in 1..Len(air) : air'[k] = air[k]
         /\ air'[Len(air) + 1] = f
         /\ air'[Len(air) + 2] = g
<1>1. air' = air \o <<f, g>> /\ <<f, g>> \in Seq(Responses) /\ Len(<<f, g>>) = 2
  BY DEF Reply
<1>2. Len(air) \in Nat /\ DOMAIN air = 1..Len(air)
  BY LenProperties
<1>3. /\ air' \in Seq(Responses) /\ Len(air') = Len(air) + 2
      /\ \A k \in 1..(Len(air) + 2) :
           air'[k] = IF k <= Len(air) THEN air[k] ELSE <<f, g>>[k - Len(air)]
  BY <1>1, ConcatProperties
<1>4. DOMAIN air' = 1..Len(air')
  BY <1>3, LenProperties
<1>5. /\ Len(air) + 1 - Len(air) = 1 /\ ~(Len(air) + 1 <= Len(air))
      /\ Len(air) + 2 - Len(air) = 2 /\ ~(Len(air) + 2 <= Len(air))
      /\ <<f, g>>[1] = f /\ <<f, g>>[2] = g
  BY <1>2
<1> QED
  BY <1>2, <1>3, <1>4, <1>5

\* A step of another kind of call than a read, with the file and the memory left alone.
LEMMA OtherSteps ==
  ASSUME IInv, TypeOK', AirTells', UNCHANGED <<op, file, eeprom, row, rows>>,
         failed \subseteq failed',
         pc' \in {"idle", "get_send", "get_a", "get_b", "set_send", "set_resp"},
         pc' = "idle" \/ status' = "NONE",
         status' \notin {"STU_FILE_READ_SUCCESS", "STU_FILE_WRITE_SUCCESS"}
  PROVE  IInv'
<1>1. InCall' /\ RowsRead' /\ RowsInOrder' /\ Outcome'
  BY DEF IInv, InCall, RowsRead, RowsInOrder, Outcome, ReadIsEeprom, FileIsEeprom, Reading,
         Sending, Restarting, AtHeartbeat
<1> QED
  BY <1>1 DEF IInv

LEMMA LossStep == ASSUME IInv, Loss PROVE IInv'
<1>1. Thinned(air, air') /\ faults' \in 0..FaultBudget /\ air \in Seq(Responses)
  BY LossThins, FaultsCounted DEF Loss, LoseFrame, IInv, TypeOK
<1>2. UNCHANGED <<pc, op, calls, failed, status, file, verdict, row, respA, rows, param, value,
                  eeprom, power, heartbeat, error, running>>
  BY DEF Loss, callVars, hereVars, kinetekVars
<1>3. TypeOK' 
  BY <1>1, <1>2 DEF IInv, TypeOK, HasRows, Thinned
<1>4. InCall' /\ RowsRead' /\ RowsInOrder' /\ Outcome'
  BY <1>2 DEF IInv, InCall, HasRows, RowsRead, RowsInOrder, Outcome, ReadIsEeprom, FileIsEeprom
<1>5. AirTells'
  BY <1>1, <1>2, FewerFrames DEF IInv
<1> QED
  BY <1>3, <1>4, <1>5 DEF IInv

LEMMA CallStep == ASSUME IInv, Calls PROVE IInv'
<1>1. /\ \E o \in {"read", "write", "get", "set"} : \E label : Call(o, label)
      /\ \/ pc' = "heartbeat" /\ op' = "read" /\ file' = EmptyFile
         \/ pc' = "validate" /\ op' = "write" /\ file' \in StuFiles \cup {NoFile, file}
         \/ pc' = "get_send" /\ op' = "get" /\ UNCHANGED file
         \/ pc' = "set_send" /\ op' = "set" /\ UNCHANGED file
      /\ param' \in Params /\ value' \in Values
  BY DEF Calls, CallRead, CallWrite, CallGet, CallSet, Call, IInv, TypeOK
<1>2. /\ calls' \in 0..CallLimit /\ row' = 0 /\ rows' = <<>> /\ status' = "NONE"
      /\ verdict' = "NONE"
      /\ pc = "idle" /\ UNCHANGED <<failed, air, faults, eeprom, power, heartbeat, error, running>>
  BY <1>1, CallLimitAssumption DEF Call, IInv, TypeOK, kinetekVars, busVars
<1>3. TypeOK'
  <2>1. file' \in {NoFile, EmptyFile} \/ HasRows(file')
    BY <1>1, StuFilesAssumption DEF IInv, TypeOK, StuFile, Line, HasRows
  <2> QED
    BY <1>1, <1>2, <2>1, Sizes DEF IInv, TypeOK, Labels, HasRows
<1>4. InCall' /\ RowsRead' /\ RowsInOrder' /\ Outcome'
  BY <1>1, <1>2 DEF InCall, RowsRead, RowsInOrder, Outcome, ReadIsEeprom, FileIsEeprom, Reading, Sending,
                    Restarting, AtHeartbeat
<1>5. AirTells'
  BY <1>1, <1>2, SameFrames
<1> QED
  BY <1>3, <1>4, <1>5 DEF IInv

LEMMA OpenStep == ASSUME IInv, OpenAndCheckHeader PROVE IInv'
<1>1. /\ pc = "validate" /\ op = "write" /\ row = 0 /\ rows = <<>> /\ status = "NONE"
      /\ UNCHANGED <<file, op, calls, param, failed, verdict, row, respA, rows, value, eeprom, power,
                     heartbeat, error, running, air, faults>>
      /\ \/ pc' = "crashed" /\ UNCHANGED status
         \/ pc' = "idle" /\ status' = "INVALID_STU_FILE"
         \/ pc' = "heartbeat" /\ UNCHANGED status /\ file # EmptyFile /\ file.header_ok
  BY DEF OpenAndCheckHeader, Finish, GoTo, callVars, hereVars, kinetekVars, busVars, IInv, InCall
<1>2. pc' = "heartbeat" => HasRows(file)
  BY <1>1 DEF IInv, TypeOK, NoFile
<1>3. TypeOK'
  BY <1>1 DEF IInv, TypeOK, Labels, HasRows
<1>4. InCall' /\ RowsRead' /\ RowsInOrder' /\ Outcome'
  BY <1>1, <1>2 DEF InCall, RowsRead, RowsInOrder, Outcome, ReadIsEeprom, FileIsEeprom, Reading, Sending,
                    Restarting, AtHeartbeat, HasRows
<1>5. AirTells'
  BY <1>1, SameFrames
<1> QED
  BY <1>3, <1>4, <1>5 DEF IInv

\* The file with its runtime values made zero still has its rows.
LEMMA CleanedHasRows ==
  ASSUME NEW f, HasRows(f)
  PROVE  HasRows(Cleaned(f))
<1> DEFINE zeros == [i \in Columns |-> 0]
           kept == [i \in Columns |-> IF i \in Params29To32 THEN f.lines[1].data[i] ELSE 0]
           g == [f EXCEPT !.lines[0] = LineOf(0, zeros), !.lines[1] = LineOf(1, kept)]
<1>1. zeros \in Row
  BY DEF Row
<1>2. kept \in Row
  <2>1. 1 \in Rows
    BY Sizes DEF Rows
  <2>2. f.lines[1].data \in Row
    BY <2>1 DEF HasRows
  <2> QED
    BY <2>2 DEF Row
<1>3. LineOf(0, zeros).data = zeros /\ LineOf(1, kept).data = kept
  BY DEF LineOf
<1>4. Cleaned(f) = g
  BY DEF Cleaned
<1> HIDE DEF zeros, kept
<1>5. /\ DOMAIN g = {"fw", "header_ok", "lines"}
      /\ g.lines = [f.lines EXCEPT ![0] = LineOf(0, zeros), ![1] = LineOf(1, kept)]
  BY DEF HasRows
<1> HIDE DEF g
<1>6. /\ DOMAIN g.lines = Rows
      /\ \A n \in Rows : g.lines[n] = IF n = 1 THEN LineOf(1, kept)
                                      ELSE IF n = 0 THEN LineOf(0, zeros) ELSE f.lines[n]
  BY <1>5 DEF HasRows
<1>7. \A n \in Rows : g.lines[n].data \in Row
  BY <1>1, <1>2, <1>3, <1>6 DEF HasRows
<1> QED
  BY <1>4, <1>5, <1>6, <1>7 DEF HasRows

LEMMA HeartbeatStep == ASSUME IInv, FirstHeartbeat \/ HeartbeatLoop PROVE IInv'
<1>1. /\ pc \in AtHeartbeat \cup {"error", "error_loop"} /\ status = "NONE"
      /\ \E page \in HeartbeatPages \cup {0} : NextHeartbeat(page)
      /\ UNCHANGED <<op, calls, param, failed, row, respA, rows, value>>
      /\ \/ GotPage
         \/ NoHeartbeat /\ UNCHANGED file
         \/ /\ pc' = IF pc \in AtHeartbeat THEN "heartbeat_loop" ELSE "error_loop"
            /\ UNCHANGED <<status, file, verdict>>
  BY DEF FirstHeartbeat, HeartbeatLoop, callVars, GoTo, IInv, InCall, AtHeartbeat
<1>2. /\ faults' \in 0..FaultBudget /\ heartbeat' \in HeartbeatPages
      /\ UNCHANGED <<eeprom, power, error, running>>
      /\ \E k \in 0..Len(air) : air' = SubSeq(air, k + 1, Len(air))
  BY <1>1, FaultsCounted DEF NextHeartbeat, IInv, TypeOK
<1>11. air \in Seq(Responses) /\ air' \in Seq(Responses) /\ Thinned(air, air')
  <2>1. air \in Seq(Responses)
    BY DEF IInv, TypeOK
  <2>2. PICK k \in 0..Len(air) : air' = SubSeq(air, k + 1, Len(air))
    BY <1>2
  <2>3. CASE k = 0
    BY <2>1, <2>2, <2>3, AllThins, SubSeqFull DEF Thinned
  <2>4. CASE k # 0
    <3>1. Len(air) \in Nat
      BY <2>1, LenProperties
    <3>2. k \in 1..Len(air)
      BY <2>2, <2>4, <3>1
    <3> QED
      <4> DEFINE t == SubSeq(air, k + 1, Len(air))
      <4>1. Thinned(air, t)
        BY <2>1, <3>2, SuffixThins
      <4>2. t \in Seq(Responses) /\ air' = t
        BY <2>2, <4>1 DEF Thinned
      <4> QED
        BY <2>1, <4>1, <4>2
  <2> QED
    BY <2>1, <2>3, <2>4
<1>3. WantedPage = IF pc \in AtHeartbeat THEN 9 ELSE 1
  BY DEF WantedPage, AtHeartbeat
<1>4. /\ pc \in AtHeartbeat => op \in {"read", "write"} /\ row = 0 /\ rows = <<>>
      /\ pc \in AtHeartbeat /\ op = "write" => HasRows(file)
      /\ pc \notin AtHeartbeat => op = "write" /\ HasRows(file) /\ row = NUM_STU_ROWS
  BY <1>1 DEF IInv, InCall, Restarting
<1>5. \/ /\ pc' = "read_row" /\ UNCHANGED <<status, file, verdict>>
         /\ pc \in AtHeartbeat /\ op = "read"
      \/ /\ pc' = "write_row" /\ UNCHANGED status /\ HasRows(file)'
         /\ verdict' \in {"VALID_STU_FILE", "NO_HEARTBEAT_DETECTED"}
         /\ pc \in AtHeartbeat /\ op = "write"
      \/ /\ pc' = "idle" /\ UNCHANGED verdict
         /\ UNCHANGED file \/ (pc \in AtHeartbeat /\ HasRows(file)')
         /\ status' \notin {"STU_FILE_READ_SUCCESS", "STU_FILE_WRITE_SUCCESS"}
      \/ /\ pc' = "idle" /\ UNCHANGED <<file, verdict>>
         /\ status' = "STU_FILE_WRITE_SUCCESS" /\ pc \notin AtHeartbeat
      \/ /\ pc' = IF pc \in AtHeartbeat THEN "heartbeat_loop" ELSE "error_loop"
         /\ UNCHANGED <<status, file, verdict>>
  <2>1. CASE GotPage
    <3>1. CASE op = "read" /\ GoTo("read_row") /\ UNCHANGED <<file, verdict>>
      BY <1>4, <3>1 DEF GoTo
    <3>2. CASE op = "write" /\ WantedPage = 9 /\ Validated
      <4>1. pc \in AtHeartbeat /\ HasRows(Cleaned(file))
        BY <1>3, <1>4, <3>2, CleanedHasRows
      <4>2. CASE ~FirmwareMatches /\ Finish("INVALID_STU_FILE") /\ UNCHANGED <<file, verdict>>
        BY <4>2 DEF Finish
      <4>3. CASE /\ file' = Cleaned(file)
                 /\ GoTo("write_row") /\ verdict' = "VALID_STU_FILE"
        BY <3>2, <4>1, <4>3 DEF GoTo, HasRows
      <4>4. CASE /\ file' = Cleaned(file)
                 /\ Finish("INVALID_STU_FILE") /\ UNCHANGED verdict
        BY <3>2, <4>1, <4>4 DEF Finish, HasRows
      <4> QED
        BY <3>2, <4>2, <4>3, <4>4 DEF Validated
    <3>3. CASE op = "write" /\ WantedPage = 1 /\ Reported
      BY <1>3, <3>3 DEF Reported, Finish
    <3> QED
      BY <2>1, <3>1, <3>2, <3>3 DEF GotPage
  <2>2. CASE NoHeartbeat /\ UNCHANGED file
    <3>1. CASE /\ op = "write" /\ WantedPage = 9
               /\ verdict' = "NO_HEARTBEAT_DETECTED" /\ GoTo("write_row")
      BY <1>3, <1>4, <2>2, <3>1 DEF GoTo, HasRows
    <3>2. CASE Finish("NO_HEARTBEAT_DETECTED") /\ UNCHANGED verdict
      BY <2>2, <3>2 DEF Finish
    <3> QED
      BY <2>2, <3>1, <3>2 DEF NoHeartbeat
  <2> QED
    BY <1>1, <2>1, <2>2
<1>6. TypeOK'
  BY <1>1, <1>2, <1>4, <1>5, <1>11, Sizes
  DEF IInv, TypeOK, Labels, HasRows, Rows, AtHeartbeat
<1>7. InCall'
  BY <1>1, <1>2, <1>4, <1>5 DEF IInv, InCall, Reading, Sending, Restarting, AtHeartbeat, HasRows
<1>8. RowsRead'
  <2>1. pc' \in Reading => row' = 0 /\ rows' = <<>>
    BY <1>1, <1>4, <1>5 DEF Reading
  <2>2. <<>> \in Seq(Row) /\ Len(<<>>) = 0 /\ \A n \in 0..(0 - 1) : FALSE
    BY EmptySeq
  <2> QED
    BY <2>1, <2>2 DEF RowsRead
<1>9. RowsInOrder' /\ Outcome'
  <2>1. row = 0 \/ UNCHANGED file
    BY <1>4, <1>5
  <2>2. RowsInOrder'
    BY <1>1, <1>2, <2>1 DEF IInv, RowsInOrder
  <2>3. status' # "STU_FILE_READ_SUCCESS"
    BY <1>1, <1>5
  <2>4. status' = "STU_FILE_WRITE_SUCCESS" => row' = NUM_STU_ROWS
    BY <1>1, <1>4, <1>5
  <2> QED
    BY <2>2, <2>3, <2>4 DEF Outcome, ReadIsEeprom, FileIsEeprom
<1>10. AirTells'
  <2>1. AirTells
    BY DEF IInv
  <2> QED
    BY <1>1, <1>5, <1>11, <2>1, FewerFrames DEF AtHeartbeat
<1> QED
  BY <1>6, <1>7, <1>8, <1>9, <1>10 DEF IInv

-----------------------------------------------------------------------------
(* A read. *)

LEMMA RequestStep == ASSUME IInv, SendReadRequest PROVE IInv'
<1> DEFINE fA == Frame("EEPROM_LINE_READ_A_RESPONSE", "EEPROM_ACCESS_READ_RESPONSE", HalfA(row))
           fB == Frame("EEPROM_LINE_READ_B_RESPONSE", "EEPROM_ACCESS_READ_RESPONSE", HalfB(row))
<1>1. /\ pc = "read_row" /\ pc' = "read_a" /\ status = "NONE" /\ row \in Rows /\ op = "read"
      /\ Answered(<<fA, fB>>)
      /\ UNCHANGED <<file, op, calls, param, failed, status, verdict, row, respA, rows, value>>
  BY DEF SendReadRequest, GoTo, callVars, hereVars, IInv, InCall, TypeOK, HalfA, HalfB, Reading
<1>2. fA \in Responses /\ fB \in Responses
  <2>1. eeprom[row] \in Row
    BY <1>1 DEF IInv, TypeOK
  <2>2. HalfA(row) \in Seq(Bytes) /\ HalfB(row) \in Seq(Bytes)
    BY <2>1, TwoHalves, BytesAreBytes DEF HalfA, HalfB
  <2> QED
    BY <2>2 DEF Frame, Responses
<1>3. IsA(fA) /\ ~IsB(fA) /\ fA.data = HalfA(row) /\ ~IsAck(fA)
      /\ IsB(fB) /\ ~IsA(fB) /\ fB.data = HalfB(row) /\ ~IsAck(fB)
      /\ HasData(fA) /\ HasData(fB)
  <2>1. HalfA(row) \in HalfRow /\ HalfB(row) \in HalfRow
    BY <1>1, TwoHalves DEF HalfA, HalfB, IInv, TypeOK
  <2> QED
    BY <2>1 DEF IsA, IsB, IsAck, IsValue, HasData, Frame
<1> HIDE DEF fA, fB
<1>4. /\ UNCHANGED <<eeprom, power, heartbeat, error, running>>
      /\ faults' \in 0..FaultBudget
      /\ Reply(<<fA, fB>>) \/ UNCHANGED air
  BY <1>1, FaultsCounted DEF Answered, Reply, Silent, kinetekVars, busVars, IInv, TypeOK
<1>5. /\ "read" \notin failed => NoHalves(air)
      /\ "write" \notin failed => NoAcks(air)
      /\ Readable(air) /\ air \in Seq(Responses)
  BY <1>1 DEF IInv, AirTells, HalvesTell, AcksTell, DataTells, TypeOK
<1>6. /\ air' \in Seq(Responses) /\ Readable(air')
      /\ NoHalves(air) => HalvesOf(air', row)
      /\ NoAcks(air) => NoAcks(air')
  <2>1. CASE Reply(<<fA, fB>>)
    <3> DEFINE L == Len(air)
    <3>1. /\ air' \in Seq(Responses) /\ DOMAIN air = 1..L /\ L \in Nat
          /\ DOMAIN air' = 1..(L + 2)
          /\ \A k \in 1..L : air'[k] = air[k]
          /\ air'[L + 1] = fA
          /\ air'[L + 2] = fB
      BY <1>2, <1>5, <2>1, TwoReplies
    <3> HIDE DEF L
    <3>2. \A k \in DOMAIN air' : k \in 1..L \/ k = L + 1 \/ k = L + 2
      BY <3>1
    <3>3. ASSUME NoHalves(air) PROVE HalvesOf(air', row)
      <4>1. \A k \in DOMAIN air' : IsA(air'[k]) => k = L + 1
        BY <1>3, <3>1, <3>2, <3>3 DEF NoHalves
      <4>2. \A k \in DOMAIN air' : IsB(air'[k]) => k = L + 2
        BY <1>3, <3>1, <3>2, <3>3 DEF NoHalves
      <4> QED
        BY <1>3, <3>1, <4>1, <4>2 DEF HalvesOf
    <3>4. NoAcks(air) => NoAcks(air')
      BY <1>3, <3>1, <3>2 DEF NoAcks
    <3>5. Readable(air')
      BY <1>3, <1>5, <3>1, <3>2 DEF Readable
    <3> QED
      BY <3>1, <3>3, <3>4, <3>5
  <2>2. CASE UNCHANGED air
    BY <1>5, <2>2 DEF NoHalves, HalvesOf
  <2> QED
    BY <1>4, <2>1, <2>2
<1>7. TypeOK'
  BY <1>1, <1>4, <1>6 DEF IInv, TypeOK, Labels, HasRows
<1>8. InCall' /\ RowsRead' /\ RowsInOrder' /\ Outcome'
  BY <1>1, <1>4 DEF IInv, InCall, RowsRead, RowsInOrder, Outcome, ReadIsEeprom, FileIsEeprom, Reading,
                    Sending, Restarting, AtHeartbeat
<1>9. AirTells'
  <2>1. HalvesOf(air', row) => HalvesOf(air, row)'
    BY <1>1, <1>4 DEF HalvesOf, HalfA, HalfB, IsA, IsB
  <2> QED
    BY <1>1, <1>5, <1>6, <2>1, SaidOfNext DEF AirTells, HalvesTell, AcksTell, DataTells
<1> QED
  BY <1>7, <1>8, <1>9 DEF IInv

LEMMA FirstHalfStep == ASSUME IInv, ReadA PROVE IInv'
<1>1. PICK m \in Answers : /\ get_frame("EEPROM_LINE_READ_A_RESPONSE", m)
                           /\ respA' = m.data
  BY DEF ReadA
<1>2. /\ pc = "read_a" /\ pc' = "read_b" /\ status = "NONE" /\ op = "read"
      /\ UNCHANGED <<file, op, calls, param, failed, status, verdict, row, rows, value, eeprom, power,
                     heartbeat, error, running>>
  BY DEF ReadA, GoTo, callVars, kinetekVars, IInv, InCall, Reading
<1>3. /\ air \in Seq(Responses) /\ Readable(air) /\ row \in Rows
      /\ "read" \notin failed => HalvesOf(air, row)
      /\ "write" \notin failed => NoAcks(air)
  BY <1>2 DEF IInv, AirTells, HalvesTell, AcksTell, DataTells, TypeOK
<1>4. Thinned(air, air') /\ faults' \in 0..FaultBudget
  BY <1>1, <1>3, FrameTaken, GettingCounts DEF IInv, TypeOK
<1>5. /\ air' \in Seq(Responses) /\ Readable(air')
      /\ "read" \notin failed => HalvesOf(air', row)
      /\ "write" \notin failed => NoAcks(air')
  BY <1>3, <1>4, FewerTell DEF Thinned
<1>6. /\ "read" \notin failed => respA' \in {NO_DATA, HalfA(row)}
      /\ respA' \in HalfRow \cup {NO_DATA}
  <2>1. CASE m = NoFrame
    BY <1>1, <2>1 DEF NoFrame, Frame
  <2>2. CASE \E i \in 1..Len(air) : m = air[i] /\ air[i].id = "EEPROM_LINE_READ_A_RESPONSE"
    <3>1. PICK i \in DOMAIN air : m = air[i] /\ IsA(air[i])
      BY <1>3, <2>2, LenProperties DEF IsA
    <3> QED
      BY <1>1, <1>3, <3>1 DEF HalvesOf, Readable, HasData
  <2> QED
    BY <1>1, <1>3, <2>1, <2>2, FrameTaken
<1>7. TypeOK'
  BY <1>2, <1>3, <1>4, <1>5 DEF IInv, TypeOK, Labels, HasRows
<1>8. InCall' /\ RowsRead' /\ RowsInOrder' /\ Outcome'
  BY <1>2 DEF IInv, InCall, RowsRead, RowsInOrder, Outcome, ReadIsEeprom, FileIsEeprom, Reading,
              Sending, Restarting, AtHeartbeat
<1>9. AirTells'
  <2>1. /\ HalvesOf(air', row) => HalvesOf(air, row)'
        /\ HalfA(row) = HalfA(row)' /\ HalfRow = HalfRow'
    BY <1>2 DEF HalvesOf, HalfA, HalfB, HalfRow, IsA, IsB
  <2> QED
    BY <1>2, <1>5, <1>6, <2>1, SaidOfNext DEF AirTells, HalvesTell, AcksTell, DataTells
<1> QED
  BY <1>7, <1>8, <1>9 DEF IInv

LEMMA SecondHalfStep == ASSUME IInv, ReadB PROVE IInv'
<1>1. PICK m \in Answers : get_frame("EEPROM_LINE_READ_B_RESPONSE", m) /\ Halves(m)
  BY DEF ReadB
<1>2. /\ pc = "read_b" /\ status = "NONE" /\ op = "read"
      /\ UNCHANGED <<file, op, calls, param, verdict, respA, value, eeprom, power,
                     heartbeat, error, running>>
  BY DEF ReadB, callVars, kinetekVars, IInv, InCall, Reading
<1>3. /\ air \in Seq(Responses) /\ Readable(air) /\ row \in Rows
      /\ respA \in HalfRow \cup {NO_DATA}
      /\ rows \in Seq(Row) /\ Len(rows) = row
      /\ "write" \notin failed => NoAcks(air)
  BY <1>2 DEF IInv, AirTells, AcksTell, DataTells, TypeOK, RowsRead, Reading
<1>8. "read" \notin failed =>
        /\ HalvesOf(air, row) /\ respA \in {NO_DATA, HalfA(row)}
        /\ \A n \in 0..(row - 1) : rows[n + 1] = eeprom[n]
  BY <1>2 DEF IInv, AirTells, HalvesTell, RowsRead, Reading
<1>4. Thinned(air, air') /\ faults' \in 0..FaultBudget
  BY <1>1, <1>3, FrameTaken, GettingCounts DEF IInv, TypeOK
<1>5. /\ air' \in Seq(Responses) /\ Readable(air')
      /\ "write" \notin failed => NoAcks(air')
  BY <1>3, <1>4, FewerTell DEF Thinned
<1>6. CASE /\ pc' = "idle" /\ status' \in {"STU_READ_LINE_A_FAIL", "STU_READ_LINE_B_FAIL"}
           /\ failed' = failed \cup {"read"} /\ UNCHANGED <<rows, row>>
  <2>1. TypeOK'
    BY <1>2, <1>4, <1>5, <1>6 DEF IInv, TypeOK, Labels, HasRows
  <2>2. AirTells'
    BY <1>5, <1>6, SaidOfNext DEF AirTells, HalvesTell, AcksTell, DataTells
  <2> QED
    BY <1>2, <1>6, <2>1, <2>2, OtherSteps
<1>7. CASE respA # NO_DATA /\ m # NoFrame /\ UNCHANGED failed /\ TakeRow(respA \o m.data)
  <2>1. PICK i \in 1..Len(air) : /\ m = air[i] /\ air[i].id = "EEPROM_LINE_READ_B_RESPONSE"
                                 /\ Len(air') = Len(air) - i
                                 /\ \A k \in 1..Len(air') : air'[k] = air[k + i]
    BY <1>1, <1>3, <1>7, FrameTaken
  <2>2. DOMAIN air = 1..Len(air) /\ Len(air) \in Nat /\ DOMAIN air' = 1..Len(air')
    BY <1>3, <1>5, LenProperties
  <2>3. IsB(m) /\ m.data \in HalfRow /\ respA \o m.data \in Row
    BY <1>3, <1>7, <2>1, <2>2, HalvesMakeRow DEF Readable, HasData, IsB
  <2>4. "read" \notin failed => NoHalves(air')
    <3>1. \A k \in DOMAIN air' : k + i \in DOMAIN air /\ i < k + i /\ air'[k] = air[k + i]
      BY <2>1, <2>2
    <3> QED
      BY <1>8, <2>1, <2>2, <3>1 DEF HalvesOf, NoHalves, IsB
  <2>5. eeprom[row] \in Row /\ eeprom \in [Rows -> Row]
    BY <1>3 DEF IInv, TypeOK
  <2>6. "read" \notin failed => respA \o m.data = eeprom[row]
    <3>1. "read" \notin failed => m.data = HalfB(row)
      BY <1>8, <2>1, <2>2 DEF HalvesOf, IsB
    <3> QED
      BY <1>7, <1>8, <2>5, <3>1, TwoHalves DEF HalfA, HalfB
  <2> DEFINE bytes == respA \o m.data
  <2>7. /\ rows' = Append(rows, bytes) /\ row' = row + 1 /\ UNCHANGED <<status, failed>>
        /\ pc' = IF MoreRows THEN "read_row" ELSE "output"
    BY <1>7 DEF TakeRow, GoTo
  <2> HIDE DEF bytes
  <2>8. /\ row' \in 0..NUM_STU_ROWS
        /\ pc' = "read_row" => row' \in Rows
        /\ pc' = "output" => row' = NUM_STU_ROWS
    BY <1>3, <2>7, Sizes DEF MoreRows, Rows
  <2>9. /\ rows' \in Seq(Row) /\ Len(rows') = row + 1
        /\ "read" \notin failed => \A n \in 0..row : rows'[n + 1] = eeprom[n]
    <3>1. /\ rows' \in Seq(Row) /\ Len(rows') = Len(rows) + 1
          /\ \A k \in 1..Len(rows) : rows'[k] = rows[k]
          /\ rows'[Len(rows) + 1] = bytes
      BY <1>3, <2>3, <2>7, AppendProperties DEF bytes
    <3>2. ASSUME "read" \notin failed, NEW n \in 0..row PROVE rows'[n + 1] = eeprom[n]
      <4>1. row \in Nat
        BY <1>3, Sizes DEF Rows
      <4>2. CASE n = row
        BY <1>3, <2>6, <3>1, <3>2, <4>2 DEF bytes
      <4>3. CASE n # row
        <5>1. n \in 0..(row - 1) /\ n + 1 \in 1..Len(rows)
          BY <1>3, <3>2, <4>1, <4>3
        <5> QED
          BY <1>8, <3>1, <3>2, <5>1
      <4> QED
        BY <4>2, <4>3
    <3> QED
      BY <1>3, <3>1, <3>2
  <2>10. TypeOK'
    BY <1>2, <1>4, <1>5, <2>7, <2>8 DEF IInv, TypeOK, Labels, HasRows
  <2>11. InCall' /\ RowsInOrder' /\ Outcome'
    BY <1>2, <2>7, <2>8 DEF IInv, InCall, RowsInOrder, Outcome, ReadIsEeprom, FileIsEeprom, Reading,
                            Sending, Restarting, AtHeartbeat
  <2>12. RowsRead'
    <3>1. row' - 1 = row
      BY <1>3, <2>7, Sizes DEF Rows
    <3> QED
      BY <1>2, <2>7, <2>9, <3>1 DEF RowsRead
  <2>13. AirTells'
    BY <1>2, <1>5, <2>4, <2>7, SaidOfNext DEF AirTells, HalvesTell, AcksTell, DataTells
  <2> QED
    BY <2>10, <2>11, <2>12, <2>13 DEF IInv
<1> QED
  BY <1>1, <1>2, <1>6, <1>7 DEF Halves, Fail, Finish

LEMMA OutputStep == ASSUME IInv, Output PROVE IInv'
<1>1. /\ pc = "output" /\ pc' = "idle" /\ status' = "STU_FILE_READ_SUCCESS" /\ op = "read"
      /\ file' = [fw |-> FW, header_ok |-> TRUE,
                  lines |-> [n \in Rows |-> LineOf(n, rows[n + 1])]]
      /\ UNCHANGED <<op, calls, param, failed, verdict, row, respA, rows, value, eeprom, power,
                     heartbeat, error, running, air, faults>>
  BY DEF Output, Finish, callVars, hereVars, kinetekVars, busVars, IInv, InCall, Reading
<1>2. /\ \A n \in Rows : rows[n + 1] \in Row
      /\ "read" \notin failed => \A n \in Rows : rows[n + 1] = eeprom[n]
  <2>1. row = NUM_STU_ROWS
    BY <1>1 DEF IInv, InCall
  <2>2. rows \in Seq(Row) /\ Len(rows) = row
    BY <1>1 DEF IInv, RowsRead, Reading
  <2>3. \A n \in Rows : n + 1 \in 1..Len(rows)
    BY <2>1, <2>2, Sizes DEF Rows
  <2>4. \A n \in Rows : rows[n + 1] \in Row
    BY <2>2, <2>3, ElementOfSeq
  <2> QED
    BY <1>1, <2>1, <2>4 DEF IInv, RowsRead, Reading, Rows
<1>3. \A n \in Rows : file'.lines[n] = LineOf(n, rows[n + 1])
  BY <1>1
<1>4. HasRows(file)'
  <2>1. \A n \in Rows : LineOf(n, rows[n + 1]).data = rows[n + 1]
    BY DEF LineOf
  <2>2. DOMAIN file' = {"fw", "header_ok", "lines"} /\ DOMAIN file'.lines = Rows
    BY <1>1
  <2> QED
    BY <1>2, <1>3, <2>1, <2>2 DEF HasRows
<1>5. TypeOK'
  BY <1>1, <1>4 DEF IInv, TypeOK, Labels, HasRows
<1>6. InCall' /\ RowsRead' /\ RowsInOrder'
  BY <1>1 DEF InCall, RowsRead, RowsInOrder, Reading, Sending, Restarting, AtHeartbeat
<1>7. Outcome'
  BY <1>1, <1>2, <1>3 DEF Outcome, ReadIsEeprom, FileIsEeprom
<1>8. AirTells'
  BY <1>1, SameFrames
<1> QED
  BY <1>5, <1>6, <1>7, <1>8 DEF IInv

-----------------------------------------------------------------------------
(* A write. *)

LEMMA SendRowStep == ASSUME IInv, SendRow PROVE IInv'
<1> DEFINE ack == Frame("EEPROM_LINE_WRITE_RESPONSE", "EEPROM_ACCESS_WRITE_RESPONSE", <<row>>)
<1>1. /\ pc = "write_row" /\ pc' = "write_resp" /\ status = "NONE" /\ row \in Rows /\ op = "write"
      /\ HasRows(file)
      /\ Stored(row, file.lines[row].data)
      /\ UNCHANGED <<file, op, calls, param, failed, status, verdict, row, respA, rows, value>>
  BY DEF SendRow, GoTo, callVars, hereVars, IInv, InCall, TypeOK, Sending
<1>2. /\ UNCHANGED <<power, heartbeat, error, running>> /\ faults' \in 0..FaultBudget
      /\ \/ eeprom' = [eeprom EXCEPT ![row] = file.lines[row].data] /\ Reply(<<ack>>)
         \/ UNCHANGED <<eeprom, air>>
  BY <1>1, FaultsCounted DEF Stored, Silent, Reply, kinetekVars, busVars, IInv, TypeOK
<1>3. /\ air \in Seq(Responses) /\ Readable(air) /\ eeprom \in [Rows -> Row]
      /\ file.lines[row].data \in Row
      /\ "write" \notin failed => NoAcks(air)
      /\ "read" \notin failed => NoHalves(air)
  BY <1>1 DEF IInv, TypeOK, AirTells, HalvesTell, AcksTell, DataTells, HasRows
<1>4. ack \in Responses /\ ~IsA(ack) /\ ~IsB(ack) /\ HasData(ack)
  <2>1. <<row>> \in Seq(Bytes)
    BY <1>1 DEF Bytes
  <2> QED
    BY <2>1 DEF Frame, Responses, IsValue, IsA, IsB, HasData
<1> HIDE DEF ack
<1>5. /\ eeprom' \in [Rows -> Row]
      /\ \A n \in Rows : RowIsStored(n) => RowIsStored(n)'
      /\ eeprom' # eeprom => RowIsStored(row)'
  BY <1>1, <1>2, <1>3 DEF RowIsStored
<1>6. /\ air' \in Seq(Responses) /\ Readable(air')
      /\ NoHalves(air) => NoHalves(air')
      /\ NoAcks(air) => AckOf(air, row)'
  <2>1. CASE eeprom' = [eeprom EXCEPT ![row] = file.lines[row].data] /\ Reply(<<ack>>)
    <3> DEFINE L == Len(air)
    <3>1. /\ air' \in Seq(Responses) /\ DOMAIN air = 1..L /\ L \in Nat
          /\ DOMAIN air' = 1..(L + 1)
          /\ \A k \in 1..L : air'[k] = air[k]
          /\ air'[L + 1] = ack
      BY <1>3, <1>4, <2>1, OneReply
    <3> HIDE DEF L
    <3>2. \A k \in DOMAIN air' : (k \in DOMAIN air /\ air'[k] = air[k]) \/ k = L + 1
      BY <3>1
    <3>3. Readable(air') /\ (NoHalves(air) => NoHalves(air'))
      BY <1>3, <1>4, <3>1, <3>2 DEF Readable, NoHalves
    <3>4. ASSUME NoAcks(air) PROVE AckOf(air, row)'
      <4>1. RowIsStored(row)'
        BY <1>1, <1>3, <2>1 DEF RowIsStored
      <4>2. \A k \in DOMAIN air' : IsAck(air'[k]) => k = L + 1
        BY <3>1, <3>2, <3>4 DEF NoAcks
      <4>3. \A i, j \in DOMAIN air' : (i < j /\ IsAck(air'[i])) => ~IsAck(air'[j])
        BY <3>1, <4>2
      <4> QED
        BY <4>1, <4>3 DEF AckOf, IsAck
    <3> QED
      BY <3>1, <3>3, <3>4
  <2>2. CASE UNCHANGED <<eeprom, air>>
    BY <1>3, <2>2 DEF NoAcks, AckOf, IsAck
  <2> QED
    BY <1>2, <2>1, <2>2
<1>7. TypeOK'
  BY <1>1, <1>2, <1>5, <1>6 DEF IInv, TypeOK, Labels, HasRows
<1>8. InCall' /\ RowsRead' /\ Outcome'
  BY <1>1 DEF InCall, RowsRead, Outcome, ReadIsEeprom, FileIsEeprom, Reading, Sending, Restarting,
              AtHeartbeat, HasRows
<1>9. RowsInOrder'
  <2>1. "write" \notin failed => \A n \in 0..(row - 1) : n \in Rows /\ RowIsStored(n)
    BY <1>1, Sizes DEF IInv, RowsInOrder, RowIsStored, Rows
  <2> QED
    BY <1>1, <1>5, <2>1 DEF RowsInOrder, RowIsStored
<1>10. AirTells'
  BY <1>1, <1>3, <1>6, SaidOfNext DEF AirTells, HalvesTell, AcksTell, DataTells
<1> QED
  BY <1>7, <1>8, <1>9, <1>10 DEF IInv

LEMMA WriteResponseStep == ASSUME IInv, WriteResponse PROVE IInv'
<1>1. PICK m \in Answers :
        /\ get_frame("EEPROM_LINE_WRITE_RESPONSE", m)
        /\ \/ /\ RowConfirmed(m)
              /\ row' = row + 1
              /\ GoTo(IF MoreRows THEN "write_row" ELSE "disable")
              /\ UNCHANGED failed
           \/ ~RowConfirmed(m) /\ Fail("STU_FILE_WRITE_FAIL") /\ UNCHANGED row
  BY DEF WriteResponse
<1>2. /\ pc = "write_resp" /\ status = "NONE" /\ op = "write" /\ HasRows(file) /\ row \in Rows
      /\ UNCHANGED <<file, op, calls, param, verdict, respA, rows, value, eeprom, power,
                     heartbeat, error, running>>
  BY DEF WriteResponse, callVars, kinetekVars, IInv, InCall, TypeOK, Sending
<1>3. /\ air \in Seq(Responses) /\ Readable(air)
      /\ "write" \notin failed => AckOf(air, row)
      /\ "read" \notin failed => NoHalves(air)
  BY <1>2 DEF IInv, TypeOK, AirTells, HalvesTell, AcksTell, DataTells
<1>4. Thinned(air, air') /\ faults' \in 0..FaultBudget
  BY <1>1, <1>3, FrameTaken, GettingCounts DEF IInv, TypeOK
<1>5. /\ air' \in Seq(Responses) /\ Readable(air')
      /\ "read" \notin failed => NoHalves(air')
  BY <1>3, <1>4, FewerTell DEF Thinned
<1>6. CASE /\ RowConfirmed(m)
           /\ row' = row + 1
           /\ GoTo(IF MoreRows THEN "write_row" ELSE "disable")
           /\ UNCHANGED failed
  <2>1. "write" \notin failed => RowIsStored(row) /\ NoAcks(air')
    <3>1. m # NoFrame
      BY <1>6 DEF RowConfirmed, NoFrame, Frame
    <3>2. PICK i \in 1..Len(air) : /\ m = air[i] /\ air[i].id = "EEPROM_LINE_WRITE_RESPONSE"
                                   /\ Len(air') = Len(air) - i
                                   /\ \A k \in 1..Len(air') : air'[k] = air[k + i]
      BY <1>1, <1>3, <3>1, FrameTaken
    <3>3. DOMAIN air = 1..Len(air) /\ Len(air) \in Nat /\ DOMAIN air' = 1..Len(air')
      BY <1>3, <1>5, LenProperties
    <3>4. IsAck(air[i]) /\ i \in DOMAIN air
      BY <3>2, <3>3 DEF IsAck
    <3>5. \A k \in DOMAIN air' : k + i \in DOMAIN air /\ i < k + i /\ air'[k] = air[k + i]
      BY <3>2, <3>3
    <3> QED
      BY <1>3, <3>4, <3>5 DEF AckOf, NoAcks
  <2>2. /\ row' = row + 1 /\ UNCHANGED <<status, failed>>
        /\ pc' = IF MoreRows THEN "write_row" ELSE "disable"
    BY <1>6 DEF GoTo
  <2>3. /\ row' \in 0..NUM_STU_ROWS
        /\ pc' = "write_row" => row' \in Rows
        /\ pc' = "disable" => row' = NUM_STU_ROWS
    BY <1>2, <2>2, Sizes DEF MoreRows, Rows
  <2>4. TypeOK'
    BY <1>2, <1>4, <1>5, <2>2, <2>3 DEF IInv, TypeOK, Labels, HasRows
  <2>5. InCall' /\ RowsRead' /\ Outcome'
    BY <1>2, <2>2, <2>3 DEF InCall, RowsRead, Outcome, ReadIsEeprom, FileIsEeprom, Reading, Sending,
                            Restarting, AtHeartbeat, HasRows
  <2>6. RowsInOrder'
    <3>1. \A n \in 0..(row' - 1) : n \in 0..(row - 1) \/ n = row
      BY <1>2, <2>2, Sizes DEF Rows
    <3> QED
      BY <1>2, <2>1, <2>2, <3>1 DEF IInv, RowsInOrder, RowIsStored
  <2>7. AirTells'
    BY <1>2, <1>5, <2>1, <2>2, SaidOfNext DEF AirTells, HalvesTell, AcksTell, DataTells
  <2> QED
    BY <2>4, <2>5, <2>6, <2>7 DEF IInv
<1>7. CASE Fail("STU_FILE_WRITE_FAIL") /\ UNCHANGED row
  <2>1. TypeOK'
    BY <1>2, <1>4, <1>5, <1>7 DEF Fail, Finish, IInv, TypeOK, Labels, HasRows
  <2>2. AirTells'
    BY <1>2, <1>5, <1>7, SaidOfNext DEF Fail, Finish, AirTells, HalvesTell, AcksTell, DataTells
  <2> QED
    BY <1>2, <1>7, <2>1, <2>2, OtherSteps DEF Fail, Finish
<1> QED
  BY <1>1, <1>6, <1>7

LEMMA SwitchStep == ASSUME IInv, Disable \/ Enable PROVE IInv'
<1>1. /\ pc \in {"disable", "enable"} /\ pc' \in {"enable", "error"} /\ status = "NONE"
      /\ op = "write" /\ HasRows(file) /\ row = NUM_STU_ROWS
      /\ \E to \in {"on", "off"} : Switched(to)
      /\ UNCHANGED <<file, op, calls, param, failed, status, verdict, row, respA, rows, value>>
  BY DEF Disable, Enable, GoTo, callVars, hereVars, IInv, InCall, Restarting
<1>2. /\ power' \in {"on", "off"} /\ error' \in {0, 1} /\ faults' \in 0..FaultBudget
      /\ UNCHANGED <<eeprom, heartbeat, running, air>>
  BY <1>1, FaultsCounted DEF Switched, kinetekVars, busVars, IInv, TypeOK
<1>3. TypeOK'
  BY <1>1, <1>2 DEF IInv, TypeOK, Labels, HasRows
<1>4. InCall' /\ RowsRead' /\ RowsInOrder' /\ Outcome'
  BY <1>1, <1>2 DEF IInv, InCall, RowsRead, RowsInOrder, Outcome, ReadIsEeprom, FileIsEeprom, Reading,
                    Sending, Restarting, AtHeartbeat, HasRows
<1>5. AirTells'
  BY <1>1, <1>2, SameFrames
<1> QED
  BY <1>3, <1>4, <1>5 DEF IInv

-----------------------------------------------------------------------------
(* The single-parameter calls. *)

LEMMA OtherRequestStep == ASSUME IInv, SendParamRead \/ SendParamWrite PROVE IInv'
<1> DEFINE AirGrows == /\ air' \in Seq(Responses) /\ Readable(air')
                       /\ NoHalves(air) => NoHalves(air')
                       /\ NoAcks(air) => NoAcks(air')
           Other(f) == ~IsA(f) /\ ~IsB(f) /\ ~IsAck(f) /\ HasData(f)
<1>1. /\ pc \in {"get_send", "set_send"} /\ pc' \in {"get_a", "set_resp"} /\ status = "NONE"
      /\ UNCHANGED <<file, op, calls, param, failed, status, verdict, row, respA, rows, value>>
  BY DEF SendParamRead, SendParamWrite, GoTo, callVars, hereVars, IInv, InCall
<1>2. /\ air \in Seq(Responses) /\ Readable(air) /\ param \in Params /\ value \in Values
      /\ running \in [Params -> Values]
  BY DEF IInv, TypeOK, AirTells, DataTells
<1>3. /\ UNCHANGED <<eeprom, power, heartbeat, error>> /\ running' \in [Params -> Values]
      /\ faults' \in 0..FaultBudget
      /\ AirGrows
  <2>1. CASE UNCHANGED air /\ UNCHANGED kinetekVars /\ (Fault \/ UNCHANGED faults)
    BY <1>2, <2>1, FaultsCounted DEF kinetekVars, IInv, TypeOK
  <2>2. ASSUME NEW v \in Values,
               Reply(<<Frame("SINGLE_STU_PARAM_READ_A_RESPONSE",
                             "SINGLE_STU_PARAM_READ_RESPONSE", <<v>>),
                       Frame("SINGLE_STU_PARAM_READ_B_RESPONSE",
                             "SINGLE_STU_PARAM_READ_RESPONSE", <<v>>)>>)
        PROVE  AirGrows
    <3> DEFINE f == Frame("SINGLE_STU_PARAM_READ_A_RESPONSE", "SINGLE_STU_PARAM_READ_RESPONSE",
                          <<v>>)
               g == Frame("SINGLE_STU_PARAM_READ_B_RESPONSE", "SINGLE_STU_PARAM_READ_RESPONSE",
                          <<v>>)
               L == Len(air)
    <3>1. f \in Responses /\ g \in Responses
      <4>1. <<v>> \in Seq(Bytes)
        BY DEF Bytes
      <4> QED
        BY <4>1 DEF Frame, Responses
    <3>2. Other(f) /\ Other(g)
      BY DEF Frame, HasData, IsValue, IsA, IsB, IsAck
    <3>3. Reply(<<f, g>>)
      BY <2>2
    <3> HIDE DEF f, g
    <3>4. /\ air' \in Seq(Responses) /\ DOMAIN air = 1..L /\ L \in Nat
          /\ DOMAIN air' = 1..(L + 2)
          /\ \A k \in 1..L : air'[k] = air[k]
          /\ air'[L + 1] = f
          /\ air'[L + 2] = g
      BY <1>2, <3>1, <3>3, TwoReplies
    <3> HIDE DEF L
    <3>5. \A k \in DOMAIN air' :
             (k \in DOMAIN air /\ air'[k] = air[k]) \/ air'[k] = f \/ air'[k] = g
      BY <3>4
    <3> QED
      BY <1>2, <3>2, <3>4, <3>5 DEF Readable, NoHalves, NoAcks
  <2>3. ASSUME NEW taken \in {0, 1},
               Reply(<<Frame("SINGLE_STU_PARAM_WRITE_RESPONSE",
                             "SINGLE_STU_PARAM_WRITE_RESPONSE", <<taken>>)>>)
        PROVE  AirGrows
    <3> DEFINE f == Frame("SINGLE_STU_PARAM_WRITE_RESPONSE", "SINGLE_STU_PARAM_WRITE_RESPONSE",
                          <<taken>>)
               L == Len(air)
    <3>1. f \in Responses /\ Other(f) /\ Reply(<<f>>)
      <4>1. <<taken>> \in Seq(Bytes)
        BY DEF Bytes
      <4> QED
        BY <2>3, <4>1 DEF Frame, Responses, HasData, IsValue, IsA, IsB, IsAck
    <3> HIDE DEF f
    <3>2. /\ air' \in Seq(Responses) /\ DOMAIN air = 1..L /\ L \in Nat
          /\ DOMAIN air' = 1..(L + 1)
          /\ \A k \in 1..L : air'[k] = air[k]
          /\ air'[L + 1] = f
      BY <1>2, <3>1, OneReply
    <3> HIDE DEF L
    <3>3. \A k \in DOMAIN air' : (k \in DOMAIN air /\ air'[k] = air[k]) \/ air'[k] = f
      BY <3>2
    <3> QED
      BY <1>2, <3>1, <3>2, <3>3 DEF Readable, NoHalves, NoAcks
  <2>4. CASE SendParamRead
    <3>1. running[param] \in Values
      BY <1>2
    <3> QED
      BY <2>1, <2>2, <2>4, <3>1 DEF SendParamRead, Answered, Reply, Silent, kinetekVars, busVars,
                                    IInv, TypeOK
  <2>5. CASE SendParamWrite
    <3>1. CASE power = "on" /\ Fault /\ UNCHANGED <<air, kinetekVars>>
      BY <2>1, <3>1, <1>2 DEF kinetekVars
    <3>2. CASE power = "off" /\ Silent
      BY <2>1, <3>2, <1>2 DEF Silent, busVars, kinetekVars
    <3>3. CASE /\ \E taken \in {0, 1} :
                    /\ Reply(<<Frame("SINGLE_STU_PARAM_WRITE_RESPONSE",
                                     "SINGLE_STU_PARAM_WRITE_RESPONSE", <<taken>>)>>)
                    /\ running' = IF taken = 1 THEN [running EXCEPT ![param] = value]
                                  ELSE running
               /\ UNCHANGED <<eeprom, power, heartbeat, error>>
      BY <1>2, <2>3, <3>3 DEF Reply, IInv, TypeOK
    <3> QED
      BY <2>5, <3>1, <3>2, <3>3 DEF SendParamWrite
  <2> QED
    BY <2>4, <2>5
<1>4. TypeOK'
  BY <1>1, <1>3 DEF IInv, TypeOK, Labels, HasRows
<1>5. AirTells'
  BY <1>1, <1>3, SaidOfNext DEF IInv, AirTells, HalvesTell, AcksTell, DataTells
<1> QED
  BY <1>1, <1>3, <1>4, <1>5, OtherSteps

LEMMA OtherResponseStep == ASSUME IInv, GetA \/ GetB \/ SetResponse PROVE IInv'
<1>1. PICK id, m : get_frame(id, m) /\ (GetA => /\ id = "SINGLE_STU_PARAM_READ_A_RESPONSE"
                                                /\ value' = IF m = NoFrame THEN value ELSE m.data[1])
  BY DEF GetA, GetB, SetResponse
<1>2. /\ pc \in {"get_a", "get_b", "set_resp"} /\ status = "NONE"
      /\ pc' = "get_b" \/ pc' = "idle"
      /\ pc' = "idle" \/ UNCHANGED status
      /\ status' \notin {"STU_FILE_READ_SUCCESS", "STU_FILE_WRITE_SUCCESS"}
      /\ GetA \/ UNCHANGED value
      /\ UNCHANGED <<file, op, calls, param, failed, verdict, row, rows, eeprom, power, heartbeat,
                     error, running>>
  <2>1. pc \in {"get_a", "get_b", "set_resp"} /\ status = "NONE"
    BY DEF GetA, GetB, SetResponse, IInv, InCall
  <2>2. CASE GetA
    BY <2>1, <2>2 DEF GetA, GoTo, callVars, kinetekVars
  <2>3. CASE GetB
    BY <2>1, <2>3 DEF GetB, Finish, callVars, hereVars, kinetekVars
  <2>4. CASE SetResponse
    BY <2>1, <2>4 DEF SetResponse, Finish, callVars, hereVars, kinetekVars
  <2> QED
    BY <2>2, <2>3, <2>4
<1>3. air \in Seq(Responses) /\ Readable(air) /\ value \in Values
  BY DEF IInv, TypeOK, AirTells, DataTells
<1>4. Thinned(air, air') /\ faults' \in 0..FaultBudget
  BY <1>1, <1>3, FrameTaken, GettingCounts DEF IInv, TypeOK
<1>5. air' \in Seq(Responses) /\ Readable(air')
  BY <1>3, <1>4, FewerTell DEF Thinned
<1>6. value' \in Values
  <2>1. CASE GetA /\ m # NoFrame
    <3>1. PICK i \in 1..Len(air) : m = air[i] /\ air[i].id = id
      BY <1>1, <1>3, <2>1, FrameTaken
    <3>2. i \in DOMAIN air
      BY <1>3, LenProperties
    <3> QED
      BY <1>1, <1>3, <2>1, <3>1, <3>2 DEF Readable, HasData, IsValue
  <2> QED
    BY <1>1, <1>2, <1>3, <2>1
<1>7. TypeOK'
  BY <1>2, <1>4, <1>5, <1>6 DEF IInv, TypeOK, Labels, HasRows
<1>8. AirTells'
  <2>1. AirTells
    BY DEF IInv
  <2> QED
    BY <1>2, <1>3, <1>4, <2>1, FewerFrames
<1> QED
  BY <1>2, <1>7, <1>8, OtherSteps

-----------------------------------------------------------------------------
LEMMA InitEstablishes == Init => IInv
<1> SUFFICES ASSUME Init PROVE IInv
  OBVIOUS
<1>1. file \in {NoFile, EmptyFile} \/ HasRows(file)
  BY StuFilesAssumption DEF Init, StuFile, Line, HasRows
<1>2. air = <<>> /\ air \in Seq(Responses) /\ Readable(air)
  BY EmptySeq DEF Init, Readable
<1>3. TypeOK
  BY <1>1, <1>2, EepromsAssumption, CallLimitAssumption, FaultBudgetAssumption, Sizes
  DEF Init, TypeOK, Labels, HeartbeatPages
<1>4. InCall /\ RowsRead /\ RowsInOrder /\ Outcome
  BY DEF Init, InCall, RowsRead, RowsInOrder, Outcome, ReadIsEeprom, FileIsEeprom, Reading, Sending,
         Restarting, AtHeartbeat
<1>5. AirTells
  BY <1>2 DEF Init, AirTells, HalvesTell, AcksTell, DataTells, NoHalves, NoAcks
<1> QED
  BY <1>3, <1>4, <1>5 DEF IInv

LEMMA StepKeeps == IInv /\ [Next]_vars => IInv'
<1> SUFFICES ASSUME IInv, [Next]_vars PROVE IInv'
  OBVIOUS
<1>1. CASE UNCHANGED vars
  <2>1. TypeOK'
    BY <1>1 DEF vars, kinetekVars, busVars, IInv, TypeOK, HasRows
  <2>2. InCall' /\ RowsRead' /\ RowsInOrder' /\ Outcome'
    BY <1>1 DEF vars, kinetekVars, busVars, IInv, HasRows, InCall, RowsRead, RowsInOrder,
                Outcome, ReadIsEeprom, FileIsEeprom
  <2>3. AirTells'
    <3>1. AirTells /\ air \in Seq(Responses) /\ Thinned(air, air')
      BY <1>1, AllThins DEF vars, busVars, IInv, TypeOK
    <3> QED
      BY <1>1, <3>1, FewerFrames DEF vars, kinetekVars
  <2> QED
    BY <2>1, <2>2, <2>3 DEF IInv
<1>2. CASE Ended
  BY <1>1, <1>2 DEF Ended
<1> QED
  BY <1>1, <1>2, LossStep, CallStep, OpenStep, HeartbeatStep, RequestStep, FirstHalfStep,
     SecondHalfStep, OutputStep, SendRowStep, WriteResponseStep, SwitchStep, OtherRequestStep,
     OtherResponseStep
  DEF Next, Steps

\* The inductive invariant of the calls: what is in the air at each place of a read or a
\* write, and what has been read, stored and reported (STUparam.cpp:66-263).
THEOREM Invariance == Spec => []IInv
<1>1. Init => IInv
  BY InitEstablishes
<1>2. IInv /\ [Next]_vars => IInv'
  BY StepKeeps
<1> QED
  BY <1>1, <1>2, PTL DEF Spec

\* The variables keep their types, whatever is called, lost or late: a row number is
\* one of a row wherever the code uses it as one (STUparam.cpp:104-241).
THEOREM TypeCorrectness == Spec => []TypeOK
<1>1. IInv => TypeOK
  BY DEF IInv
<1> QED
  BY <1>1, Invariance, PTL

\* Until a read has failed for a missing half, a read that succeeds has put every row of
\* the EEPROM into the file, for any number of rows, lost and late halves, heartbeats and
\* other calls before it (STUparam.cpp:104-184).
THEOREM ReadIsExact == Spec => []ReadIsEeprom
<1>1. IInv => ReadIsEeprom
  BY DEF IInv, Outcome
<1> QED
  BY <1>1, Invariance, PTL

\* Until a write has failed for a missing confirmation, no write passes over a row,
\* whatever files were written before (STUparam.cpp:217-241).
THEOREM NoRowLeftOut == Spec => []RowsInOrder
<1>1. IInv => RowsInOrder
  BY DEF IInv
<1> QED
  BY <1>1, Invariance, PTL

\* A write that reports success has left the file in the EEPROM, under the same
\* condition (STUparam.cpp:217-262).
THEOREM SuccessIsStored == Spec => []WriteMeansStored
<1>1. IInv => WriteMeansStored
  BY Sizes DEF IInv, Outcome, RowsInOrder, WriteMeansStored, Rows
<1> QED
  BY <1>1, Invariance, PTL

-----------------------------------------------------------------------------
(* The sums of a parameter file. *)

InUseOf(r) == [i \in DOMAIN r |-> InUse(r[i])]
RowSums(f) == [n \in Rows |-> SumInUse(f.lines[n].data, Columns)]

LEMMA SumOfUsed ==
  ASSUME NEW r \in Row, NEW S, S \subseteq Columns
  PROVE  IsFiniteSet(S) /\ SumInUse(r, S) = SumF(InUseOf(r), S) /\ SumInUse(r, S) \in Int
<1> DEFINE F == InUseOf(r)
           Table(h) == h = [s \in SUBSET S |->
                              IF s = {} THEN 0
                              ELSE LET x == CHOOSE e \in s : TRUE
                                   IN InUse(r[x]) + h[s \ {x}]]
           it == CHOOSE h : Table(h)
<1>1. IsFiniteSet(S)
  <2>1. 1 \in Int /\ ROW_SIZE \in Int
    BY Sizes
  <2>2. IsFiniteSet(Columns)
    BY <2>1, FS_Interval DEF Columns
  <2> QED
    BY <2>2, FS_Subset
<1>2. \A i \in S : F[i] = InUse(r[i]) /\ F[i] \in Int
  BY DEF InUseOf, InUse, Row
<1> HIDE DEF F
<1>3. \A h : SumTable(F, S, h) <=> Table(h)
  BY <1>2 DEF SumTable
<1>4. \E h : SumTable(F, S, h)
  BY <1>1, TableExists
<1>5. SumInUse(r, S) = it[S]
  BY DEF SumInUse, MapThenSumSet, MapThenFoldSet
<1> HIDE DEF Table
<1>6. Table(it)
  BY <1>3, <1>4
<1> HIDE DEF it
<1>7. SumF(F, S) = it[S]
  BY <1>1, <1>3, <1>6, SumIsTable
<1> QED
  BY <1>1, <1>2, <1>5, <1>7, SumType DEF F

LEMMA SumOfRows ==
  ASSUME NEW f, HasRows(f), NEW last \in Rows
  PROVE  RowsInUse(f, last) = SumF(RowSums(f), 2..last) /\ RowsInUse(f, last) \in Int
<1> DEFINE F == RowSums(f)
           S == 2..last
           Table(h) == h = [s \in SUBSET S |->
                              IF s = {} THEN 0
                              ELSE LET x == CHOOSE e \in s : TRUE
                                   IN SumInUse(f.lines[x].data, Columns) + h[s \ {x}]]
           it == CHOOSE h : Table(h)
<1>1. IsFiniteSet(S) /\ S \subseteq Rows
  BY FS_Interval, Sizes DEF Rows
<1>2. \A n \in S : F[n] = SumInUse(f.lines[n].data, Columns) /\ F[n] \in Int
  BY <1>1, SumOfUsed DEF RowSums, HasRows
<1> HIDE DEF F
<1>3. \A h : SumTable(F, S, h) <=> Table(h)
  <2> HIDE DEF S
  <2> QED
    BY <1>2 DEF SumTable
<1>4. \E h : SumTable(F, S, h)
  BY <1>1, TableExists
<1>5. RowsInUse(f, last) = it[S]
  BY DEF RowsInUse, MapThenSumSet, MapThenFoldSet
<1> HIDE DEF Table
<1>6. Table(it)
  BY <1>3, <1>4
<1> HIDE DEF it, S
<1>7. SumF(F, S) = it[S]
  BY <1>1, <1>3, <1>6, SumIsTable
<1>8. SumF(F, S) \in Int
  BY <1>1, <1>2, SumType
<1> QED
  BY <1>5, <1>7, <1>8 DEF F, S

LEMMA StartSumIsInt ==
  ASSUME NEW f, HasRows(f)
  PROVE  start_params_sum(f) \in Int
<1> DEFINE F == f.lines[1].data
           S == Params29To32
<1>1. 1 \in Rows /\ S \subseteq Columns
  BY Sizes, RowSizeAssumption DEF Rows, Columns, Params29To32
<1>2. F \in Row /\ \A i \in S : F[i] \in Int
  BY <1>1 DEF HasRows, Row
<1>3. IsFiniteSet(S)
  BY <1>1, <1>2, SumOfUsed
<1>4. start_params_sum(f) = SumF(F, S)
  BY DEF start_params_sum, SumF
<1> HIDE DEF F, S
<1> QED
  BY <1>2, <1>3, <1>4, SumType

\* The sum the code takes is that of the bytes before the checksum, when neither byte
\* of the checksum looks like an unused parameter (STUparam.cpp:388-411).
LEMMA TotalIsRight ==
  ASSUME NEW f, HasRows(f), ~MarkedTotal(f)
  PROVE  TotalHolds(f) <=> StuTotal(f) = RightTotal(f)
<1> DEFINE r == LastRow(f)
           F == InUseOf(r)
           N == NUM_STU_ROWS
           G == RowSums(f)
           L == ROW_SIZE
<1>1. N \in Nat /\ N > 2 /\ L \in Nat /\ L >= 4
  BY Sizes, RowSizeAssumption
<1>2. r \in Row /\ N - 1 \in Rows /\ N - 2 \in Rows
  BY <1>1 DEF HasRows, Rows, LastRow
<1>3. /\ SumInUse(r, Columns) = SumF(F, 1..L)
      /\ SumInUse(r, 1..(L - 2)) = SumF(F, 1..(L - 2))
      /\ SumInUse(r, 1..(L - 2)) \in Int
  BY <1>1, <1>2, SumOfUsed DEF Columns
<1>4. \A i \in 1..L : F[i] = InUse(r[i]) /\ F[i] \in Int
  <2>1. r \in [1..L -> 0..255]
    BY <1>2 DEF Row, Columns
  <2>2. \A i \in 1..L : F[i] = InUse(r[i]) /\ r[i] \in 0..255
    BY <2>1 DEF InUseOf
  <2> HIDE DEF r, F, L
  <2> QED
    BY <2>2 DEF InUse
<1>5. F[L - 1] = StuTotal(f)[1] /\ F[L] = StuTotal(f)[2]
  BY <1>1, <1>4 DEF MarkedTotal, StuTotal, InUse
<1>6. G[N - 1] = SumInUse(r, Columns)
  BY <1>2 DEF RowSums, LastRow
<1>7. /\ RowsInUse(f, N - 1) = SumF(G, 2..(N - 1))
      /\ RowsInUse(f, N - 2) = SumF(G, 2..(N - 2)) /\ RowsInUse(f, N - 2) \in Int
  BY <1>2, SumOfRows
<1>8. \A n \in 2..(N - 1) : G[n] \in Int
  <2>1. \A n \in 2..(N - 1) : n \in Rows /\ G[n] = SumInUse(f.lines[n].data, Columns)
    BY <1>1 DEF RowSums, Rows
  <2> QED
    BY <2>1, SumOfUsed DEF HasRows
<1>9. start_params_sum(f) \in Int
  BY StartSumIsInt
<1> HIDE DEF r, F, N, G, L
<1>10. SumF(F, 1..L) = F[L] + F[L - 1] + SumF(F, 1..(L - 2))
  <2>1. /\ L - 2 \in Nat /\ (L - 2) + 1 = L - 1
        /\ L - 1 \in Nat /\ (L - 1) + 1 = L
        /\ \A k \in 1..(L - 1) : F[k] \in Int
    BY <1>1, <1>4
  <2>2. SumF(F, 1..(L - 1)) = F[L - 1] + SumF(F, 1..(L - 2))
    <3> DEFINE n == L - 2
    <3>1. n \in Nat /\ n + 1 = L - 1 /\ \A k \in 1..(n + 1) : F[k] \in Int
      BY <2>1
    <3> HIDE DEF n
    <3>2. SumF(F, 1..(n + 1)) = F[n + 1] + SumF(F, 1..n)
      BY <3>1, SumNext
    <3> QED
      BY <3>1, <3>2 DEF n
  <2>3. SumF(F, 1..L) = F[L] + SumF(F, 1..(L - 1))
    <3> DEFINE n == L - 1
    <3>1. n \in Nat /\ n + 1 = L /\ \A k \in 1..(n + 1) : F[k] \in Int
      BY <1>4, <2>1
    <3> HIDE DEF n
    <3>2. SumF(F, 1..(n + 1)) = F[n + 1] + SumF(F, 1..n)
      BY <3>1, SumNext
    <3> QED
      BY <3>1, <3>2 DEF n
  <2>4. L \in 1..L /\ L - 1 \in 1..L
    BY <1>1
  <2>5. F[L] \in Int /\ F[L - 1] \in Int
    BY <1>4, <2>4
  <2> QED
    BY <1>3, <2>2, <2>3, <2>5
<1>11. SumF(G, 2..(N - 1)) = G[N - 1] + SumF(G, 2..(N - 2))
  <2>1. /\ IsFiniteSet(2..(N - 2)) /\ N - 1 \notin 2..(N - 2)
        /\ 2..(N - 1) = (2..(N - 2)) \cup {N - 1}
    <3>1. 2 \in Int /\ N - 2 \in Int
      BY <1>1
    <3>2. IsFiniteSet(2..(N - 2))
      BY <3>1, FS_Interval
    <3>3. N - 1 \notin 2..(N - 2) /\ 2..(N - 1) = (2..(N - 2)) \cup {N - 1}
      BY <1>1
    <3> QED
      BY <3>2, <3>3
  <2> DEFINE S == 2..(N - 2)
             y == N - 1
  <2>2. IsFiniteSet(S) /\ y \notin S /\ (\A n \in S \cup {y} : G[n] \in Int) /\ 2..(N - 1) = S \cup {y}
    BY <1>8, <2>1
  <2> HIDE DEF S, y
  <2>3. SumF(G, S \cup {y}) = G[y] + SumF(G, S)
    BY <2>2, SumAdd
  <2> QED
    BY <2>2, <2>3 DEF S, y
<1> DEFINE a == start_params_sum(f)
           b == RowsInUse(f, N - 2)
           c == SumInUse(r, 1..(L - 2))
           u == StuTotal(f)[1]
           v == StuTotal(f)[2]
<1>12. u \in Int /\ v \in Int
  BY <1>1, <1>4, <1>5
<1>13. RowsInUse(f, N - 1) = v + u + c + b
  BY <1>3, <1>5, <1>6, <1>7, <1>10, <1>11
<1>14. total_stu_checksum(f) = a + RowsInUse(f, N - 1) - u - v
  BY DEF total_stu_checksum, N
<1>15. RightTotal(f) = TwoBytes(a + b + c)
  BY DEF RightTotal, N, L, r
<1>16. a \in Int /\ b \in Int /\ c \in Int
  BY <1>3, <1>7, <1>9
<1> HIDE DEF a, b, c, u, v
<1>17. total_stu_checksum(f) = a + b + c
  BY <1>12, <1>13, <1>14, <1>16
<1> QED
  BY <1>15, <1>17 DEF TotalHolds

-----------------------------------------------------------------------------
(* What validation does to a file. *)

\* Cleaning touches the first two lines only, gives them their checksums, and does
\* nothing the second time.
LEMMA WhatCleaningLeaves ==
  ASSUME NEW f, HasRows(f)
  PROVE  LET g == Cleaned(f)
         IN  /\ HasRows(g) /\ g.fw = f.fw /\ g.header_ok = f.header_ok
             /\ \A n \in 0..1 : g.lines[n] = LineOf(n, g.lines[n].data)
             /\ Cleaned(g) = g
<1> DEFINE zeros == [i \in Columns |-> 0]
           Kept(d) == [i \in Columns |-> IF i \in Params29To32 THEN d[i] ELSE 0]
           k == Kept(f.lines[1].data)
           Clean(h, d) == [h EXCEPT !.lines[0] = LineOf(0, zeros), !.lines[1] = LineOf(1, d)]
           g == Cleaned(f)
<1>1. /\ g = Clean(f, k)
      /\ \A h : Cleaned(h) = Clean(h, Kept(h.lines[1].data))
  BY DEF Cleaned
<1>2. Kept(k) = k
  OBVIOUS
<1>3. 0 \in Rows /\ 1 \in Rows
  BY Sizes DEF Rows
<1>4. /\ g.lines = [f.lines EXCEPT ![0] = LineOf(0, zeros), ![1] = LineOf(1, k)]
      /\ DOMAIN g = {"fw", "header_ok", "lines"}
      /\ g.fw = f.fw /\ g.header_ok = f.header_ok
  <2> HIDE DEF zeros, k
  <2> QED
    BY <1>1 DEF HasRows
<1> HIDE DEF zeros, k, Kept
<1>5. /\ g.lines[0] = LineOf(0, zeros) /\ g.lines[1] = LineOf(1, k)
      /\ DOMAIN g.lines = Rows
  <2> HIDE DEF g, Clean
  <2> QED
    BY <1>3, <1>4 DEF HasRows
<1>6. g.lines[0].data = zeros /\ g.lines[1].data = k
  <2> HIDE DEF g
  <2> QED
    BY <1>5 DEF LineOf
<1>7. \A n \in 0..1 : g.lines[n] = LineOf(n, g.lines[n].data)
  <2> HIDE DEF g
  <2>1. \A n \in 0..1 : n = 0 \/ n = 1
    OBVIOUS
  <2> QED
    BY <1>5, <1>6, <2>1
<1>8. Cleaned(g) = g
  <2>1. Cleaned(g) = Clean(g, k)
    BY <1>1, <1>2, <1>6
  <2> DEFINE h == Clean(g, k)
             z == LineOf(0, zeros)
             o == LineOf(1, k)
  <2>2. g = [x \in {"fw", "header_ok", "lines"} |-> g[x]]
    <3>1. g = [[f EXCEPT !["lines"] = [@ EXCEPT ![0] = z]] EXCEPT !["lines"] = [@ EXCEPT ![1] = o]]
      BY <1>1
    <3> QED
      BY <1>4, <3>1
  <2>3. /\ h = [x \in {"fw", "header_ok", "lines"} |-> h[x]]
        /\ h.fw = g.fw /\ h.header_ok = g.header_ok
        /\ h.lines = [g.lines EXCEPT ![0] = z, ![1] = o]
    <3>1. h = [[g EXCEPT !["lines"] = [@ EXCEPT ![0] = z]] EXCEPT !["lines"] = [@ EXCEPT ![1] = o]]
      OBVIOUS
    <3> HIDE DEF g, h, z, o
    <3> QED
      BY <1>4, <3>1
  <2>4. h.lines = g.lines
    <3>1. g.lines = [n \in Rows |-> g.lines[n]]
      <4> HIDE DEF z, o, g
      <4> QED
        BY <1>3, <1>4, <1>5 DEF HasRows
    <3> HIDE DEF g, h
    <3> QED
      BY <1>3, <1>5, <2>3, <3>1
  <2>5. h = g
    <3> HIDE DEF g, h
    <3> QED
      BY <2>2, <2>3, <2>4
  <2> QED
    BY <2>1, <2>5
<1> HIDE DEF g
<1> QED
  BY <1>4, <1>7, <1>8, CleanedHasRows DEF g

\* Validation's verdict is that of the definition of a good file.
LEMMA VerdictOnFile ==
  ASSUME NEW f, HasRows(f), f.header_ok, f.fw = FW
  PROVE  LET g == Cleaned(f)
             accepted == LineChecksumsHold(g) /\ TotalHolds(g)
         IN  /\ accepted => GoodLines(g) /\ (Good(g) \/ MarkedTotal(g))
             /\ Good(g) => accepted \/ MarkedTotal(g)
<1> DEFINE g == Cleaned(f)
<1>1. /\ HasRows(g) /\ g.fw = FW /\ g.header_ok
      /\ \A n \in 0..1 : g.lines[n] = LineOf(n, g.lines[n].data)
  BY WhatCleaningLeaves
<1> HIDE DEF g
<1>2. LineChecksumsHold(g) <=> GoodLines(g)
  <2>1. \A n : n \in Rows <=> n \in 0..1 \/ n \in 2..(NUM_STU_ROWS - 1)
    BY Sizes DEF Rows
  <2> QED
    BY <1>1, <2>1 DEF LineChecksumsHold, GoodLines
<1>3. ~MarkedTotal(g) => (TotalHolds(g) <=> StuTotal(g) = RightTotal(g))
  BY <1>1, TotalIsRight
<1> QED
  BY <1>2, <1>3 DEF Good, g

\* Where validation is, and what it found.
Validation ==
  /\ (pc \in AtHeartbeat /\ op = "write") => file.header_ok
  /\ pc \in {"validate"} \cup AtHeartbeat \cup Reading => verdict = "NONE"
  /\ AcceptedIsGood
  /\ GoodIsAccepted

\* A step that leaves the file alone and reports no invalid one.
LEMMA FileLeftAlone ==
  ASSUME Validation, UNCHANGED <<file, verdict, op>>,
         status' = "INVALID_STU_FILE" => UNCHANGED status,
         pc' \in {"validate"} \cup AtHeartbeat => pc \in AtHeartbeat \/ UNCHANGED pc,
         pc' \in Reading => pc \in AtHeartbeat \cup Reading
  PROVE  Validation'
<1>1. AcceptedIsGood'
  BY DEF Validation, AcceptedIsGood
<1>2. GoodIsAccepted'
  BY DEF Validation, GoodIsAccepted
<1> QED
  BY <1>1, <1>2 DEF Validation

LEMMA OtherActionsLeaveFile ==
  ASSUME IInv, Validation,
         \/ UNCHANGED vars \/ Ended \/ Loss
         \/ SendReadRequest \/ ReadA \/ ReadB
         \/ SendRow \/ WriteResponse \/ Disable \/ Enable
         \/ SendParamRead \/ GetA \/ GetB \/ SendParamWrite \/ SetResponse
  PROVE  Validation'
<1>1. CASE UNCHANGED vars \/ Ended \/ Loss
  BY <1>1, FileLeftAlone DEF vars, Ended, Loss, callVars, hereVars
<1>2. CASE SendReadRequest \/ ReadA \/ ReadB
  <2>1. /\ UNCHANGED <<file, verdict, op>> /\ pc \in Reading
        /\ pc' \in Reading \cup {"idle"} /\ status' # "INVALID_STU_FILE"
    BY <1>2 DEF SendReadRequest, ReadA, ReadB, Halves, TakeRow, GoTo, Fail, Finish, callVars,
                hereVars, Reading, IInv, InCall
  <2> QED
    BY <2>1, FileLeftAlone DEF Reading, AtHeartbeat
<1>3. CASE SendRow \/ WriteResponse \/ Disable \/ Enable
  <2>1. /\ UNCHANGED <<file, verdict, op>> /\ status' # "INVALID_STU_FILE"
        /\ pc' \in {"write_resp", "write_row", "disable", "enable", "error", "idle"}
    BY <1>3 DEF SendRow, WriteResponse, Disable, Enable, GoTo, Fail, Finish, callVars,
                hereVars, IInv, InCall
  <2> QED
    BY <2>1, FileLeftAlone DEF Reading, AtHeartbeat
<1>4. CASE SendParamRead \/ GetA \/ GetB \/ SendParamWrite \/ SetResponse
  <2>1. /\ UNCHANGED <<file, verdict, op>> /\ status' # "INVALID_STU_FILE"
        /\ pc' \in {"get_a", "get_b", "set_resp", "idle"}
    BY <1>4 DEF SendParamRead, GetA, GetB, SendParamWrite, SetResponse, GoTo, Finish, callVars,
                hereVars, IInv, InCall
  <2> QED
    BY <2>1, FileLeftAlone DEF Reading, AtHeartbeat
<1> QED
  BY <1>1, <1>2, <1>3, <1>4

LEMMA CallsForget ==
  ASSUME Calls \/ (Output /\ IInv /\ Validation)
  PROVE  Validation'
<1>1. CASE Calls
  <2>1. /\ verdict' = "NONE" /\ status' = "NONE"
        /\ (pc' = "heartbeat" /\ op' = "read") \/ pc' \in {"validate", "get_send", "set_send"}
    BY <1>1 DEF Calls, CallRead, CallWrite, CallGet, CallSet, Call
  <2> QED
    BY <2>1 DEF Validation, AcceptedIsGood, GoodIsAccepted, AtHeartbeat, Reading
<1>2. CASE Output /\ IInv /\ Validation
  <2>1. verdict' = "NONE" /\ status' = "STU_FILE_READ_SUCCESS" /\ pc' = "idle"
    BY <1>2 DEF Output, Finish, hereVars, Validation, Reading
  <2> QED
    BY <2>1 DEF Validation, AcceptedIsGood, GoodIsAccepted, AtHeartbeat, Reading
<1> QED
  BY <1>1, <1>2

LEMMA HeaderFirst ==
  ASSUME IInv, Validation, OpenAndCheckHeader
  PROVE  Validation'
<1>1. /\ pc = "validate" /\ op = "write" /\ status = "NONE"
      /\ UNCHANGED <<file, op, verdict>>
      /\ \/ pc' = "crashed" /\ UNCHANGED status
         \/ pc' = "idle" /\ status' = "INVALID_STU_FILE" /\ ~file.header_ok
         \/ pc' = "heartbeat" /\ UNCHANGED status /\ file.header_ok
  BY DEF OpenAndCheckHeader, Finish, GoTo, callVars, hereVars, IInv, InCall
<1>2. verdict' = "NONE"
  BY <1>1 DEF Validation
<1>3. status' = "INVALID_STU_FILE" => ~Good(file)'
  BY <1>1 DEF Good, GoodLines
<1> QED
  BY <1>1, <1>2, <1>3 DEF Validation, AcceptedIsGood, GoodIsAccepted, AtHeartbeat, Reading

LEMMA ValidationKept ==
  ASSUME IInv, Validation, FirstHeartbeat \/ HeartbeatLoop
  PROVE  Validation'
<1>1. /\ pc \in AtHeartbeat \cup {"error", "error_loop"} /\ status = "NONE" /\ UNCHANGED op
      /\ \/ GotPage
         \/ NoHeartbeat /\ UNCHANGED file
         \/ /\ pc' = IF pc \in AtHeartbeat THEN "heartbeat_loop" ELSE "error_loop"
            /\ UNCHANGED <<status, file, verdict>>
  BY DEF FirstHeartbeat, HeartbeatLoop, callVars, GoTo, IInv, InCall, AtHeartbeat
<1>2. WantedPage = IF pc \in AtHeartbeat THEN 9 ELSE 1
  BY DEF WantedPage, AtHeartbeat
<1>3. CASE UNCHANGED <<file, verdict>> /\ status' # "INVALID_STU_FILE"
           /\ (pc' \in AtHeartbeat \cup Reading \cup {"validate"} => pc \in AtHeartbeat)
  BY <1>1, <1>3, FileLeftAlone DEF AtHeartbeat, Reading
<1>4. CASE NoHeartbeat /\ UNCHANGED file
  <2>1. CASE /\ op = "write" /\ WantedPage = 9
             /\ verdict' = "NO_HEARTBEAT_DETECTED" /\ GoTo("write_row")
    BY <1>1, <2>1 DEF GoTo, Validation, AcceptedIsGood, GoodIsAccepted, AtHeartbeat, Reading
  <2>2. CASE Finish("NO_HEARTBEAT_DETECTED") /\ UNCHANGED verdict
    BY <1>3, <1>4, <2>2 DEF Finish, AtHeartbeat, Reading
  <2> QED
    BY <1>4, <2>1, <2>2 DEF NoHeartbeat
<1>5. CASE GotPage
  <2>1. CASE op = "read" /\ GoTo("read_row") /\ UNCHANGED <<file, verdict>>
    <3>1. pc \in AtHeartbeat
      BY <1>1, <2>1 DEF IInv, InCall, Restarting
    <3> QED
      BY <1>1, <1>3, <2>1, <3>1 DEF GoTo
  <2>2. CASE op = "write" /\ WantedPage = 1 /\ Reported
    BY <1>3, <2>2 DEF Reported, Finish, AtHeartbeat, Reading
  <2>3. CASE op = "write" /\ WantedPage = 9 /\ Validated
    <3>1. pc \in AtHeartbeat /\ HasRows(file) /\ file.header_ok /\ verdict = "NONE"
      BY <1>1, <1>2, <2>3 DEF IInv, InCall, Validation
    <3>2. CASE ~FirmwareMatches /\ Finish("INVALID_STU_FILE") /\ UNCHANGED <<file, verdict>>
      <4>1. ~Good(file)'
        BY <3>2 DEF FirmwareMatches, Good, GoodLines
      <4> QED
        BY <3>1, <3>2, <4>1 DEF Finish, Validation, AcceptedIsGood, GoodIsAccepted,
                                AtHeartbeat, Reading
    <3>3. CASE FirmwareMatches /\ file' = Cleaned(file)
      <4>1. /\ Cleaned(file') = file'
            /\ (LineChecksumsHold(file') /\ TotalHolds(file')) =>
                 GoodLines(file') /\ (Good(file') \/ MarkedTotal(file'))
            /\ Good(file') =>
                 (LineChecksumsHold(file') /\ TotalHolds(file')) \/ MarkedTotal(file')
        BY <3>1, <3>3, WhatCleaningLeaves, VerdictOnFile DEF FirmwareMatches
      <4>2. /\ Good(file)' = Good(file') /\ GoodLines(file)' = GoodLines(file')
            /\ MarkedTotal(file)' = MarkedTotal(file') /\ Cleaned(file)' = Cleaned(file')
        OBVIOUS
      <4>3. CASE /\ LineChecksumsHold(Cleaned(file)) /\ TotalHolds(Cleaned(file))
                 /\ GoTo("write_row") /\ verdict' = "VALID_STU_FILE"
        BY <1>1, <3>3, <4>1, <4>2, <4>3 DEF GoTo, Validation, AcceptedIsGood, GoodIsAccepted,
                                            AtHeartbeat, Reading
      <4>4. CASE /\ ~(LineChecksumsHold(Cleaned(file)) /\ TotalHolds(Cleaned(file)))
                 /\ Finish("INVALID_STU_FILE") /\ UNCHANGED verdict
        BY <3>1, <3>3, <4>1, <4>2, <4>4 DEF Finish, Validation, AcceptedIsGood, GoodIsAccepted,
                                            AtHeartbeat, Reading
      <4> QED
        BY <2>3, <3>3, <4>3, <4>4 DEF Validated
    <3> QED
      BY <2>3, <3>2, <3>3 DEF Validated
  <2> QED
    BY <1>5, <2>1, <2>2, <2>3 DEF GotPage
<1>6. CASE /\ pc' = IF pc \in AtHeartbeat THEN "heartbeat_loop" ELSE "error_loop"
           /\ UNCHANGED <<status, file, verdict>>
  BY <1>1, <1>3, <1>6 DEF AtHeartbeat, Reading
<1> QED
  BY <1>1, <1>4, <1>5, <1>6

\* Where a validation is, and that its verdict is the file's own (STUparam.cpp:265-421).
THEOREM ValidationInvariance == Spec => [](IInv /\ Validation)
<1>1. Init => IInv /\ Validation
  BY InitEstablishes DEF Init, Validation, AcceptedIsGood, GoodIsAccepted, AtHeartbeat, Reading
<1>2. IInv /\ Validation /\ [Next]_vars => (IInv /\ Validation)'
  <2> SUFFICES ASSUME IInv, Validation, [Next]_vars PROVE Validation'
    BY StepKeeps
  <2> QED
    BY OtherActionsLeaveFile, CallsForget, HeaderFirst, ValidationKept DEF Next, Steps
<1> QED
  BY <1>1, <1>2, PTL DEF Spec

\* What validation accepts is good and clean, for parameter files of any size, but for a
\* wrong checksum with a byte FF (STUparam.cpp:332-418).
THEOREM OnlyGoodIsAccepted == Spec => []AcceptedIsGood
<1>1. Validation => AcceptedIsGood
  BY DEF Validation
<1> QED
  BY <1>1, ValidationInvariance, PTL

\* And a good file is accepted, but for a checksum with a byte FF (STUparam.cpp:332-418).
THEOREM GoodIsNotRejected == Spec => []GoodIsAccepted
<1>1. Validation => GoodIsAccepted
  BY DEF Validation
<1> QED
  BY <1>1, ValidationInvariance, PTL
-----------------------------------------------------------------------------
(* A call runs down. *)

OtherPage(page) == IF heartbeat = page THEN 0 ELSE 1

\* How many steps a call has left, at most, when every row is read or written.
CallLeft ==
  CASE pc = "validate" -> 3 * NUM_STU_ROWS + 9
    [] pc = "heartbeat" -> 3 * NUM_STU_ROWS + 8
    [] pc = "heartbeat_loop" -> 3 * NUM_STU_ROWS + 6 + OtherPage(9)
    [] pc = "read_row" -> 3 * (NUM_STU_ROWS - row) + 1
    [] pc = "read_a" -> 3 * (NUM_STU_ROWS - row)
    [] pc = "read_b" -> 3 * (NUM_STU_ROWS - row) - 1
    [] pc = "write_row" -> 2 * (NUM_STU_ROWS - row) + 5
    [] pc = "write_resp" -> 2 * (NUM_STU_ROWS - row) + 4
    [] pc = "disable" -> 5
    [] pc = "enable" -> 4
    [] pc = "error" -> 3
    [] pc = "error_loop" -> 1 + OtherPage(1)
    [] pc = "get_send" -> 3
    [] pc \in {"get_a", "set_send"} -> 2
    [] pc \in {"output", "get_b", "set_resp"} -> 1
    [] pc \in {"idle", "crashed"} -> 0

LEMMA CallLeftIsBounded ==
  ASSUME TypeOK, InCall
  PROVE  CallLeft \in 0..(3 * NUM_STU_ROWS + 9)
<1>1. NUM_STU_ROWS \in Nat /\ NUM_STU_ROWS > 2 /\ OtherPage(9) \in 0..1 /\ OtherPage(1) \in 0..1
  BY Sizes DEF OtherPage
<1> SUFFICES CallLeft \in Nat /\ CallLeft <= 3 * NUM_STU_ROWS + 9
  BY <1>1
<1> USE DEF CallLeft
<1>2. CASE pc \in {"validate", "heartbeat", "heartbeat_loop"}
  BY <1>1, <1>2
<1>3. CASE pc \in {"read_row", "read_a", "read_b", "write_row", "write_resp"}
  <2>1. row \in Nat /\ row < NUM_STU_ROWS
    BY <1>1, <1>3 DEF TypeOK, Rows
  <2> QED
    BY <1>1, <1>3, <2>1
<1>4. CASE pc \in {"disable", "enable", "error", "error_loop", "get_send", "get_a", "set_send"}
  BY <1>1, <1>4
<1>5. CASE pc \in {"output", "get_b", "set_resp", "idle", "crashed"}
  BY <1>1, <1>5
<1> QED
  BY <1>2, <1>3, <1>4, <1>5 DEF TypeOK, Labels

\* A page of the heartbeat, or none, brings the wait for it to an end.
LEMMA HeartbeatRunsDown ==
  ASSUME IInv, FirstHeartbeat \/ HeartbeatLoop
  PROVE  CallLeft' < CallLeft
<1>1. NUM_STU_ROWS \in Nat /\ NUM_STU_ROWS > 2 /\ heartbeat \in {1, 9}
  BY Sizes DEF IInv, TypeOK, HeartbeatPages
<1>2. UNCHANGED <<op, row>> /\ pc \in {"heartbeat", "heartbeat_loop", "error", "error_loop"}
  BY DEF FirstHeartbeat, HeartbeatLoop, callVars
<1>3. /\ pc \in AtHeartbeat => row = 0 /\ op \in {"read", "write"} /\ WantedPage = 9
      /\ pc \notin AtHeartbeat => op = "write" /\ WantedPage = 1
  BY <1>2 DEF IInv, InCall, AtHeartbeat, Restarting, WantedPage
<1>4. PICK page \in HeartbeatPages \cup {0} :
        /\ NextHeartbeat(page)
        /\ \/ page = WantedPage /\ GotPage
           \/ /\ pc \in {"heartbeat", "error"} /\ page # WantedPage
              /\ pc' = IF pc = "heartbeat" THEN "heartbeat_loop" ELSE "error_loop"
           \/ pc \in {"heartbeat_loop", "error_loop"} /\ page = 0 /\ NoHeartbeat
           \/ pc \in {"heartbeat_loop", "error_loop"} /\ page \notin {0, WantedPage} /\ pc' = pc
  BY DEF FirstHeartbeat, HeartbeatLoop, GoTo
<1>5. heartbeat' \in {1, 9} /\ (page # 0 => page = heartbeat /\ heartbeat' # heartbeat)
  BY <1>1, <1>4 DEF NextHeartbeat, HeartbeatPages
<1> USE DEF CallLeft, OtherPage
<1>6. CASE page = WantedPage /\ GotPage
  <2>1. \/ pc \in AtHeartbeat /\ pc' \in {"read_row", "write_row", "idle"}
        \/ pc \notin AtHeartbeat /\ pc' = "idle"
    BY <1>3, <1>6 DEF GotPage, Validated, Reported, GoTo, Finish
  <2> QED
    BY <1>1, <1>2, <1>3, <2>1 DEF AtHeartbeat
<1>7. CASE /\ pc \in {"heartbeat", "error"} /\ page # WantedPage
           /\ pc' = IF pc = "heartbeat" THEN "heartbeat_loop" ELSE "error_loop"
  BY <1>1, <1>5, <1>7
<1>8. CASE pc \in {"heartbeat_loop", "error_loop"} /\ page = 0 /\ NoHeartbeat
  <2>1. \/ pc \in AtHeartbeat /\ pc' \in {"write_row", "idle"}
        \/ pc \notin AtHeartbeat /\ pc' = "idle"
    BY <1>3, <1>8 DEF NoHeartbeat, GoTo, Finish
  <2> QED
    BY <1>1, <1>2, <1>3, <2>1 DEF AtHeartbeat
<1>9. CASE pc \in {"heartbeat_loop", "error_loop"} /\ page \notin {0, WantedPage} /\ pc' = pc
  <2>1. heartbeat # WantedPage /\ heartbeat' = WantedPage
    BY <1>1, <1>3, <1>5, <1>9
  <2> QED
    BY <1>1, <1>3, <1>9, <2>1 DEF AtHeartbeat
<1> QED
  BY <1>4, <1>6, <1>7, <1>8, <1>9

\* So does every answer that is awaited once.
LEMMA CallRunsDown ==
  ASSUME IInv, Steps
  PROVE  CallLeft' < CallLeft
<1>1. NUM_STU_ROWS \in Nat /\ NUM_STU_ROWS > 2
  BY Sizes
<1>2. pc \in {"read_row", "read_a", "read_b", "write_row", "write_resp"} =>
        row \in Nat /\ row < NUM_STU_ROWS
  BY <1>1 DEF IInv, TypeOK, Rows
<1> USE DEF CallLeft, GoTo, Finish, OtherPage, hereVars
<1>3. CASE FirstHeartbeat \/ HeartbeatLoop
  BY <1>3, HeartbeatRunsDown
<1>4. CASE OpenAndCheckHeader
  BY <1>1, <1>4 DEF OpenAndCheckHeader
<1>5. CASE SendReadRequest \/ ReadA
  BY <1>1, <1>2, <1>5 DEF SendReadRequest, ReadA
<1>6. CASE ReadB
  <2>1. /\ pc = "read_b"
        /\ \/ pc' = "idle"
           \/ row' = row + 1 /\ pc' = IF MoreRows THEN "read_row" ELSE "output"
    BY <1>6 DEF ReadB, Halves, TakeRow, Fail
  <2> QED
    BY <1>1, <1>2, <2>1 DEF MoreRows
<1>7. CASE Output
  BY <1>7 DEF Output
<1>8. CASE SendRow
  BY <1>1, <1>2, <1>8 DEF SendRow
<1>9. CASE WriteResponse
  <2>1. /\ pc = "write_resp"
        /\ \/ pc' = "idle"
           \/ row' = row + 1 /\ pc' = IF MoreRows THEN "write_row" ELSE "disable"
    BY <1>9 DEF WriteResponse, Fail
  <2> QED
    BY <1>1, <1>2, <2>1 DEF MoreRows
<1>10. CASE Disable \/ Enable
  BY <1>10 DEF Disable, Enable
<1>11. CASE SendParamRead \/ GetA \/ GetB
  BY <1>11 DEF SendParamRead, GetA, GetB
<1>12. CASE SendParamWrite \/ SetResponse
  BY <1>12 DEF SendParamWrite, SetResponse
<1> QED
  BY <1>3, <1>4, <1>5, <1>6, <1>7, <1>8, <1>9, <1>10, <1>11, <1>12 DEF Steps

\* Every step of a call brings it nearer to its return, and a lost frame does not take it
\* back: a call has at most three steps for each row and nine others, whatever the Kinetek
\* answers and whether it answers (STUparam.cpp:66-263, 442-480).
THEOREM CallsAreCounted ==
  Spec => /\ [](CallLeft \in 0..(3 * NUM_STU_ROWS + 9))
          /\ [][/\ Steps => CallLeft' < CallLeft
                /\ ~Steps /\ ~Calls => CallLeft' = CallLeft]_vars
<1>1. IInv => CallLeft \in 0..(3 * NUM_STU_ROWS + 9)
  BY CallLeftIsBounded DEF IInv
<1>2. IInv /\ [Next]_vars =>
        [/\ Steps => CallLeft' < CallLeft
         /\ ~Steps /\ ~Calls => CallLeft' = CallLeft]_vars
  <2> SUFFICES ASSUME IInv, Next
               PROVE  /\ Steps => CallLeft' < CallLeft
                      /\ ~Steps /\ ~Calls => CallLeft' = CallLeft
    OBVIOUS
  <2>1. Loss \/ Ended => UNCHANGED <<pc, row, heartbeat>>
    BY DEF Loss, Ended, vars, kinetekVars, hereVars
  <2>2. Loss \/ Ended => CallLeft' = CallLeft
    BY <2>1 DEF CallLeft, OtherPage
  <2>3. Steps => CallLeft' < CallLeft
    BY CallRunsDown
  <2> QED
    BY <2>2, <2>3 DEF Next
<1> QED
  BY <1>1, <1>2, Invariance, PTL DEF Spec
=============================================================================
