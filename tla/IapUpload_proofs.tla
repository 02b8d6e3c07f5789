-------------------------- MODULE IapUpload_proofs --------------------------
(***************************************************************************)
(* Theorems about the upload, for any set of files, page size and number   *)
(* of faults.  Five parts: packets are built in order and pages counted    *)
(* when they are full; the packets of the whole upload are those of the    *)
(* file, and the bootloader stores an initial part of them, each once or   *)
(* more; the sums of a page and of the file tell what is missing; the      *)
(* order of the frames in the air keeps what is said of one page from      *)
(* being taken for the next; and every step of the program runs the upload *)
(* down, whatever is lost.                                                 *)
(***************************************************************************)
EXTENDS IapUpload, HexUtility_proofs, SequenceTheorems

InitLabels == {"init_send", "init_resp"}
PageLabels == {"page_kt", "page_send", "page_resp"}
LastLabels == {"last_send", "last_ack", "eof_send", "eof_resp", "last_kt", "last_page_send",
               "last_page_resp", "total_send", "total_resp", "heartbeat_skip", "heartbeat",
               "heartbeat_wait"}

\* How much of a packet is there at each place of the program.
FramesAt ==
  /\ pc \in InitLabels \cup PageLabels \cup {"loop"} => frame_count = 0
  /\ pc = "frame" => frame_count < FRAMES
  /\ pc \in {"packet_send", "packet_ack"} => frame_count = FRAMES
  /\ pc \in {"resend", "resend_ack"} => ut.is_eof \/ frame_count = FRAMES
  /\ pc \in LastLabels => ut.is_eof

\* Where the packet counter stands in its page at each place of the program.
InPage ==
  /\ page_count * PAGE_SIZE <= packet_count
  /\ packet_count < page_count * PAGE_SIZE + PAGE_SIZE

PageFull == packet_count = page_count * PAGE_SIZE + PAGE_SIZE

PagesAt ==
  /\ pc \in InitLabels => packet_count = 0 /\ page_count = 0
  /\ pc = "loop" => \/ packet_count = 0 /\ page_count = 0
                    \/ packet_count > page_count * PAGE_SIZE /\ (InPage \/ PageFull)
  /\ pc \in PageLabels => PageFull
  /\ pc = "done" => PagesKeepUp
  /\ pc \notin InitLabels \cup PageLabels \cup {"loop", "done"} => InPage

IInv == TypeOK /\ Reader(file, ut) /\ FramesAt /\ SentInOrder /\ PagesAt

-----------------------------------------------------------------------------
(* Arithmetic of pages. *)

LEMMA PageBase ==
  ASSUME NEW q \in Nat
  PROVE  /\ q * PAGE_SIZE \in Nat
         /\ (q + 1) * PAGE_SIZE = q * PAGE_SIZE + PAGE_SIZE
BY PageSizeAssumption

\* Inside a page and at its end, only the end is a multiple of the page size.
LEMMA OnlyTheEndIsAMultiple ==
  ASSUME NEW q \in Nat, NEW p \in Nat,
         p > q * PAGE_SIZE, p <= q * PAGE_SIZE + PAGE_SIZE
  PROVE  p % PAGE_SIZE = 0 <=> p = q * PAGE_SIZE + PAGE_SIZE
<1> DEFINE k == p \div PAGE_SIZE
           r == p % PAGE_SIZE
<1>1. PAGE_SIZE \in Nat /\ PAGE_SIZE > 0
  BY PageSizeAssumption
<1>2. k \in Int /\ r \in 0..(PAGE_SIZE - 1) /\ p = PAGE_SIZE * k + r
  BY <1>1
<1> HIDE DEF k, r
<1>3. ASSUME r = 0 PROVE p = q * PAGE_SIZE + PAGE_SIZE
  <2>1. PAGE_SIZE * (k - q) > 0 /\ PAGE_SIZE * (k - q - 1) <= 0
    BY <1>1, <1>2, <1>3
  <2>2. k - q > 0 /\ k - q - 1 <= 0
    BY <1>1, <1>2, <2>1
  <2>3. k = q + 1
    BY <1>2, <2>2
  <2> QED
    BY <1>1, <1>2, <1>3, <2>3
<1>4. ASSUME p = q * PAGE_SIZE + PAGE_SIZE PROVE r = 0
  <2>1. PAGE_SIZE * (q + 1 - k) = r
    BY <1>1, <1>2, <1>4
  <2>2. q + 1 - k <= 0 \/ q + 1 - k >= 1
    BY <1>2
  <2>3. CASE q + 1 - k >= 1
    BY <1>1, <1>2, <2>1, <2>3
  <2>4. CASE q + 1 - k <= 0
    BY <1>1, <1>2, <2>1, <2>4
  <2> QED
    BY <2>2, <2>3, <2>4
<1> QED
  BY <1>3, <1>4 DEF r

-----------------------------------------------------------------------------
(* What the parts of the invariant say together. *)

LEMMA PagesFollow ==
  ASSUME IInv
  PROVE  PagesKeepUp
<1> DEFINE B == page_count * PAGE_SIZE
<1>1. /\ B \in Nat /\ (page_count + 1) * PAGE_SIZE = B + PAGE_SIZE
      /\ packet_count \in Nat /\ page_count \in Nat /\ frame_count \in Nat
      /\ PAGE_SIZE \in Nat /\ PAGE_SIZE > 0
  BY PageBase, PageSizeAssumption DEF IInv, TypeOK
<1>2. page_count = 0 => B = 0
  BY <1>1
<1>3. /\ pc \in InitLabels => packet_count = 0 /\ page_count = 0
      /\ pc = "loop" => \/ packet_count = 0 /\ page_count = 0
                        \/ packet_count > B /\ (InPage \/ PageFull)
      /\ pc \in PageLabels => PageFull
      /\ pc \notin InitLabels \cup PageLabels \cup {"loop", "done"} => InPage
      /\ pc = "done" => PagesKeepUp
  BY DEF IInv, PagesAt
<1>4. pc \in InitLabels \cup PageLabels \cup {"loop"} => frame_count = 0
  BY DEF IInv, FramesAt
<1>5. InPage => B <= packet_count /\ packet_count < B + PAGE_SIZE
  BY DEF InPage
<1>6. PageFull => packet_count = B + PAGE_SIZE
  BY DEF PageFull
<1> HIDE DEF B
<1>7. pc # "done" => /\ B <= packet_count /\ packet_count <= B + PAGE_SIZE
                     /\ frame_count > 0 => packet_count < B + PAGE_SIZE
  BY <1>1, <1>2, <1>3, <1>4, <1>5, <1>6
<1> QED
  BY <1>1, <1>3, <1>7 DEF PagesKeepUp, B

\* Faults are counted by whoever makes them.
LEMMA FaultsStayCounted ==
  ASSUME IInv, Next
  PROVE  faults' \in 0..FaultBudget
<1>1. faults \in 0..FaultBudget /\ FaultBudget \in Nat
  BY FaultBudgetAssumption DEF IInv, TypeOK
<1>2. Fault => faults' \in 0..FaultBudget
  BY <1>1 DEF Fault
<1>3. UNCHANGED faults => faults' \in 0..FaultBudget
  BY <1>1
<1>4. Fault \/ UNCHANGED faults
  <2>1. ASSUME NEW id, NEW m, get_frame(id, m) PROVE Fault \/ UNCHANGED faults
    BY <2>1 DEF get_frame, Received, TimedOut
  <2>2. CASE SendInitFrame
    BY <2>2 DEF SendInitFrame, BootOpens, Reply, LostOnTheBus
  <2>3. CASE LoopTop \/ NextFrame \/ EndBetweenPackets \/ EndInsidePacket \/ Done
    BY <2>3 DEF LoopTop, NextFrame, EndBetweenPackets, EndInsidePacket, Done, vars, busVars
  <2>4. CASE SendPageChecksum \/ SendLastPageChecksum
    BY <2>4 DEF SendPageChecksum, SendLastPageChecksum, BootPageChecksum, Reply,
                LostOnTheBus, busVars
  <2>5. CASE SendFullPacket \/ SendPaddedPacket
    BY <2>5 DEF SendFullPacket, SendPaddedPacket, SendPacket, BootPacket, Stores, Reply
  <2>6. CASE Resend
    BY <2>6 DEF Resend, BootResend, Stores, Reply, LostOnTheBus
  <2>7. CASE SendEndOfFile
    BY <2>7 DEF SendEndOfFile, BootEndOfFile, Reply, LostOnTheBus
  <2>8. CASE SendTotalChecksum
    BY <2>8 DEF SendTotalChecksum, BootTotal, Reply, LostOnTheBus, busVars
  <2>9. CASE FirstHeartbeat \/ SecondHeartbeat \/ WaitForPageOne
    BY <2>9 DEF FirstHeartbeat, SecondHeartbeat, WaitForPageOne, NextHeartbeat
  <2>10. CASE Loss \/ Disturbance
    BY <2>10 DEF Loss, LoseFrame, Disturbance, StrayHeartbeat
  <2>11. CASE InitResponse \/ KtPageChecksum \/ PageResponse \/ PacketAck \/ LastAck
    BY <2>1, <2>11 DEF InitResponse, KtPageChecksum, PageResponse, PacketAck, LastAck
  <2>12. CASE ResendAck \/ EndOfFileResponse \/ LastKtPageChecksum \/ LastPageResponse
              \/ TotalResponse
    BY <2>1, <2>12 DEF ResendAck, EndOfFileResponse, LastKtPageChecksum, LastPageResponse,
                       TotalResponse
  <2> QED
    BY <2>2, <2>3, <2>4, <2>5, <2>6, <2>7, <2>8, <2>9, <2>10, <2>11, <2>12 DEF Next, Upload
<1> QED
  BY <1>2, <1>3, <1>4

-----------------------------------------------------------------------------
(* The invariant is kept. *)

\* A step that neither reads the file nor counts keeps it, as long as it stays in
\* its part of the program.
LEMMA QuietStep ==
  ASSUME IInv, faults' \in 0..FaultBudget, tries' \in 0..1,
         step' \in 1..Len(InitFrames),
         UNCHANGED <<file, ut, packet_count, page_count, num_bytes_uploaded,
                     curr_page_cs, frame_count, current_packet>>,
         \/ pc' = pc
         \/ pc' = "done"
         \/ pc \in InitLabels /\ pc' \in InitLabels \cup {"loop"}
         \/ pc \in PageLabels /\ pc' \in PageLabels
         \/ pc \in {"packet_send", "packet_ack"} /\ pc' \in {"packet_ack", "resend"}
         \/ pc = "resend" /\ pc' = "resend_ack"
         \/ pc \in LastLabels /\ pc' \in LastLabels \cup {"resend"}
  PROVE  IInv'
<1>1. TypeOK'
  BY DEF IInv, TypeOK, Labels, InitLabels, PageLabels, LastLabels
<1>2. Reader(file, ut)'
  BY DEF IInv, Reader
<1>3. FramesAt'
  BY DEF IInv, FramesAt, InitLabels, PageLabels, LastLabels
<1>4. SentInOrder'
  BY DEF IInv, SentInOrder
<1>5. PagesAt'
  <2>1. PagesKeepUp'
    BY PagesFollow DEF PagesKeepUp
  <2>2. /\ InPage => InPage'
        /\ PageFull => PageFull'
    BY DEF InPage, PageFull
  <2>3. PagesAt
    BY DEF IInv
  <2> HIDE DEF IInv
  <2> QED
    BY <2>1, <2>2, <2>3 DEF PagesAt, InitLabels, PageLabels, LastLabels
<1> QED
  BY <1>1, <1>2, <1>3, <1>4, <1>5 DEF IInv

\* A full packet acknowledged is counted, and the next one starts empty.
LEMMA PacketDoneStep ==
  ASSUME IInv, PacketDone, faults' \in 0..FaultBudget,
         pc \in {"packet_ack", "resend_ack"},
         UNCHANGED <<file, ut, step, page_count, curr_page_cs, current_packet>>
  PROVE  IInv'
<1>1. /\ packet_count' = packet_count + 1 /\ packet_count \in Nat
      /\ frame_count' = 0 /\ pc' = "loop" /\ tries' = 0
      /\ num_bytes_uploaded' = num_bytes_uploaded + PACKET_SIZE
  BY DEF PacketDone, GoTo, IInv, TypeOK
<1>2. TypeOK'
  BY <1>1 DEF IInv, TypeOK, Labels, PACKET_SIZE, FRAMES, CAN_DATA_LEN
<1>3. Reader(file, ut)'
  BY DEF IInv, Reader
<1>4. FramesAt'
  BY <1>1 DEF FramesAt, InitLabels, PageLabels, LastLabels
<1>5. SentInOrder'
  <2> SUFFICES ASSUME ~ut'.is_eof
               PROVE  /\ Position(file', ut') = FRAMES * packet_count' + frame_count'
                      /\ \A i \in 1..frame_count' :
                           ChunkNumber(file', current_packet'[i]) = FRAMES * packet_count' + i
    BY DEF SentInOrder
  <2>1. ~ut.is_eof /\ frame_count = FRAMES
    BY DEF IInv, FramesAt
  <2>2. Position(file, ut) = FRAMES * packet_count + FRAMES
    BY <2>1 DEF IInv, SentInOrder
  <2>3. FRAMES = 4
    BY DEF FRAMES, PACKET_SIZE, CAN_DATA_LEN
  <2>4. Position(file', ut') = Position(file, ut)
    OBVIOUS
  <2> QED
    BY <1>1, <2>2, <2>3, <2>4
<1>6. PagesAt'
  <2>1. InPage
    BY DEF IInv, PagesAt, InitLabels, PageLabels
  <2>2. page_count * PAGE_SIZE \in Nat /\ PAGE_SIZE \in Nat
    BY PageBase, PageSizeAssumption DEF IInv, TypeOK
  <2>3. packet_count' > page_count' * PAGE_SIZE /\ (InPage' \/ PageFull')
    BY <1>1, <2>1, <2>2 DEF InPage, PageFull
  <2> QED
    BY <1>1, <2>3 DEF PagesAt, InitLabels, PageLabels
<1> QED
  BY <1>2, <1>3, <1>4, <1>5, <1>6 DEF IInv

\* At the top of the loop a full page and only a full page is closed.
LEMMA LoopTopStep ==
  ASSUME IInv, LoopTop
  PROVE  IInv'
<1>1. /\ pc = "loop" /\ tries' = 0
      /\ pc' = IF PageBoundary THEN "page_kt" ELSE "frame"
      /\ UNCHANGED <<file, ut, step, packet_count, page_count, num_bytes_uploaded,
                     curr_page_cs, frame_count, current_packet, faults>>
  BY DEF LoopTop, GoTo, uploadVars, busVars
<1>2. /\ packet_count \in Nat /\ page_count \in Nat /\ page_count * PAGE_SIZE \in Nat
      /\ PAGE_SIZE \in Nat /\ PAGE_SIZE > 0
  BY PageBase, PageSizeAssumption DEF IInv, TypeOK
<1>3. TypeOK'
  BY <1>1 DEF IInv, TypeOK, Labels
<1>4. Reader(file, ut)'
  BY <1>1 DEF IInv, Reader
<1>5. frame_count = 0
  BY <1>1 DEF IInv, FramesAt
<1>6. FramesAt'
  BY <1>1, <1>5 DEF FramesAt, InitLabels, PageLabels, LastLabels, FRAMES, PACKET_SIZE,
                    CAN_DATA_LEN
<1>7. SentInOrder'
  BY <1>1 DEF IInv, SentInOrder
<1>8. PagesAt'
  <2>1. \/ packet_count = 0 /\ page_count = 0
        \/ packet_count > page_count * PAGE_SIZE /\ (InPage \/ PageFull)
    BY <1>1 DEF IInv, PagesAt
  <2>2. CASE packet_count = 0 /\ page_count = 0
    <3>1. pc' = "frame" /\ InPage'
      BY <1>1, <1>2, <2>2 DEF PageBoundary, InPage
    <3> QED
      BY <3>1 DEF PagesAt, InitLabels, PageLabels
  <2>3. CASE packet_count > page_count * PAGE_SIZE /\ (InPage \/ PageFull)
    <3>1. PageBoundary <=> PageFull
      <4>1. packet_count <= page_count * PAGE_SIZE + PAGE_SIZE /\ packet_count > 0
        BY <1>2, <2>3 DEF InPage, PageFull
      <4> QED
        BY <1>2, <2>3, <4>1, OnlyTheEndIsAMultiple DEF PageBoundary, PageFull
    <3>2. InPage' <=> InPage
      BY <1>1 DEF InPage
    <3>3. PageFull' <=> PageFull
      BY <1>1 DEF PageFull
    <3> QED
      BY <1>1, <2>3, <3>1, <3>2, <3>3 DEF PagesAt, InitLabels, PageLabels
  <2> QED
    BY <2>1, <2>2, <2>3
<1> QED
  BY <1>3, <1>4, <1>6, <1>7, <1>8 DEF IInv

\* An accepted page is counted when it is full.
LEMMA PageResponseStep ==
  ASSUME IInv, PageResponse, faults' \in 0..FaultBudget
  PROVE  IInv'
<1>1. /\ pc = "page_resp" /\ tries \in 0..1
      /\ UNCHANGED <<file, ut, step, packet_count, num_bytes_uploaded, frame_count,
                     current_packet>>
  BY DEF PageResponse, IInv, TypeOK
<1>2. \/ NextPage /\ pc' = "frame" /\ tries' = 0
      \/ /\ pc' \in {"page_resp", "done"} /\ tries' \in 0..1
         /\ UNCHANGED <<page_count, curr_page_cs>>
  BY <1>1 DEF PageResponse, GoTo, TryAgain, Finish
<1>3. CASE pc' \in {"page_resp", "done"} /\ tries' \in 0..1
           /\ UNCHANGED <<page_count, curr_page_cs>>
  <2>1. pc' = pc \/ pc' = "done"
    BY <1>1, <1>3
  <2>2. step' \in 1..Len(InitFrames)
    BY <1>1 DEF IInv, TypeOK
  <2> QED
    BY <1>1, <1>3, <2>1, <2>2, QuietStep
<1>4. CASE NextPage /\ pc' = "frame" /\ tries' = 0
  <2>1. page_count' = page_count + 1 /\ curr_page_cs' = 0
    BY <1>4 DEF NextPage
  <2>2. /\ packet_count \in Nat /\ page_count \in Nat /\ page_count * PAGE_SIZE \in Nat
        /\ PAGE_SIZE \in Nat /\ PAGE_SIZE > 0
        /\ (page_count + 1) * PAGE_SIZE = page_count * PAGE_SIZE + PAGE_SIZE
    BY PageBase, PageSizeAssumption DEF IInv, TypeOK
  <2>3. frame_count = 0 /\ PageFull
    BY <1>1 DEF IInv, FramesAt, PagesAt, PageLabels
  <2>4. TypeOK'
    BY <1>1, <1>4, <2>1 DEF IInv, TypeOK, Labels
  <2>5. Reader(file, ut)'
    BY <1>1 DEF IInv, Reader
  <2>6. FramesAt'
    BY <1>1, <1>4, <2>3 DEF FramesAt, InitLabels, PageLabels, LastLabels, FRAMES,
                            PACKET_SIZE, CAN_DATA_LEN
  <2>7. SentInOrder'
    BY <1>1 DEF IInv, SentInOrder
  <2>8. InPage'
    BY <1>1, <2>1, <2>2, <2>3 DEF InPage, PageFull
  <2>9. PagesAt'
    BY <1>4, <2>8 DEF PagesAt, InitLabels, PageLabels
  <2> QED
    BY <2>4, <2>5, <2>6, <2>7, <2>9 DEF IInv
<1> QED
  BY <1>2, <1>3, <1>4

\* The end of the data is met between packets or inside one.
LEMMA EndStep ==
  ASSUME IInv, EndBetweenPackets \/ EndInsidePacket, faults' \in 0..FaultBudget
  PROVE  IInv'
<1>1. /\ pc = "frame" /\ AtEnd(file, ut) /\ ut' = AfterEnd(ut) /\ tries' = 0
      /\ pc' \in LastLabels
      /\ UNCHANGED <<file, step, packet_count, page_count, curr_page_cs, frame_count>>
      /\ \/ num_bytes_uploaded' = num_bytes_uploaded - PACKET_SIZE
                                     + (DataSize(file) % PACKET_SIZE)
         \/ num_bytes_uploaded' = num_bytes_uploaded + (DataSize(file) % PACKET_SIZE)
      /\ DOMAIN current_packet' = 1..FRAMES
  BY DEF EndBetweenPackets, EndInsidePacket, GoTo, LastLabels, IInv, TypeOK
<1>2. HexFile(file) /\ DataSize(file) \in Nat
  <2>1. HexFile(file)
    BY FilesAssumption DEF IInv, TypeOK
  <2> QED
    BY <2>1, SumsOverLines
<1>3. Reader(file, ut') /\ ut'.is_eof
  BY <1>1, <1>2, EndKeepsReader DEF IInv
<1>4. num_bytes_uploaded' \in Int
  <2>1. DataSize(file) % PACKET_SIZE \in Int /\ PACKET_SIZE \in Int
    BY <1>2 DEF PACKET_SIZE
  <2>2. num_bytes_uploaded \in Int
    BY DEF IInv, TypeOK
  <2> QED
    BY <1>1, <2>1, <2>2
<1>5. TypeOK'
  <2>1. pc' \in Labels
    BY <1>1 DEF LastLabels, Labels
  <2>2. /\ ut'.curr_line \in 0..Len(file')
        /\ ut'.is_first_8 \in BOOLEAN /\ ut'.is_eof \in BOOLEAN /\ ut'.is_open \in BOOLEAN
    BY <1>1, <1>3 DEF Reader
  <2> QED
    BY <1>1, <1>4, <2>1, <2>2 DEF IInv, TypeOK
<1>6. Reader(file, ut)'
  BY <1>1, <1>3
<1>7. FramesAt'
  BY <1>1, <1>3 DEF FramesAt, InitLabels, PageLabels, LastLabels
<1>8. SentInOrder'
  BY <1>3 DEF SentInOrder
<1>9. PagesAt'
  <2>1. InPage
    BY <1>1 DEF IInv, PagesAt, InitLabels, PageLabels
  <2>2. InPage'
    BY <1>1, <2>1 DEF InPage
  <2> QED
    BY <1>1, <2>2 DEF PagesAt, InitLabels, PageLabels, LastLabels
<1> QED
  BY <1>5, <1>6, <1>7, <1>8, <1>9 DEF IInv

\* The next eight bytes are the next chunk, and go into the next place.
LEMMA NextFrameStep ==
  ASSUME IInv, NextFrame, faults' \in 0..FaultBudget
  PROVE  IInv'
<1> DEFINE c == NextChunk(file, ut)
<1>1. /\ pc = "frame" /\ ~AtEnd(file, ut) /\ ut' = AfterChunk(file, ut) /\ tries' = 0
      /\ curr_page_cs' = curr_page_cs + ChunkSum(file, c)
      /\ current_packet' = [current_packet EXCEPT ![frame_count + 1] = c]
      /\ frame_count' = frame_count + 1
      /\ pc' = IF frame_count + 1 = FRAMES THEN "packet_send" ELSE "frame"
      /\ UNCHANGED <<file, step, packet_count, page_count, num_bytes_uploaded>>
  BY DEF NextFrame, GoTo
<1>2. HexFile(file)
  BY FilesAssumption DEF IInv, TypeOK
<1>3. /\ Reader(file, ut')
      /\ ut'.is_eof = ut.is_eof
      /\ c.line \in DataLines(file) /\ c.half \in 1..2
      /\ ~ut.is_eof => /\ Position(file, ut') = Position(file, ut) + 1
                       /\ ChunkNumber(file, c) = Position(file, ut) + 1
  BY <1>1, <1>2, OneChunkForward DEF IInv
<1> HIDE DEF c
<1>4. /\ frame_count \in 0..(FRAMES - 1) /\ FRAMES = 4 /\ packet_count \in Nat
      /\ DOMAIN current_packet = 1..FRAMES
  <2>1. frame_count < FRAMES
    BY <1>1 DEF IInv, FramesAt
  <2> QED
    BY <2>1 DEF IInv, TypeOK, FRAMES, PACKET_SIZE, CAN_DATA_LEN
<1>5. TypeOK'
  <2>1. ChunkSum(file, c) \in Nat
    <3>1. file[c.line] \in HexRecord
      BY <1>2, <1>3 DEF HexFile, DataLines
    <3>2. file[c.line].sum[c.half] \in Nat
      BY <1>3, <3>1 DEF HexRecord
    <3> QED
      BY <3>2 DEF ChunkSum
  <2>2. /\ ut'.curr_line \in 0..Len(file')
        /\ ut'.is_first_8 \in BOOLEAN /\ ut'.is_eof \in BOOLEAN /\ ut'.is_open \in BOOLEAN
    BY <1>1, <1>3 DEF Reader
  <2>3. pc' \in Labels /\ frame_count' \in 0..FRAMES
    BY <1>1, <1>4 DEF Labels
  <2> QED
    BY <1>1, <2>1, <2>2, <2>3 DEF IInv, TypeOK
<1>6. FramesAt'
  BY <1>1, <1>4 DEF FramesAt, InitLabels, PageLabels, LastLabels
<1>7. SentInOrder'
  <2> SUFFICES ASSUME ~ut'.is_eof
               PROVE  /\ Position(file', ut') = FRAMES * packet_count' + frame_count'
                      /\ \A i \in 1..frame_count' :
                           ChunkNumber(file', current_packet'[i]) = FRAMES * packet_count' + i
    BY DEF SentInOrder
  <2>1. /\ Position(file, ut) = FRAMES * packet_count + frame_count
        /\ \A i \in 1..frame_count :
             ChunkNumber(file, current_packet[i]) = FRAMES * packet_count + i
    BY <1>3 DEF IInv, SentInOrder
  <2>2. Position(file', ut') = FRAMES * packet_count' + frame_count'
    BY <1>1, <1>3, <1>4, <2>1
  <2>3. ASSUME NEW i \in 1..frame_count'
        PROVE  ChunkNumber(file', current_packet'[i]) = FRAMES * packet_count' + i
    <3>1. CASE i = frame_count + 1
      <4>1. current_packet'[i] = c
        BY <1>1, <1>4, <3>1
      <4> QED
        BY <1>1, <1>3, <1>4, <2>1, <3>1, <4>1
    <3>2. CASE i \in 1..frame_count
      <4>1. current_packet'[i] = current_packet[i]
        BY <1>1, <1>4, <3>2
      <4> QED
        BY <1>1, <2>1, <3>2, <4>1
    <3> QED
      BY <1>1, <1>4, <2>3, <3>1, <3>2
  <2> QED
    BY <2>2, <2>3
<1>8. PagesAt'
  <2>1. InPage
    BY <1>1 DEF IInv, PagesAt, InitLabels, PageLabels
  <2>2. InPage'
    BY <1>1, <2>1 DEF InPage
  <2> QED
    BY <1>1, <2>2 DEF PagesAt, InitLabels, PageLabels
<1>9. Reader(file, ut)'
  BY <1>1, <1>3
<1> QED
  BY <1>5, <1>6, <1>7, <1>8, <1>9 DEF IInv

\* The upload starts with the reader at the start of the file and nothing counted.
LEMMA InitEstablishes == Init => IInv
<1> SUFFICES ASSUME Init PROVE IInv
  OBVIOUS
<1>1. HexFile(file)
  BY FilesAssumption DEF Init
<1>2. Len(file) \in Nat
  BY <1>1 DEF HexFile
<1>3. ut = NewReader /\ Reader(file, ut) /\ ~ut.is_eof /\ Position(file, ut) = 0
  BY <1>1, NewReaderAtStart DEF Init
<1>4. FRAMES = 4 /\ 1 \in 1..Len(InitFrames)
  BY DEF FRAMES, PACKET_SIZE, CAN_DATA_LEN, InitFrames
<1>5. TypeOK
  BY <1>3, <1>4, FaultBudgetAssumption DEF Init, TypeOK, Labels, EmptyPacket, Reader
<1>6. FramesAt
  BY <1>4 DEF Init, FramesAt, LastLabels
<1>7. SentInOrder
  BY <1>3, <1>4 DEF Init, SentInOrder
<1>8. PagesAt
  BY DEF Init, PagesAt, InitLabels, PageLabels
<1> QED
  BY <1>3, <1>5, <1>6, <1>7, <1>8 DEF IInv

\* Every step of the program, of the bus and of the bootloader keeps the invariant.
LEMMA StepKeeps == IInv /\ [Next]_vars => IInv'
<1> SUFFICES ASSUME IInv, [Next]_vars PROVE IInv'
  OBVIOUS
<1> DEFINE Still == UNCHANGED <<file, ut, packet_count, page_count, num_bytes_uploaded,
                                curr_page_cs, frame_count, current_packet>>
<1>1. tries \in 0..1 /\ step \in 1..Len(InitFrames) /\ faults \in 0..FaultBudget
  BY DEF IInv, TypeOK
<1>2. faults' \in 0..FaultBudget
  BY <1>1, FaultsStayCounted DEF vars, busVars
<1>3. CASE UNCHANGED vars
  <2>1. Still /\ UNCHANGED <<pc, tries, step, faults>>
    BY <1>3 DEF vars, uploadVars, busVars
  <2> QED
    BY <1>1, <1>2, <2>1, QuietStep
<1>4. CASE Done
  <2>1. Still /\ UNCHANGED <<pc, tries, step, faults>>
    BY <1>4 DEF Done, vars, uploadVars, busVars
  <2> QED
    BY <1>1, <1>2, <2>1, QuietStep
<1>5. CASE Loss \/ Disturbance
  <2>1. Still /\ UNCHANGED <<pc, tries, step>>
    BY <1>5 DEF Loss, Disturbance, StrayHeartbeat, uploadVars
  <2> QED
    BY <1>1, <1>2, <2>1, QuietStep
<1>6. CASE SendInitFrame
  <2>1. /\ Still /\ step' = step /\ tries' = 0
        /\ pc \in InitLabels /\ pc' \in InitLabels
    BY <1>6 DEF SendInitFrame, GoTo, uploadVars, InitLabels
  <2> QED
    BY <1>1, <1>2, <2>1, QuietStep
<1>7. CASE InitResponse
  <2>1. /\ Still /\ tries' = 0 /\ pc \in InitLabels
        /\ pc' = "done" \/ pc' \in InitLabels \cup {"loop"}
        /\ step' = step \/ (step < Len(InitFrames) /\ step' = step + 1)
    BY <1>7 DEF InitResponse, GoTo, Finish, uploadVars, InitLabels
  <2>2. step' \in 1..Len(InitFrames)
    BY <1>1, <2>1 DEF InitFrames
  <2> QED
    BY <1>1, <1>2, <2>1, <2>2, QuietStep
<1>8. CASE LoopTop
  BY <1>8, LoopTopStep
<1>9. CASE KtPageChecksum \/ SendPageChecksum
  <2>1. /\ Still /\ step' = step /\ tries' \in 0..1
        /\ pc \in PageLabels /\ pc' \in PageLabels
    BY <1>9 DEF KtPageChecksum, SendPageChecksum, GoTo, TryAgain, uploadVars, PageLabels
  <2> QED
    BY <1>1, <1>2, <2>1, QuietStep
<1>10. CASE PageResponse
  BY <1>2, <1>10, PageResponseStep
<1>11. CASE NextFrame
  BY <1>2, <1>11, NextFrameStep
<1>12. CASE EndBetweenPackets \/ EndInsidePacket
  BY <1>2, <1>12, EndStep
<1>13. CASE SendFullPacket
  <2>1. /\ Still /\ step' = step /\ tries' = 0
        /\ pc = "packet_send" /\ pc' = "packet_ack"
    BY <1>13 DEF SendFullPacket, SendPacket, GoTo, uploadVars
  <2> QED
    BY <1>1, <1>2, <2>1, QuietStep
<1>14. CASE SendPaddedPacket
  <2>1. /\ Still /\ step' = step /\ tries' = 0
        /\ pc \in LastLabels /\ pc' \in LastLabels
    BY <1>14 DEF SendPaddedPacket, SendPacket, GoTo, uploadVars, LastLabels
  <2> QED
    BY <1>1, <1>2, <2>1, QuietStep
<1>15. CASE PacketAck
  <2>1. /\ pc = "packet_ack"
        /\ UNCHANGED <<file, ut, step, page_count, curr_page_cs, current_packet>>
        /\ \/ PacketDone
           \/ /\ tries' \in 0..1 /\ pc' \in {"packet_ack", "resend"}
              /\ UNCHANGED <<packet_count, num_bytes_uploaded, frame_count>>
    BY <1>15 DEF PacketAck, TryAgain, GoTo
  <2>2. CASE PacketDone
    BY <1>2, <1>15, <2>1, <2>2, PacketDoneStep
  <2>3. CASE ~PacketDone
    BY <1>1, <1>2, <2>1, <2>3, QuietStep
  <2> QED
    BY <2>2, <2>3
<1>16. CASE LastAck
  <2>1. /\ Still /\ step' = step /\ tries' \in 0..1
        /\ pc \in LastLabels /\ pc' \in LastLabels \cup {"resend"}
    BY <1>16 DEF LastAck, TryAgain, GoTo, uploadVars, LastLabels
  <2> QED
    BY <1>1, <1>2, <2>1, QuietStep
<1>17. CASE Resend
  <2>1. Still /\ step' = step /\ tries' = 0 /\ pc = "resend" /\ pc' = "resend_ack"
    BY <1>17 DEF Resend, GoTo, uploadVars
  <2> QED
    BY <1>1, <1>2, <2>1, QuietStep
<1>18. CASE ResendAck
  <2>1. /\ pc = "resend_ack"
        /\ UNCHANGED <<file, ut, step, page_count, curr_page_cs, current_packet>>
        /\ \/ PacketDone
           \/ /\ tries' \in 0..1
              /\ pc' \in {"resend_ack", "done"}
              /\ UNCHANGED <<packet_count, num_bytes_uploaded, frame_count>>
    BY <1>18 DEF ResendAck, TryAgain, Finish
  <2>2. CASE PacketDone
    BY <1>2, <1>18, <2>1, <2>2, PacketDoneStep
  <2>3. CASE ~PacketDone
    BY <1>1, <1>2, <2>1, <2>3, QuietStep
  <2> QED
    BY <2>2, <2>3
<1>19. CASE SendEndOfFile \/ EndOfFileResponse
  <2>1. /\ Still /\ step' = step /\ tries' \in 0..1
        /\ pc \in LastLabels
        /\ pc' = "done" \/ pc' \in LastLabels
    BY <1>19 DEF SendEndOfFile, EndOfFileResponse, GoTo, TryAgain, Finish, uploadVars,
                 LastLabels
  <2> QED
    BY <1>1, <1>2, <2>1, QuietStep
<1>20. CASE LastKtPageChecksum \/ SendLastPageChecksum \/ LastPageResponse
  <2>1. /\ Still /\ step' = step /\ tries' \in 0..1
        /\ pc \in LastLabels
        /\ pc' = "done" \/ pc' \in LastLabels
    BY <1>20 DEF LastKtPageChecksum, SendLastPageChecksum, LastPageResponse, GoTo,
                 TryAgain, Finish, uploadVars, LastLabels
  <2> QED
    BY <1>1, <1>2, <2>1, QuietStep
<1>21. CASE SendTotalChecksum \/ TotalResponse
  <2>1. /\ Still /\ step' = step /\ tries' \in 0..1
        /\ pc \in LastLabels
        /\ pc' = "done" \/ pc' \in LastLabels
    BY <1>21 DEF SendTotalChecksum, TotalResponse, GoTo, Finish, uploadVars, LastLabels
  <2> QED
    BY <1>1, <1>2, <2>1, QuietStep
<1>22. CASE FirstHeartbeat \/ SecondHeartbeat \/ WaitForPageOne
  <2>1. /\ Still /\ step' = step /\ tries' \in 0..1
        /\ pc \in LastLabels
        /\ pc' = "done" \/ pc' \in LastLabels
    BY <1>22 DEF FirstHeartbeat, SecondHeartbeat, WaitForPageOne, GoTo, Finish,
                 uploadVars, LastLabels
  <2> QED
    BY <1>1, <1>2, <2>1, QuietStep
<1> QED
  BY <1>3, <1>4, <1>5, <1>6, <1>7, <1>8, <1>9, <1>10, <1>11, <1>12, <1>13, <1>14, <1>15,
     <1>16, <1>17, <1>18, <1>19, <1>20, <1>21, <1>22 DEF Next, Upload

\* The invariant holds in every state.
THEOREM Invariance == Spec => []IInv
<1>1. Init => IInv
  BY InitEstablishes
<1>2. IInv /\ [Next]_vars => IInv'
  BY StepKeeps
<1> QED
  BY <1>1, <1>2, PTL DEF Spec

\* Type correctness: in particular no packet gets a fifth frame (IAP.cpp:510-677).
THEOREM TypeCorrectness == Spec => []TypeOK
<1>1. IInv => TypeOK
  BY DEF IInv
<1> QED
  BY <1>1, Invariance, PTL

\* Through any number of time-outs, retries and resends the packets hold the file's
\* chunks in order, none skipped and none twice, until the end of the data
\* (IAP.cpp:396-416, 507-681; HexUtility.cpp:99-190).
THEOREM PacketsInOrder == Spec => []SentInOrder
<1>1. IInv => SentInOrder
  BY DEF IInv
<1> QED
  BY <1>1, Invariance, PTL

\* For every page size, the page count follows the packet count: a page is closed
\* when it is full, and no packet of the next page is built before that
\* (IAP.cpp:346-393).
THEOREM PagesCounted == Spec => []PagesKeepUp
<1>1. IInv => PagesKeepUp
  BY PagesFollow
<1> QED
  BY <1>1, Invariance, PTL

-----------------------------------------------------------------------------
(* The packets of a file: their sums and how many bytes they hold. *)

LEMMA PairOfChunks ==
  ASSUME NEW f, HexFile(f), NEW r \in Nat, r > 0
  PROVE  LET a == FileChunk(f, 2 * r - 1)
             b == FileChunk(f, 2 * r)
         IN  /\ ChunkSum(f, a) \in Nat /\ ChunkSum(f, b) \in Nat
             /\ FrameLen(f, a) \in 0..8 /\ FrameLen(f, b) \in 0..8
             /\ ChunkSum(f, a) + ChunkSum(f, b) = OfLines(f, SumsOf(f))[r]
             /\ FrameLen(f, a) + FrameLen(f, b) = OfLines(f, LensOf(f))[r]
<1> DEFINE n == Cardinality(DataLines(f))
           d == LineAt(f, r)
           a == FileChunk(f, 2 * r - 1)
           b == FileChunk(f, 2 * r)
<1>1. n \in Nat
  BY AllDataLines
<1>2. CASE r > n
  <2>1. a = Filler /\ b = Filler
    BY <1>2, ChunksBehind
  <2>2. OfLines(f, SumsOf(f))[r] = 0 /\ OfLines(f, LensOf(f))[r] = 0
    BY <1>1, <1>2 DEF OfLines
  <2> HIDE DEF a, b
  <2>3. ChunkSum(f, a) = 0 /\ ChunkSum(f, b) = 0 /\ FrameLen(f, a) = 0 /\ FrameLen(f, b) = 0
    BY <2>1 DEF ChunkSum, FrameLen
  <2> QED
    BY <2>2, <2>3 DEF a, b
<1>3. CASE r <= n
  <2>1. r \in 1..n
    BY <1>1, <1>3
  <2>2. d \in DataLines(f) /\ a = Chunk(d, 1) /\ b = IF Short(f, d) THEN Filler ELSE Chunk(d, 2)
    BY <2>1, LineAtRank, ChunksOfLine
  <2>3. OfLines(f, SumsOf(f))[r] = f[d].sum[1] + f[d].sum[2] /\ OfLines(f, LensOf(f))[r] = f[d].len
    BY <2>1, <2>2 DEF OfLines, SumsOf, LensOf
  <2> HIDE DEF d, a, b
  <2>4. /\ d >= 1 /\ d \in Nat /\ f[d].len \in 1..16
        /\ f[d].sum[1] \in Nat /\ f[d].sum[2] \in Nat
        /\ f[d].len <= 8 => f[d].sum[2] = 0
        /\ Short(f, d) <=> f[d].len <= 8
    BY <2>2, RecordFacts
  <2>5. ChunkSum(f, a) = f[d].sum[1]
    BY <2>2, <2>4 DEF ChunkSum, Filler, Chunk
  <2>6. FrameLen(f, a) = IF Short(f, d) THEN f[d].len ELSE 8
    <3>1. a # Filler /\ a.half = 1 /\ a.line = d
      BY <2>2, <2>4 DEF Filler, Chunk
    <3>2. FrameLen(f, a) = Min({f[d].len, 8})
      BY <3>1 DEF FrameLen, CAN_DATA_LEN
    <3>3. {f[d].len, 8} \subseteq Nat /\ {f[d].len, 8} # {}
      BY <2>4
    <3>4. Min({f[d].len, 8}) \in {f[d].len, 8} /\ \A x \in {f[d].len, 8} : Min({f[d].len, 8}) <= x
      BY <3>3, MinOfNaturals
    <3> QED
      BY <2>4, <3>2, <3>4
  <2>7. CASE Short(f, d)
    <3>1. ChunkSum(f, b) = 0 /\ FrameLen(f, b) = 0
      BY <2>2, <2>7 DEF ChunkSum, FrameLen
    <3> QED
      BY <2>3, <2>4, <2>5, <2>6, <2>7, <3>1 DEF a, b
  <2>8. CASE ~Short(f, d)
    <3>1. b # Filler /\ b.half = 2 /\ b.line = d
      BY <2>2, <2>4, <2>8 DEF Filler, Chunk
    <3>2. ChunkSum(f, b) = f[d].sum[2] /\ FrameLen(f, b) = f[d].len - 8
      BY <3>1 DEF ChunkSum, FrameLen, CAN_DATA_LEN
    <3> QED
      BY <2>3, <2>4, <2>5, <2>6, <2>8, <3>2 DEF a, b
  <2> QED
    BY <2>7, <2>8
<1> QED
  BY <1>1, <1>2, <1>3

Sums(f) == OfLines(f, SumsOf(f))
Lens(f) == OfLines(f, LensOf(f))

\* The sum of a packet in bytes, fillers included.
LEMMA SumOfPacket ==
  ASSUME NEW f, HexFile(f), NEW p \in Nat, p > 0
  PROVE  /\ Sums(f)[2 * p - 1] \in Nat /\ Sums(f)[2 * p] \in Nat
         /\ Lens(f)[2 * p - 1] \in 0..16 /\ Lens(f)[2 * p] \in 0..16
         /\ PacketSum(f, FilePacket(f, p))
              = (Sums(f)[2 * p - 1] + Sums(f)[2 * p])
                  + 255 * (32 - (Lens(f)[2 * p - 1] + Lens(f)[2 * p]))
<1> DEFINE q == FilePacket(f, p)
           c(i) == FileChunk(f, 4 * (p - 1) + i)
<1>1. q[1] = c(1) /\ q[2] = c(2) /\ q[3] = c(3) /\ q[4] = c(4)
  BY DEF FilePacket, FRAMES, PACKET_SIZE, CAN_DATA_LEN
<1>2. /\ 4 * (p - 1) + 1 = 2 * (2 * p - 1) - 1 /\ 4 * (p - 1) + 2 = 2 * (2 * p - 1)
      /\ 4 * (p - 1) + 3 = 2 * (2 * p) - 1 /\ 4 * (p - 1) + 4 = 2 * (2 * p)
      /\ 2 * p - 1 \in Nat /\ 2 * p - 1 > 0 /\ 2 * p \in Nat /\ 2 * p > 0
  OBVIOUS
<1>3. /\ ChunkSum(f, c(1)) \in Nat /\ ChunkSum(f, c(2)) \in Nat
      /\ FrameLen(f, c(1)) \in 0..8 /\ FrameLen(f, c(2)) \in 0..8
      /\ ChunkSum(f, c(1)) + ChunkSum(f, c(2)) = Sums(f)[2 * p - 1]
      /\ FrameLen(f, c(1)) + FrameLen(f, c(2)) = Lens(f)[2 * p - 1]
  BY <1>2, PairOfChunks DEF Sums, Lens
<1>4. /\ ChunkSum(f, c(3)) \in Nat /\ ChunkSum(f, c(4)) \in Nat
      /\ FrameLen(f, c(3)) \in 0..8 /\ FrameLen(f, c(4)) \in 0..8
      /\ ChunkSum(f, c(3)) + ChunkSum(f, c(4)) = Sums(f)[2 * p]
      /\ FrameLen(f, c(3)) + FrameLen(f, c(4)) = Lens(f)[2 * p]
  BY <1>2, PairOfChunks DEF Sums, Lens
<1> HIDE DEF c, q
<1>5. \A x : FrameBytes(f, x) = ChunkSum(f, x) + 255 * (8 - FrameLen(f, x))
  BY DEF FrameBytes, CAN_DATA_LEN
<1>6. PacketSum(f, q) = FrameBytes(f, c(1)) + FrameBytes(f, c(2)) + FrameBytes(f, c(3))
                          + FrameBytes(f, c(4))
  BY <1>1 DEF PacketSum
<1> QED
  BY <1>3, <1>4, <1>5, <1>6 DEF q

-----------------------------------------------------------------------------
LEMMA SumSixteens ==
  ASSUME NEW F, NEW n \in Nat, \A k \in 1..n : F[k] = 16
  PROVE  SumF(F, 1..n) = 16 * n
<1> DEFINE S == {m \in Nat : m <= n => SumF(F, 1..m) = 16 * m}
<1>1. 0 \in S
  <2>1. 1..0 = {}
    OBVIOUS
  <2> QED
    BY <2>1, SumEmpty
<1>2. ASSUME NEW m \in Nat, m \in S PROVE m + 1 \in S
  <2> SUFFICES ASSUME m + 1 <= n PROVE SumF(F, 1..(m + 1)) = 16 * (m + 1)
    OBVIOUS
  <2>1. \A k \in 1..(m + 1) : F[k] \in Int
    OBVIOUS
  <2>2. SumF(F, 1..(m + 1)) = F[m + 1] + SumF(F, 1..m)
    BY <2>1, SumNext
  <2>3. F[m + 1] = 16 /\ SumF(F, 1..m) = 16 * m
    BY <1>2
  <2> QED
    BY <2>2, <2>3
<1> HIDE DEF S
<1>3. n \in S
  BY <1>1, <1>2, EveryNatural
<1> QED
  BY <1>3 DEF S

LastSize(f) == LET rest == DataSize(f) % 32 IN IF rest = 0 THEN 32 ELSE rest

\* Every packet but the last is full, and the last one holds the rest.
LEMMA LensOfPackets ==
  ASSUME NEW f, HexFile(f), NEW p \in 1..FilePackets(f)
  PROVE  Lens(f)[2 * p - 1] + Lens(f)[2 * p] = IF p < FilePackets(f) THEN 32 ELSE LastSize(f)
<1> DEFINE n == Cardinality(DataLines(f))
           M == Lens(f)
           P == FilePackets(f)
<1>1. n \in Nat
  BY AllDataLines
<1>2. ChunkCount(f) \in {2 * n - 1, 2 * n} /\ ChunkCount(f) \in Nat
  BY <1>1, ChunkCountIsNat DEF ChunkCount
<1>3. P = (ChunkCount(f) + 3) \div 4
  BY DEF FilePackets, FRAMES, PACKET_SIZE, CAN_DATA_LEN
<1>4. ASSUME NEW r \in 1..n PROVE /\ M[r] \in 1..16 /\ (r < n => M[r] = 16)
  <2>1. LineAt(f, r) \in DataLines(f) /\ DataLinesTo(f, LineAt(f, r)) = r
    BY LineAtRank
  <2>2. r \in Nat /\ r < n => r # n
    BY <1>1
  <2>3. M[r] = f[LineAt(f, r)].len
    BY <2>1, <2>2 DEF Lens, OfLines, LensOf
  <2>4. f[LineAt(f, r)].len \in 1..16
    BY <2>1, RecordFacts
  <2>5. f[LineAt(f, r)].len < 16 => r = n
    BY <2>1, LastLine
  <2> QED
    BY <2>2, <2>3, <2>4, <2>5
<1>5. \A r \in Nat : r > n => M[r] = 0
  BY <1>1 DEF Lens, OfLines
<1>6. n >= 1 => DataSize(f) = 16 * (n - 1) + M[n]
  <2> SUFFICES ASSUME n >= 1 PROVE DataSize(f) = 16 * (n - 1) + M[n]
    OBVIOUS
  <2> DEFINE m == n - 1
  <2>1. m \in Nat /\ m + 1 = n
    BY <1>1
  <2>2. DataSize(f) = SumF(M, 1..n)
    <3>1. \A d \in DataLines(f) : LensOf(f)[d] \in Int
      BY RecordFacts DEF LensOf
    <3>2. n >= Cardinality(DataLines(f))
      BY <1>1
    <3> QED
      BY <1>1, <3>1, <3>2, SumsOverLines, SumByRank DEF Lens
  <2> HIDE DEF M, n
  <2>3. \A k \in 1..(m + 1) : M[k] \in Int
    BY <1>4, <2>1
  <2>4. \A k \in 1..m : M[k] = 16
    BY <1>1, <1>4, <2>1
  <2> HIDE DEF m
  <2>5. SumF(M, 1..(m + 1)) = M[m + 1] + SumF(M, 1..m)
    BY <2>1, <2>3, SumNext
  <2>6. SumF(M, 1..m) = 16 * m
    BY <2>1, <2>4, SumSixteens
  <2>7. DataSize(f) = M[n] + 16 * m
    BY <2>1, <2>2, <2>5, <2>6
  <2>8. M[n] \in Int
    BY <2>1, <2>3
  <2> QED
    BY <2>1, <2>7, <2>8 DEF m
<1> HIDE DEF M, n, P
<1>7. p \in Nat /\ p >= 1 /\ p <= P /\ P \in Nat /\ 4 * P <= ChunkCount(f) + 3 /\ ChunkCount(f) < 4 * P + 1
  BY <1>2, <1>3 DEF P
<1>8. ASSUME p < P PROVE M[2 * p - 1] + M[2 * p] = 32
  <2>1. 2 * p \in 1..n /\ 2 * p - 1 \in 1..n /\ 2 * p < n
    BY <1>1, <1>2, <1>7, <1>8
  <2>2. M[2 * p - 1] = 16 /\ M[2 * p] = 16
    <3>1. 2 * p - 1 < n
      BY <1>1, <1>7, <2>1
    <3> QED
      BY <1>4, <2>1, <3>1
  <2> QED
    BY <1>8, <2>2
<1>9. ASSUME p = P PROVE M[2 * p - 1] + M[2 * p] = LastSize(f)
  <2>1. n = 2 * p - 1 \/ n = 2 * p
    BY <1>1, <1>2, <1>7, <1>9
  <2>2. n \in 1..n /\ M[n] \in 1..16 /\ DataSize(f) = 16 * (n - 1) + M[n]
    BY <1>1, <1>4, <1>6, <1>7, <2>1
  <2>3. CASE n = 2 * p - 1
    <3>1. M[2 * p] = 0
      BY <1>5, <1>7, <2>3
    <3>2. DataSize(f) = 32 * (p - 1) + M[n]
      BY <1>7, <2>2, <2>3
    <3>3. DataSize(f) % 32 = M[n]
      BY <1>7, <2>2, <3>2
    <3>4. LastSize(f) = M[n]
      BY <2>2, <3>3 DEF LastSize
    <3> QED
      BY <1>9, <2>2, <2>3, <3>1, <3>4
  <2>4. CASE n = 2 * p
    <3>1. M[2 * p - 1] = 16
      BY <1>1, <1>4, <1>7, <2>4
    <3>2. DataSize(f) = 32 * (p - 1) + (16 + M[n])
      BY <1>7, <2>2, <2>4
    <3>3. DataSize(f) % 32 = IF M[n] = 16 THEN 0 ELSE 16 + M[n]
      BY <1>7, <2>2, <3>2
    <3>4. LastSize(f) = 16 + M[n]
      BY <2>2, <3>3 DEF LastSize
    <3> QED
      BY <1>9, <2>2, <2>4, <3>1, <3>4
  <2> QED
    BY <2>1, <2>3, <2>4
<1>10. M[2 * p - 1] + M[2 * p] = IF p < P THEN 32 ELSE LastSize(f)
  BY <1>7, <1>8, <1>9
<1> QED
  BY <1>10 DEF M, P

PacketSums(f) == [p \in Nat |-> PacketSum(f, FilePacket(f, p))]
DataSums(f) == [p \in Nat |-> Sums(f)[2 * p - 1] + Sums(f)[2 * p]]

LEMMA FilePacketsIsNat ==
  ASSUME NEW f, HexFile(f)
  PROVE  /\ FilePackets(f) \in Nat
         /\ 2 * FilePackets(f) >= Cardinality(DataLines(f))
         /\ ChunkCount(f) <= 4 * FilePackets(f) /\ 4 * FilePackets(f) < ChunkCount(f) + 4
<1>1. Cardinality(DataLines(f)) \in Nat /\ ChunkCount(f) \in Nat
  BY AllDataLines, ChunkCountIsNat
<1>2. 2 * Cardinality(DataLines(f)) <= ChunkCount(f) + 1
  BY <1>1 DEF ChunkCount
<1>3. FilePackets(f) = (ChunkCount(f) + 3) \div 4
  BY DEF FilePackets, FRAMES, PACKET_SIZE, CAN_DATA_LEN
<1> QED
  BY <1>1, <1>2, <1>3

\* The total checksum is the sum of the packets without their fillers.
LEMMA TotalOfPackets ==
  ASSUME NEW f, HexFile(f)
  PROVE  /\ \A p \in Nat : p > 0 => DataSums(f)[p] \in Nat /\ PacketSums(f)[p] \in Nat
                                    /\ PacketSums(f)[p] >= DataSums(f)[p]
         /\ TotalChecksum(f) = SumF(DataSums(f), 1..FilePackets(f))
         /\ FilePackets(f) > 0 => SumF(PacketSums(f), 1..FilePackets(f))
                                    = TotalChecksum(f) + 255 * (32 - LastSize(f))
<1> DEFINE P == FilePackets(f)
           S == Sums(f)
           D == DataSums(f)
           Q == PacketSums(f)
<1>1. P \in Nat /\ 2 * P >= Cardinality(DataLines(f)) /\ 2 * P \in Nat
  BY FilePacketsIsNat
<1>2. \A d \in DataLines(f) : SumsOf(f)[d] \in Int
  BY RecordFacts DEF SumsOf
<1>3. TotalChecksum(f) = SumF(S, 1..(2 * P))
  BY <1>1, <1>2, SumsOverLines, SumByRank DEF Sums
<1>4. \A r \in Nat : S[r] \in Int
  <2> SUFFICES ASSUME NEW r \in Nat PROVE S[r] \in Int
    OBVIOUS
  <2>1. CASE r \in 1..Cardinality(DataLines(f))
    <3>1. LineAt(f, r) \in DataLines(f)
      BY <2>1, LineAtRank
    <3> QED
      BY <1>2, <2>1, <3>1 DEF Sums, OfLines
  <2>2. CASE r \notin 1..Cardinality(DataLines(f))
    BY <2>2 DEF Sums, OfLines
  <2> QED
    BY <2>1, <2>2
<1>5. \A p \in Nat : p > 0 => D[p] = S[2 * p - 1] + S[2 * p]
  BY DEF DataSums
<1>6. TotalChecksum(f) = SumF(D, 1..P)
  <2> HIDE DEF S, D, P
  <2> QED
    BY <1>1, <1>3, <1>4, <1>5, SumInPairs
<1>7. ASSUME NEW p \in Nat, p > 0
      PROVE  /\ D[p] \in Nat /\ Q[p] \in Nat /\ Q[p] >= D[p]
             /\ Q[p] = D[p] + 255 * (32 - (Lens(f)[2 * p - 1] + Lens(f)[2 * p]))
  <2>1. Q[p] = PacketSum(f, FilePacket(f, p)) /\ D[p] = S[2 * p - 1] + S[2 * p]
    BY <1>7 DEF PacketSums, DataSums
  <2> DEFINE s1 == Sums(f)[2 * p - 1]
             s2 == Sums(f)[2 * p]
             l1 == Lens(f)[2 * p - 1]
             l2 == Lens(f)[2 * p]
  <2>2. /\ s1 \in Nat /\ s2 \in Nat /\ l1 \in 0..16 /\ l2 \in 0..16
        /\ PacketSum(f, FilePacket(f, p)) = (s1 + s2) + 255 * (32 - (l1 + l2))
    BY <1>7, SumOfPacket
  <2>3. Q[p] = (s1 + s2) + 255 * (32 - (l1 + l2)) /\ D[p] = s1 + s2
    BY <2>1, <2>2
  <2> HIDE DEF s1, s2, l1, l2, Q, D
  <2>4. D[p] \in Nat /\ Q[p] \in Nat /\ Q[p] >= D[p] /\ Q[p] = D[p] + 255 * (32 - (l1 + l2))
    BY <2>2, <2>3
  <2> QED
    BY <2>4 DEF l1, l2
<1>8. ASSUME P > 0 PROVE SumF(Q, 1..P) = TotalChecksum(f) + 255 * (32 - LastSize(f))
  <2> DEFINE m == P - 1
  <2>1. m \in Nat /\ m + 1 = P
    BY <1>1, <1>8
  <2>2. \A k \in 1..(m + 1) : D[k] \in Int /\ Q[k] \in Int
    BY <1>7, <2>1
  <2>3. \A k \in 1..m : Q[k] = D[k]
    <3> SUFFICES ASSUME NEW k \in 1..m PROVE Q[k] = D[k]
      OBVIOUS
    <3>1. k \in 1..P /\ k < P /\ k \in Nat /\ k > 0
      BY <2>1
    <3>2. Lens(f)[2 * k - 1] + Lens(f)[2 * k] = 32
      BY <3>1, LensOfPackets
    <3> HIDE DEF Q, D
    <3> QED
      BY <1>7, <3>1, <3>2
  <2>4. Q[P] = D[P] + 255 * (32 - LastSize(f))
    <3>1. P \in 1..P /\ P > 0
      BY <1>1, <1>8
    <3>2. Lens(f)[2 * P - 1] + Lens(f)[2 * P] = LastSize(f)
      BY <3>1, LensOfPackets
    <3> HIDE DEF Q, D, P
    <3> QED
      BY <1>1, <1>7, <3>1, <3>2
  <2>5. LastSize(f) \in Int
    BY SumsOverLines DEF LastSize
  <2> HIDE DEF Q, D, P, m
  <2>6. SumF(Q, 1..(m + 1)) = Q[m + 1] + SumF(Q, 1..m)
    BY <2>1, <2>2, SumNext
  <2>7. SumF(D, 1..(m + 1)) = D[m + 1] + SumF(D, 1..m)
    BY <2>1, <2>2, SumNext
  <2>8. SumF(Q, 1..m) = SumF(D, 1..m) /\ SumF(D, 1..m) \in Int
    <3>1. IsFiniteSet(1..m) /\ \A k \in 1..m : Q[k] \in Int /\ D[k] \in Int
      BY <2>1, <2>2, FS_Interval
    <3> QED
      BY <2>3, <3>1, SumEqual, SumType
  <2>9. D[P] \in Int
    BY <2>1, <2>2
  <2> QED
    BY <1>6, <2>1, <2>4, <2>5, <2>6, <2>7, <2>8, <2>9
<1> QED
  BY <1>6, <1>7, <1>8

-----------------------------------------------------------------------------
(* Images. *)

\* The bootloader's sum of an image, or of its last part.
LEMMA SumOfImage ==
  ASSUME NEW f, NEW from \in Nat, NEW packets, Len(packets) \in Nat, NEW size
  PROVE  SumOf(f, from, packets, size)
           = SumF([i \in from..Len(packets) |-> PacketSum(f, packets[i])], from..Len(packets))
               - (IF size >= 0 /\ from <= Len(packets) THEN 255 * (32 - size) ELSE 0)
<1> DEFINE S == from..Len(packets)
           F == [i \in S |-> PacketSum(f, packets[i])]
           Table(h) == h = [s \in SUBSET S |->
                              IF s = {} THEN 0
                              ELSE LET x == CHOOSE e \in s : TRUE
                                   IN PacketSum(f, packets[x]) + h[s \ {x}]]
           it == CHOOSE h : Table(h)
<1>1. IsFiniteSet(S)
  BY FS_Interval
<1>2. \A h : SumTable(F, S, h) <=> Table(h)
  <2> HIDE DEF S
  <2> QED
    BY DEF SumTable
<1>3. \E h : SumTable(F, S, h)
  BY <1>1, TableExists
<1>4. MapThenSumSet(LAMBDA i : PacketSum(f, packets[i]), S) = it[S]
  BY DEF MapThenSumSet, MapThenFoldSet
<1> HIDE DEF Table
<1>5. Table(it)
  BY <1>2, <1>3
<1> HIDE DEF it, F, S
<1>6. SumF(F, S) = it[S]
  BY <1>1, <1>2, <1>5, SumIsTable
<1>7. MapThenSumSet(LAMBDA i : PacketSum(f, packets[i]), S) = SumF(F, S)
  BY <1>4, <1>6
<1> QED
  BY <1>7 DEF SumOf, PACKET_SIZE, F, S

\* An increasing sequence of numbers from 1 to m that leaves none out counts them.
Increasing(x, n, m) ==
  x \in [1..n -> 1..m] /\ \A i, j \in 1..n : i < j => x[i] < x[j]
Onto(x, n, m) == \A k \in 1..m : \E i \in 1..n : x[i] = k

LEMMA IncreasingOnto ==
  ASSUME NEW n \in Nat, NEW m \in Nat, NEW x, Increasing(x, n, m), Onto(x, n, m)
  PROVE  n = m /\ \A i \in 1..n : x[i] = i
<1> USE DEF Increasing, Onto
<1>1. ASSUME NEW i \in 1..n, x[i] # i, \A j \in 1..n : x[j] # j => i <= j
      PROVE  FALSE
  <2>1. \A j \in 1..n : j < i => x[j] = j
    BY <1>1
  <2>2. x[i] \in 1..m
    OBVIOUS
  <2>3. CASE x[i] < i
    <3>1. x[i] \in 1..n
      BY <2>2, <2>3
    <3>2. x[x[i]] = x[i]
      BY <2>1, <2>3, <3>1
    <3>3. x[x[i]] < x[i]
      BY <2>3, <3>1
    <3> QED
      BY <2>2, <3>2, <3>3
  <2>4. CASE x[i] > i
    <3>1. i \in 1..m
      BY <2>2, <2>4
    <3>2. PICK k \in 1..n : x[k] = i
      BY <3>1
    <3>3. ~(k < i)
      BY <2>1, <3>2
    <3>4. k > i
      BY <1>1, <3>2, <3>3
    <3>5. x[i] < x[k]
      BY <3>4
    <3> QED
      BY <2>2, <2>4, <3>2, <3>5
  <2> QED
    BY <1>1, <2>2, <2>3, <2>4
<1>2. \A i \in 1..n : x[i] = i
  <2> DEFINE T == {i \in 1..n : x[i] # i}
  <2> SUFFICES ASSUME T # {} PROVE FALSE
    OBVIOUS
  <2>1. PICK i \in T : \A j \in T : i <= j
    <3> T \subseteq Nat
      OBVIOUS
    <3> HIDE DEF T
    <3> QED
      BY LeastNatural
  <2> QED
    BY <1>1, <2>1
<1>3. n <= m
  <2> SUFFICES ASSUME n > 0 PROVE n <= m
    OBVIOUS
  <2>1. n \in 1..n /\ x[n] = n /\ x[n] \in 1..m
    BY <1>2
  <2> QED
    BY <2>1
<1>4. m <= n
  <2> SUFFICES ASSUME m > 0 PROVE m <= n
    OBVIOUS
  <2>1. PICK i \in 1..n : x[i] = m
    OBVIOUS
  <2> QED
    BY <1>2, <2>1
<1> QED
  BY <1>2, <1>3, <1>4

\* A file of which every packet holds a byte that is not zero.
NoZeroPacket(f) ==
  \A p \in 1..FilePackets(f) : \E i \in 1..FRAMES : ChunkSum(f, FilePacket(f, p)[i]) > 0

LEMMA NoZeroSum ==
  ASSUME NEW f, HexFile(f), NoZeroPacket(f), NEW p \in 1..FilePackets(f)
  PROVE  DataSums(f)[p] > 0
<1> DEFINE q == FilePacket(f, p)
           c(i) == FileChunk(f, 4 * (p - 1) + i)
<1>1. FilePackets(f) \in Nat /\ p \in Nat /\ p > 0 /\ FRAMES = 4
  BY FilePacketsIsNat DEF FRAMES, PACKET_SIZE, CAN_DATA_LEN
<1>2. q[1] = c(1) /\ q[2] = c(2) /\ q[3] = c(3) /\ q[4] = c(4)
  BY DEF FilePacket, FRAMES, PACKET_SIZE, CAN_DATA_LEN
<1>3. /\ 4 * (p - 1) + 1 = 2 * (2 * p - 1) - 1 /\ 4 * (p - 1) + 2 = 2 * (2 * p - 1)
      /\ 4 * (p - 1) + 3 = 2 * (2 * p) - 1 /\ 4 * (p - 1) + 4 = 2 * (2 * p)
      /\ 2 * p - 1 \in Nat /\ 2 * p - 1 > 0 /\ 2 * p \in Nat /\ 2 * p > 0
  BY <1>1
<1>4. /\ ChunkSum(f, c(1)) \in Nat /\ ChunkSum(f, c(2)) \in Nat
      /\ ChunkSum(f, c(1)) + ChunkSum(f, c(2)) = Sums(f)[2 * p - 1]
  BY <1>3, PairOfChunks DEF Sums
<1>5. /\ ChunkSum(f, c(3)) \in Nat /\ ChunkSum(f, c(4)) \in Nat
      /\ ChunkSum(f, c(3)) + ChunkSum(f, c(4)) = Sums(f)[2 * p]
  BY <1>3, PairOfChunks DEF Sums
<1>6. PICK i \in 1..4 : ChunkSum(f, q[i]) > 0
  BY <1>1 DEF NoZeroPacket
<1> HIDE DEF c, q
<1>7. \/ ChunkSum(f, c(1)) > 0 \/ ChunkSum(f, c(2)) > 0
      \/ ChunkSum(f, c(3)) > 0 \/ ChunkSum(f, c(4)) > 0
  <2>1. i = 1 \/ i = 2 \/ i = 3 \/ i = 4
    OBVIOUS
  <2> QED
    BY <1>2, <1>6, <2>1
<1>8. Sums(f)[2 * p - 1] + Sums(f)[2 * p] > 0
  BY <1>4, <1>5, <1>7
<1> QED
  BY <1>1, <1>8 DEF DataSums

\* Packets of the file in their order, some of them perhaps missing: x says which.
SomePackets(f, packets, x) ==
  /\ x \in [1..Len(packets) -> 1..FilePackets(f)]
  /\ \A i, j \in 1..Len(packets) : i < j => x[i] < x[j]
  /\ \A i \in 1..Len(packets) : packets[i] = FilePacket(f, x[i])

LEMMA LastSizeRange ==
  ASSUME NEW f, HexFile(f)
  PROVE  LastSize(f) \in 1..32
<1>1. DataSize(f) \in Nat
  BY SumsOverLines
<1>2. DataSize(f) % 32 \in 0..31
  BY <1>1
<1> QED
  BY <1>2 DEF LastSize

LEMMA SumOfSomePackets ==
  ASSUME NEW f, HexFile(f), NEW packets, Len(packets) \in Nat, NEW x, SomePackets(f, packets, x),
         \A p \in 1..FilePackets(f) : PacketSums(f)[p] \in Nat
  PROVE  SumF([i \in 1..Len(packets) |-> PacketSum(f, packets[i])], 1..Len(packets))
           = SumF(PacketSums(f), {x[i] : i \in 1..Len(packets)})
<1> DEFINE S == 1..Len(packets)
           Q == PacketSums(f)
           F == [i \in S |-> PacketSum(f, packets[i])]
<1>1. IsFiniteSet(S)
  BY FS_Interval
<1>2. \A i \in S : x[i] \in 1..FilePackets(f) /\ x[i] \in Nat
  BY FilePacketsIsNat DEF SomePackets
<1>3. \A i \in S : F[i] = Q[x[i]]
  BY <1>2 DEF PacketSums, SomePackets
<1>4. \A i \in S : F[i] \in Int
  <2> SUFFICES ASSUME NEW i \in S PROVE F[i] \in Int
    OBVIOUS
  <2>1. Q[x[i]] \in Nat
    BY <1>2
  <2> HIDE DEF F, Q
  <2> QED
    BY <1>3, <2>1
<1>5. \A i \in S : \A j \in S : x[i] = x[j] => i = j
  <2> SUFFICES ASSUME NEW i \in S, NEW j \in S, x[i] = x[j], i # j PROVE FALSE
    OBVIOUS
  <2>1. i < j \/ j < i
    OBVIOUS
  <2>2. x[i] < x[j] \/ x[j] < x[i]
    BY <2>1 DEF SomePackets
  <2>3. x[i] \in Nat /\ x[j] \in Nat
    BY <1>2
  <2> QED
    BY <2>2, <2>3
<1>6. \A i \in S : Q[x[i]] = F[i]
  BY <1>3
<1> HIDE DEF S, F, Q
<1>7. SumF(F, S) = SumF(Q, {x[i] : i \in S})
  BY <1>1, <1>4, <1>5, <1>6, SumReindex
<1> QED
  BY <1>7 DEF S, F, Q

\* An image of some of the file's packets, in order, whose sum is the file's total
\* checksum holds all of them.
LEMMA SumTellsImage ==
  ASSUME NEW f, HexFile(f), NoZeroPacket(f),
         NEW packets, Len(packets) \in Nat,
         NEW x, SomePackets(f, packets, x),
         SumOf(f, 1, packets, LastSize(f)) = TotalChecksum(f)
  PROVE  /\ Len(packets) = FilePackets(f)
         /\ \A i \in 1..Len(packets) : packets[i] = FilePacket(f, i)
<1> DEFINE P == FilePackets(f)
           Q == PacketSums(f)
           D == DataSums(f)
           n == Len(packets)
           F == [i \in 1..n |-> PacketSum(f, packets[i])]
           Im == {x[i] : i \in 1..n}
           z == LastSize(f)
           y == 255 * (32 - z)
<1>1. P \in Nat /\ IsFiniteSet(1..P) /\ IsFiniteSet(1..n)
  BY FilePacketsIsNat, FS_Interval
<1>2. z \in 1..32
  BY LastSizeRange
<1>3. \A p \in 1..P : D[p] \in Nat /\ D[p] > 0 /\ Q[p] \in Nat /\ Q[p] > 0
  <2> SUFFICES ASSUME NEW p \in 1..P PROVE D[p] \in Nat /\ D[p] > 0 /\ Q[p] \in Nat /\ Q[p] > 0
    OBVIOUS
  <2>1. p \in Nat /\ p > 0
    OBVIOUS
  <2>2. D[p] > 0
    BY NoZeroSum
  <2> HIDE DEF D, Q
  <2>3. D[p] \in Nat /\ Q[p] \in Nat /\ Q[p] >= D[p]
    BY <2>1, TotalOfPackets DEF D, Q
  <2> QED
    BY <2>2, <2>3
<1>4. SumOf(f, 1, packets, z) = SumF(F, 1..n) - (IF z >= 0 /\ 1 <= n THEN 255 * (32 - z) ELSE 0)
  BY SumOfImage
<1>5. SumF(F, 1..n) = SumF(Q, Im)
  BY <1>3, SumOfSomePackets
<1>6. Im \subseteq 1..P
  BY DEF SomePackets
<1>7. TotalChecksum(f) = SumF(D, 1..P) /\ TotalChecksum(f) \in Nat
  BY TotalOfPackets, SumsOverLines
<1>8. P > 0 => SumF(Q, 1..P) = TotalChecksum(f) + y
  BY TotalOfPackets
<1>9. SumOf(f, 1, packets, z) = TotalChecksum(f)
  OBVIOUS
<1>10. x \in [1..n -> 1..P] /\ \A i, j \in 1..n : i < j => x[i] < x[j]
  BY DEF SomePackets
<1>11. Im = {x[i] : i \in 1..n} /\ n \in Nat
  OBVIOUS
<1> HIDE DEF F, Q, D, P, Im, n, z
<1>12. ASSUME NEW k \in 1..P PROVE k \in Im
  <2> SUFFICES ASSUME k \notin Im PROVE FALSE
    OBVIOUS
  <2>1. P > 0 /\ 1 \in 1..P
    BY <1>1
  <2>2. CASE n = 0
    <3>1. SumF(F, 1..n) = 0
      <4>1. 1..n = {}
        BY <2>2
      <4> QED
        BY <4>1, SumEmpty
    <3>2. TotalChecksum(f) = 0
      BY <1>4, <1>9, <2>2, <3>1
    <3>3. SumF(D, {}) < SumF(D, 1..P)
      BY <1>1, <1>3, <2>1, SumStrict
    <3> QED
      BY <1>7, <3>2, <3>3, SumEmpty
  <2>3. CASE n > 0
    <3>1. y \in Int
      BY <1>2
    <3>2. SumF(Q, Im) < SumF(Q, 1..P)
      BY <1>1, <1>3, <1>6, SumStrict
    <3>3. SumF(Q, Im) \in Int
      <4>1. IsFiniteSet(Im)
        BY <1>1, <1>6, FS_Subset
      <4>2. \A p \in Im : Q[p] \in Int
        BY <1>3, <1>6
      <4> QED
        BY <4>1, <4>2, SumType
    <3>4. z >= 0 /\ 1 <= n
      BY <1>2, <1>11, <2>3
    <3>5. TotalChecksum(f) = SumF(Q, Im) - y
      BY <1>4, <1>5, <1>9, <3>4
    <3>6. SumF(Q, 1..P) = TotalChecksum(f) + y
      BY <1>8, <2>1
    <3> HIDE DEF y
    <3> QED
      BY <1>7, <3>1, <3>2, <3>3, <3>5, <3>6
  <2> QED
    BY <1>11, <2>2, <2>3
<1>13. \A k \in 1..P : \E i \in 1..n : x[i] = k
  BY <1>11, <1>12
<1>14. n = P /\ \A i \in 1..n : x[i] = i
  <2>1. Increasing(x, n, P) /\ Onto(x, n, P)
    BY <1>10, <1>13 DEF Increasing, Onto
  <2>2. n \in Nat /\ P \in Nat
    BY <1>1, <1>11
  <2> QED
    BY <2>1, <2>2, IncreasingOnto
<1> QED
  BY <1>14 DEF n, P, SomePackets

\* No file ends two frames into a packet: after such an end the reader would begin the
\* file again if it is asked again (see EndIsFinal).
NoneIsReread == \A f \in Files : ChunkCount(f) % FRAMES # 2
NoneHasZeroPacket == \A f \in Files : NoZeroPacket(f)

\* Every full page of every file holds a byte that is not zero.
NoneHasZeroPage ==
  \A f \in Files : \A q \in Nat :
    q * PAGE_SIZE + PAGE_SIZE <= FilePackets(f) =>
      \E p \in (q * PAGE_SIZE + 1)..(q * PAGE_SIZE + PAGE_SIZE), i \in 1..FRAMES :
        ChunkSum(f, FilePacket(f, p)[i]) > 0

SendLabels == {"packet_send", "packet_ack", "last_send", "last_ack", "resend", "resend_ack"}
SentLabels == {"packet_ack", "last_ack", "resend", "resend_ack"}
HeartbeatLabels == {"heartbeat_skip", "heartbeat", "heartbeat_wait"}
EofLabels == {"last_kt", "last_page_send", "last_page_resp", "total_send", "total_resp"}
                \cup HeartbeatLabels
Verdicts == {"UPLOAD_COMPLETE", "KINETEK_ERROR"}

\* The end of the data, once met, is met again.
EndAt ==
  /\ Halfway(file, ut)
  /\ ut.is_eof =>
       /\ ~ut.is_open
       /\ pc \notin InitLabels \cup {"packet_send", "packet_ack"}
       /\ pc \in {"loop", "frame", "last_send", "last_ack", "resend", "resend_ack"} \cup PageLabels
            => ~ut.is_first_8 /\ EndsData(file, ut.curr_line)
       /\ pc = "frame" => frame_count = 0

\* The packet being built, and the packet being sent.
ChunksAt ==
  /\ current_packet = [i \in 1..FRAMES |-> current_packet[i]]
  /\ ~ut.is_eof => \A i \in 1..frame_count :
                      current_packet[i] = FileChunk(file, FRAMES * packet_count + i)
  /\ pc \in SendLabels => /\ current_packet = FilePacket(file, packet_count + 1)
                          /\ packet_count < FilePackets(file)

\* Packets of the file in their order, up to the n-th at most.
Holds(f, packets, n) ==
  \E x \in [1..Len(packets) -> 1..FilePackets(f)] :
    SomePackets(f, packets, x) /\ \A i \in 1..Len(packets) : x[i] <= n

\* What the bootloader has stored at each place of the program.
ImageAt ==
  /\ image \in Seq({FilePacket(file, p) : p \in 1..FilePackets(file)})
  /\ Holds(file, image, FilePackets(file))
  /\ pc \in InitLabels => image = <<>>
  /\ pc \in {"loop", "frame", "packet_send", "last_send"} \cup PageLabels
       => Holds(file, image, packet_count)
  /\ pc \in SentLabels =>
       IF stored THEN /\ image # <<>> /\ image[Len(image)] = current_packet
                      /\ Holds(file, image, packet_count + 1)
                 ELSE Holds(file, image, packet_count)

InAir == {air[i] : i \in DOMAIN air}

\* What the bootloader's two last answers prove.
SumConfirmed ==
  eof_size = LastSize(file) /\ SumOf(file, 1, image, LastSize(file)) = TotalChecksum(file)

FrameAt(m) ==
  /\ m.type = "END_OF_HEX_FILE_RESPONSE" => eof_size = LastSize(file)
  /\ m.type = "CALCULATE_TOTAL_CHECKSUM_RESPONSE" =>
       pc \in {"total_resp", "done"} \cup HeartbeatLabels /\ SumConfirmed
  /\ m.type # "KT_CALCULATED_PAGE_CHECKSUM" => m.data = 0

EvidenceAt ==
  /\ air \in Seq(InAir)
  /\ \A m \in InAir : FrameAt(m)
  /\ pc \in InitLabels => eof_size = -1
  /\ pc \in EofLabels => eof_size = LastSize(file)
  /\ pc \in HeartbeatLabels \/ status \in Verdicts => SumConfirmed
  /\ status # "RUNNING" => pc = "done"
  /\ pc \in {"page_send", "page_resp"} =>
       \/ kt_page_checksum.type = "KT_CALCULATED_PAGE_CHECKSUM"
       \/ kt_page_checksum.data = 0

\* The sums of a file's chunks, the first chunk of the page, and the last one read.
ChunkSums(f) == [k \in Nat |-> ChunkSum(f, FileChunk(f, k))]
First == page_count * PAGE_SIZE * FRAMES + 1
Reach == IF ut.is_eof THEN ChunkCount(file) ELSE FRAMES * packet_count + frame_count

SumsAt ==
  /\ packet_count <= FilePackets(file)
  /\ pc # "done" => curr_page_cs = SumF(ChunkSums(file), First..Reach)
  /\ pc \in {"page_send", "page_resp", "last_page_send", "last_page_resp"}
       => page_frame.sum = curr_page_cs
  /\ ut.is_eof /\ pc # "done" => ChunkCount(file) <= FRAMES * packet_count + FRAMES
  /\ ut.is_eof /\ pc \in {"loop", "frame"} \cup PageLabels => ChunkCount(file) <= FRAMES * packet_count

-----------------------------------------------------------------------------
(* The reader and the packet. *)

\* The next chunk is the chunk of the file that follows the ones read.
LEMMA NextChunkIs ==
  ASSUME NEW f, HexFile(f), NEW h, Reader(f, h), Halfway(f, h), ~h.is_eof, ~AtEnd(f, h)
  PROVE  /\ NextChunk(f, h) = FileChunk(f, Position(f, h) + 1)
         /\ Position(f, h) < ChunkCount(f)
<1> DEFINE d == DataLineRead(f, h)
           g == IF h.is_first_8 THEN 1 ELSE 2
           c == NextChunk(f, h)
<1>1. c = Chunk(d, g)
  BY DEF NextChunk
<1>2. c.line \in DataLines(f) /\ c.half \in 1..2 /\ ChunkNumber(f, c) = Position(f, h) + 1
  BY OneChunkForward
<1>3. Position(f, h) < ChunkCount(f)
  BY ChunkLeft
<1>4. d \in DataLines(f) /\ g \in 1..2
  BY <1>1, <1>2 DEF Chunk
<1>5. Position(f, h) \in Int /\ ChunkCount(f) \in Nat
  <2>1. h.curr_line \in Nat
    BY DEF Reader, HexFile
  <2>2. DataLinesTo(f, h.curr_line) \in Nat
    BY <2>1, DataLinesFinite
  <2> QED
    BY <2>2, ChunkCountIsNat DEF Position
<1> HIDE DEF d, g, c
<1>6. ChunkNumber(f, Chunk(d, g)) = Position(f, h) + 1 /\ Position(f, h) + 1 <= ChunkCount(f)
  BY <1>1, <1>2, <1>3, <1>5
<1>7. FileChunk(f, ChunkNumber(f, Chunk(d, g))) = Chunk(d, g)
  BY <1>4, <1>6, FileChunkIs
<1> QED
  BY <1>1, <1>3, <1>6, <1>7 DEF c

LateLabels == {"eof_send", "eof_resp", "done"} \cup EofLabels

\* How the program counter moves while the packet and the reader stay as they are.
QuietMove ==
  \/ pc' = pc
  \/ pc' \in LateLabels
  \/ pc \in InitLabels /\ pc' \in InitLabels \cup {"loop"}
  \/ pc = "loop" /\ pc' \in {"page_kt", "frame"}
  \/ pc \in PageLabels /\ pc' \in PageLabels \cup {"frame"}
  \/ pc = "packet_send" /\ pc' = "packet_ack"
  \/ pc = "last_send" /\ pc' = "last_ack"
  \/ pc \in {"packet_ack", "last_ack"} /\ pc' = "resend"
  \/ pc = "resend" /\ pc' = "resend_ack"

Still == UNCHANGED <<file, ut, packet_count, frame_count, current_packet>>
PacketCounted ==
  /\ pc \in {"packet_ack", "resend_ack"} /\ PacketDone
  /\ UNCHANGED <<file, ut, current_packet>>

\* Every step is one of these.
LEMMA StepIs ==
  ASSUME [Next]_vars
  PROVE  \/ Still /\ QuietMove
         \/ PacketCounted
         \/ NextFrame \/ EndBetweenPackets \/ EndInsidePacket
<1> USE DEF uploadVars
<1> DEFINE Goal == \/ Still /\ QuietMove
                   \/ PacketCounted
                   \/ NextFrame \/ EndBetweenPackets \/ EndInsidePacket
<1>1. ASSUME UNCHANGED vars \/ Done PROVE Goal
  BY <1>1 DEF vars, Done, Still, QuietMove
<1>2. ASSUME Loss \/ Disturbance PROVE Goal
  BY <1>2 DEF Loss, Disturbance, StrayHeartbeat, Still, QuietMove
<1>3. ASSUME SendInitFrame \/ InitResponse PROVE Goal
  BY <1>3 DEF SendInitFrame, InitResponse, GoTo, Finish, Still, QuietMove, InitLabels, LateLabels
<1>4. ASSUME LoopTop PROVE Goal
  BY <1>4 DEF LoopTop, GoTo, Still, QuietMove
<1>5. ASSUME KtPageChecksum \/ SendPageChecksum \/ PageResponse PROVE Goal
  BY <1>5 DEF KtPageChecksum, SendPageChecksum, PageResponse, NextPage, GoTo, TryAgain, Finish,
              Still, QuietMove, PageLabels, LateLabels
<1>6. ASSUME SendFullPacket \/ SendPaddedPacket PROVE Goal
  BY <1>6 DEF SendFullPacket, SendPaddedPacket, SendPacket, GoTo, Still, QuietMove
<1>7. ASSUME PacketAck PROVE Goal
  BY <1>7 DEF PacketAck, PacketCounted, GoTo, TryAgain, Still, QuietMove
<1>8. ASSUME LastAck PROVE Goal
  BY <1>8 DEF LastAck, GoTo, TryAgain, Still, QuietMove, LateLabels
<1>9. ASSUME Resend PROVE Goal
  BY <1>9 DEF Resend, GoTo, Still, QuietMove
<1>10. ASSUME ResendAck PROVE Goal
  BY <1>10 DEF ResendAck, PacketCounted, Finish, TryAgain, Still, QuietMove, LateLabels
<1>11. ASSUME SendEndOfFile \/ EndOfFileResponse PROVE Goal
  BY <1>11 DEF SendEndOfFile, EndOfFileResponse, GoTo, Finish, TryAgain, Still, QuietMove,
               LateLabels, EofLabels
<1>12. ASSUME LastKtPageChecksum \/ SendLastPageChecksum \/ LastPageResponse PROVE Goal
  BY <1>12 DEF LastKtPageChecksum, SendLastPageChecksum, LastPageResponse, GoTo, Finish,
               TryAgain, Still, QuietMove, LateLabels, EofLabels
<1>13. ASSUME SendTotalChecksum \/ TotalResponse PROVE Goal
  BY <1>13 DEF SendTotalChecksum, TotalResponse, GoTo, Finish, Still, QuietMove,
               LateLabels, EofLabels, HeartbeatLabels
<1>14. ASSUME FirstHeartbeat \/ SecondHeartbeat \/ WaitForPageOne PROVE Goal
  BY <1>14 DEF FirstHeartbeat, SecondHeartbeat, WaitForPageOne, GoTo, Finish, Still, QuietMove,
               LateLabels, EofLabels, HeartbeatLabels
<1> QED
  BY <1>1, <1>2, <1>3, <1>4, <1>5, <1>6, <1>7, <1>8, <1>9, <1>10, <1>11, <1>12, <1>13, <1>14
  DEF Next, Upload

LEMMA FramesAreFour == FRAMES = 4
BY DEF FRAMES, PACKET_SIZE, CAN_DATA_LEN

LEMMA FileOfInv ==
  ASSUME IInv
  PROVE  /\ HexFile(file) /\ file \in Files /\ Reader(file, ut)
         /\ packet_count \in Nat /\ page_count \in Nat /\ frame_count \in 0..4
BY FilesAssumption, FramesAreFour DEF IInv, TypeOK

LEMMA StillKeepsReader ==
  ASSUME IInv, EndAt, ChunksAt, Still, QuietMove
  PROVE  EndAt' /\ ChunksAt'
<1> USE DEF InitLabels, PageLabels, SendLabels, LateLabels, EofLabels, HeartbeatLabels
<1>1. UNCHANGED <<file, ut, packet_count, frame_count, current_packet>>
  BY DEF Still
<1>2. pc \in {"loop"} \cup PageLabels => frame_count = 0
  BY DEF IInv, FramesAt
<1>3. Halfway(file, ut)'
  BY <1>1 DEF EndAt, Halfway
<1>4. EndAt'
  <2> SUFFICES ASSUME ut.is_eof
               PROVE  /\ ~ut.is_open
                      /\ pc' \notin InitLabels \cup {"packet_send", "packet_ack"}
                      /\ pc' \in {"loop", "frame", "last_send", "last_ack", "resend", "resend_ack"}
                                   \cup PageLabels
                           => ~ut.is_first_8 /\ EndsData(file, ut.curr_line)
                      /\ pc' = "frame" => frame_count = 0
    BY <1>1, <1>3 DEF EndAt
  <2> HIDE DEF IInv
  <2> QED
    BY <1>2 DEF EndAt, QuietMove
<1>5. ChunksAt'
  <2>1. pc' \in SendLabels => pc \in SendLabels
    BY DEF QuietMove
  <2> QED
    BY <1>1, <2>1 DEF ChunksAt
<1> QED
  BY <1>4, <1>5

LEMMA CountKeepsReader ==
  ASSUME IInv, EndAt, ChunksAt, PacketCounted
  PROVE  EndAt' /\ ChunksAt'
<1>1. /\ pc' = "loop" /\ frame_count' = 0
      /\ UNCHANGED <<file, ut, current_packet>> /\ pc \in {"packet_ack", "resend_ack"}
  BY DEF PacketCounted, PacketDone, GoTo
<1>2. EndAt'
  BY <1>1 DEF EndAt, Halfway, InitLabels, PageLabels
<1>3. 1..frame_count' = {}
  BY <1>1
<1>4. ChunksAt'
  BY <1>1, <1>3 DEF ChunksAt, SendLabels
<1> QED
  BY <1>2, <1>4

LEMMA FrameKeepsReader ==
  ASSUME IInv, EndAt, ChunksAt, NextFrame
  PROVE  EndAt' /\ ChunksAt' /\ ~ut.is_eof
<1> DEFINE c == NextChunk(file, ut)
<1>1. /\ pc = "frame" /\ ~AtEnd(file, ut) /\ ut' = AfterChunk(file, ut)
      /\ current_packet' = [current_packet EXCEPT ![frame_count + 1] = c]
      /\ frame_count' = frame_count + 1
      /\ pc' = IF frame_count + 1 = 4 THEN "packet_send" ELSE "frame"
      /\ UNCHANGED <<file, packet_count>>
  BY FramesAreFour DEF NextFrame, GoTo
<1>2. HexFile(file) /\ Reader(file, ut) /\ Halfway(file, ut) /\ packet_count \in Nat
  BY FileOfInv DEF EndAt
<1>3. ~ut.is_eof
  BY <1>1 DEF EndAt, AtEnd, LineRead
<1>4. Halfway(file, ut') /\ ~ut'.is_eof
  BY <1>1, <1>2, <1>3, ChunkKeepsHalfway
<1>5. EndAt'
  BY <1>1, <1>4 DEF EndAt
<1>6. c = FileChunk(file, Position(file, ut) + 1) /\ Position(file, ut) < ChunkCount(file)
  BY <1>1, <1>2, <1>3, NextChunkIs
<1>7. Position(file, ut) = 4 * packet_count + frame_count
  BY <1>3, FramesAreFour DEF IInv, SentInOrder
<1>8. frame_count \in 0..3
  BY <1>1, FileOfInv, FramesAreFour DEF IInv, FramesAt
<1>9. packet_count < FilePackets(file)
  BY <1>2, <1>6, <1>7, <1>8, FilePacketsIsNat, ChunkCountIsNat
<1> HIDE DEF c
<1>10. c = FileChunk(file, 4 * packet_count + (frame_count + 1))
  <2>1. Position(file, ut) + 1 = 4 * packet_count + (frame_count + 1)
    BY <1>2, <1>7, <1>8
  <2> QED
    BY <1>6, <2>1
<1>11. /\ current_packet = [i \in 1..4 |-> current_packet[i]]
       /\ \A i \in 1..frame_count : current_packet[i] = FileChunk(file, 4 * packet_count + i)
  BY <1>3, FramesAreFour DEF ChunksAt
<1>12. /\ current_packet' = [i \in 1..4 |-> current_packet'[i]]
       /\ current_packet'[frame_count + 1] = c
       /\ \A i \in 1..frame_count : current_packet'[i] = current_packet[i]
  <2>1. frame_count + 1 \in 1..4 /\ \A i \in 1..frame_count : i \in 1..4 /\ i # frame_count + 1
    BY <1>8
  <2>2. current_packet' = [i \in 1..4 |-> IF i = frame_count + 1 THEN c ELSE current_packet[i]]
    BY <1>1, <1>11
  <2> QED
    BY <2>1, <2>2
<1>13. \A i \in 1..(frame_count + 1) : current_packet'[i] = FileChunk(file, 4 * packet_count + i)
  <2> SUFFICES ASSUME NEW i \in 1..(frame_count + 1)
               PROVE  current_packet'[i] = FileChunk(file, 4 * packet_count + i)
    OBVIOUS
  <2>1. i = frame_count + 1 \/ i \in 1..frame_count
    BY <1>8
  <2> QED
    BY <1>10, <1>11, <1>12, <2>1
<1>14. pc' \in SendLabels => current_packet' = FilePacket(file, packet_count + 1)
  <2> SUFFICES ASSUME frame_count + 1 = 4
               PROVE  current_packet' = FilePacket(file, packet_count + 1)
    BY <1>1 DEF SendLabels
  <2>1. \A i \in 1..4 : current_packet'[i] = FileChunk(file, 4 * packet_count + i)
    BY <1>13
  <2>2. (packet_count + 1) - 1 = packet_count
    BY <1>2
  <2>3. FilePacket(file, packet_count + 1) = [i \in 1..4 |-> FileChunk(file, 4 * packet_count + i)]
    BY <2>2, FramesAreFour DEF FilePacket
  <2> QED
    BY <1>12, <2>1, <2>3
<1>15. ChunksAt'
  BY <1>1, <1>9, <1>12, <1>13, <1>14, FramesAreFour DEF ChunksAt
<1> QED
  BY <1>3, <1>5, <1>15

\* An end inside a packet that does not come after two frames leaves the reader in the
\* middle of the line where the data ends.
LEMMA EndKeepsFlag ==
  ASSUME IInv, EndAt, ~Rereads', EndInsidePacket
  PROVE  /\ ~ut.is_eof /\ ~ut.is_first_8 /\ EndsData(file, ut.curr_line)
         /\ 4 * packet_count + frame_count = ChunkCount(file) /\ frame_count \in 1..3
<1>1. pc = "frame" /\ AtEnd(file, ut) /\ frame_count > 0
  BY DEF EndInsidePacket
<1>2. HexFile(file) /\ file \in Files /\ Reader(file, ut) /\ Halfway(file, ut) /\ packet_count \in Nat
  BY FileOfInv DEF EndAt
<1>3. ~ut.is_eof
  BY <1>1 DEF EndAt
<1>4. Position(file, ut) = ChunkCount(file)
  BY <1>1, <1>2, <1>3, EndOfChunks
<1>5. Position(file, ut) = 4 * packet_count + frame_count
  BY <1>3, FramesAreFour DEF IInv, SentInOrder
<1>6. frame_count \in 1..3
  BY <1>1, FileOfInv, FramesAreFour DEF IInv, FramesAt
<1>7. ChunkCount(file) % 4 # 2
  BY FramesAreFour DEF Rereads, EndInsidePacket, AfterEnd
<1>8. frame_count # 2
  BY <1>2, <1>4, <1>5, <1>6, <1>7
<1>9. ~ut.is_first_8
  <2> SUFFICES ASSUME ut.is_first_8 PROVE FALSE
    OBVIOUS
  <2>1. DataLinesTo(file, ut.curr_line) \in Nat
    <3>1. ut.curr_line \in Nat
      BY <1>2 DEF Reader, HexFile
    <3> QED
      BY <1>2, <3>1, DataLinesFinite
  <2>2. 2 * DataLinesTo(file, ut.curr_line) = 4 * packet_count + frame_count
    BY <1>5, <2>1 DEF Position
  <2> QED
    BY <1>2, <1>6, <1>8, <2>1, <2>2
<1>10. EndsData(file, ut.curr_line)
  BY <1>1, <1>9 DEF AtEnd, LineRead
<1> QED
  BY <1>3, <1>4, <1>5, <1>6, <1>9, <1>10

LEMMA EndKeepsReaderAt ==
  ASSUME IInv, EndAt, ChunksAt, ~Rereads', EndBetweenPackets \/ EndInsidePacket
  PROVE  EndAt' /\ ChunksAt'
<1>1. /\ pc = "frame" /\ ut' = AfterEnd(ut)
      /\ UNCHANGED <<file, packet_count, frame_count>>
  BY DEF EndBetweenPackets, EndInsidePacket
<1>2. ut'.is_eof /\ ~ut'.is_open /\ ut'.curr_line = LineRead(ut) /\ ut'.is_first_8 = ut.is_first_8
  BY <1>1 DEF AfterEnd
<1>3. Halfway(file, ut)'
  BY <1>2 DEF Halfway
<1>4. CASE EndBetweenPackets
  <2>1. pc' = "eof_send" /\ UNCHANGED current_packet
    BY <1>4 DEF EndBetweenPackets, GoTo
  <2>2. EndAt'
    BY <1>2, <1>3, <2>1 DEF EndAt, InitLabels, PageLabels
  <2>3. ChunksAt'
    BY <1>2, <2>1 DEF ChunksAt, SendLabels
  <2> QED
    BY <2>2, <2>3
<1>5. CASE EndInsidePacket
  <2>1. /\ pc' = "last_send"
        /\ current_packet' = [i \in 1..4 |-> IF i <= frame_count THEN current_packet[i] ELSE Filler]
    BY <1>5, FramesAreFour DEF EndInsidePacket, GoTo
  <2>2. /\ ~ut.is_eof /\ ~ut.is_first_8 /\ EndsData(file, ut.curr_line)
        /\ 4 * packet_count + frame_count = ChunkCount(file) /\ frame_count \in 1..3
    BY <1>5, EndKeepsFlag
  <2>3. EndAt'
    BY <1>1, <1>2, <1>3, <2>1, <2>2 DEF EndAt, InitLabels, PageLabels, LineRead
  <2>4. packet_count \in Nat /\ HexFile(file)
    BY FileOfInv
  <2>5. packet_count < FilePackets(file)
    BY <2>2, <2>4, FilePacketsIsNat, ChunkCountIsNat
  <2>6. \A i \in 1..4 : current_packet'[i] = FileChunk(file, 4 * packet_count + i)
    <3> SUFFICES ASSUME NEW i \in 1..4
                 PROVE  current_packet'[i] = FileChunk(file, 4 * packet_count + i)
      OBVIOUS
    <3>1. CASE i <= frame_count
      <4>1. i \in 1..frame_count
        BY <2>2, <3>1
      <4>2. current_packet[i] = FileChunk(file, 4 * packet_count + i)
        BY <2>2, <4>1, FramesAreFour DEF ChunksAt
      <4> QED
        BY <2>1, <3>1, <4>2
    <3>2. CASE ~(i <= frame_count)
      <4>1. ~(4 * packet_count + i <= ChunkCount(file))
        BY <2>2, <2>4, <3>2
      <4>2. FileChunk(file, 4 * packet_count + i) = Filler
        BY <4>1 DEF FileChunk
      <4> QED
        BY <2>1, <3>2, <4>2
    <3> QED
      BY <3>1, <3>2
  <2>7. (packet_count + 1) - 1 = packet_count
    BY <2>4
  <2>8. FilePacket(file, packet_count + 1) = [i \in 1..4 |-> FileChunk(file, 4 * packet_count + i)]
    BY <2>7, FramesAreFour DEF FilePacket
  <2>9. current_packet' = [i \in 1..4 |-> current_packet'[i]]
    BY <2>1
  <2>10. current_packet' = FilePacket(file, packet_count + 1)
    BY <2>6, <2>8, <2>9
  <2>11. ChunksAt'
    BY <1>1, <1>2, <2>5, <2>9, <2>10, FramesAreFour DEF ChunksAt
  <2> QED
    BY <2>3, <2>11
<1> QED
  BY <1>4, <1>5

LEMMA ReaderStep ==
  ASSUME IInv, EndAt, ChunksAt, [Next]_vars, ~Rereads'
  PROVE  EndAt' /\ ChunksAt'
BY StepIs, StillKeepsReader, CountKeepsReader, FrameKeepsReader, EndKeepsReaderAt

\* The end of the data stays reported.
LEMMA NotYetReread ==
  ASSUME [Next]_vars, ~Rereads'
  PROVE  ~Rereads
<1>1. UNCHANGED file /\ (ut.is_eof => ut'.is_eof)
  <2>1. CASE (Still /\ QuietMove) \/ PacketCounted
    BY <2>1 DEF Still, PacketCounted
  <2>2. CASE NextFrame \/ EndBetweenPackets \/ EndInsidePacket
    BY <2>2 DEF NextFrame, EndBetweenPackets, EndInsidePacket, AfterChunk, AfterEnd
  <2> QED
    BY <2>1, <2>2, StepIs
<1> QED
  BY <1>1 DEF Rereads

LEMMA NoneRereads ==
  ASSUME IInv, NoneIsReread
  PROVE  ~Rereads
BY FileOfInv DEF NoneIsReread, Rereads

LEMMA ReaderInit ==
  ASSUME Init
  PROVE  EndAt /\ ChunksAt
<1>1. ut = NewReader /\ pc = "init_send" /\ frame_count = 0 /\ current_packet = EmptyPacket
  BY DEF Init
<1>2. EndAt
  BY <1>1 DEF EndAt, Halfway, NewReader
<1>3. 1..frame_count = {}
  BY <1>1
<1>4. ChunksAt
  BY <1>1, <1>3 DEF ChunksAt, EmptyPacket, SendLabels
<1> QED
  BY <1>2, <1>4

\* When no file ends two frames into a packet, the reader is not asked again for the data
\* it has reported as ended (HexUtility.h:115; HexUtility.cpp:99-190, IAP.cpp:507-681).
THEOREM EndStaysFinal ==
  ASSUME NoneIsReread
  PROVE  Spec => []EndIsFinal
<1> DEFINE I == IInv /\ (~Rereads => EndAt /\ ChunksAt)
<1>1. Init => I
  BY InitEstablishes, ReaderInit
<1>2. I /\ [Next]_vars => I'
  BY StepKeeps, ReaderStep, NotYetReread
<1>3. I => EndIsFinal
  BY NoneRereads DEF EndAt, EndIsFinal
<1> QED
  BY <1>1, <1>2, <1>3, PTL DEF Spec

-----------------------------------------------------------------------------
(* The image. *)

Packets(f) == {FilePacket(f, p) : p \in 1..FilePackets(f)}

LEMMA NothingHeld ==
  ASSUME NEW f, NEW n
  PROVE  Holds(f, <<>>, n)
<1> DEFINE x == [i \in 1..0 |-> 1]
<1>1. Len(<<>>) = 0 /\ \A i \in 1..0 : FALSE
  OBVIOUS
<1>2. x \in [1..Len(<<>>) -> 1..FilePackets(f)]
  BY <1>1
<1>3. SomePackets(f, <<>>, x)
  BY <1>1, <1>2 DEF SomePackets
<1> HIDE DEF x
<1> QED
  BY <1>1, <1>2, <1>3 DEF Holds

LEMMA HoldsMore ==
  ASSUME NEW f, HexFile(f), NEW packets, NEW n \in Nat, Holds(f, packets, n)
  PROVE  /\ Holds(f, packets, n + 1)
         /\ Holds(f, packets, FilePackets(f))
<1>1. PICK x \in [1..Len(packets) -> 1..FilePackets(f)] :
        SomePackets(f, packets, x) /\ \A i \in 1..Len(packets) : x[i] <= n
  BY DEF Holds
<1>2. \A i \in 1..Len(packets) : x[i] \in 1..FilePackets(f) /\ x[i] \in Nat
  BY FilePacketsIsNat
<1>3. \A i \in 1..Len(packets) : x[i] <= n + 1 /\ x[i] <= FilePackets(f)
  BY <1>1, <1>2, FilePacketsIsNat
<1> QED
  BY <1>1, <1>3 DEF Holds

\* One more packet.
LEMMA HoldsNext ==
  ASSUME NEW f, HexFile(f), NEW packets \in Seq(Packets(f)), NEW n \in Nat, n < FilePackets(f),
         Holds(f, packets, n)
  PROVE  LET longer == Append(packets, FilePacket(f, n + 1))
         IN  /\ longer \in Seq(Packets(f)) /\ longer # <<>>
             /\ longer[Len(longer)] = FilePacket(f, n + 1)
             /\ Holds(f, longer, n + 1)
<1> DEFINE q == FilePacket(f, n + 1)
           longer == Append(packets, q)
           l == Len(packets)
           P == FilePackets(f)
<1>1. PICK x \in [1..l -> 1..P] :
        SomePackets(f, packets, x) /\ \A i \in 1..l : x[i] <= n
  BY DEF Holds
<1>2. P \in Nat /\ n + 1 \in 1..P /\ l \in Nat
  BY FilePacketsIsNat, LenProperties
<1>3. q \in Packets(f)
  BY <1>2 DEF Packets
<1> HIDE DEF q
<1>4. /\ longer \in Seq(Packets(f)) /\ longer # <<>> /\ Len(longer) = l + 1
      /\ \A i \in 1..l : longer[i] = packets[i]
      /\ longer[l + 1] = q
  BY <1>3, AppendProperties
<1> DEFINE y == [i \in 1..(l + 1) |-> IF i = l + 1 THEN n + 1 ELSE x[i]]
<1> HIDE DEF longer, l, P
<1>5. \A i \in 1..(l + 1) : i = l + 1 \/ i \in 1..l
  BY <1>2
<1>6. \A i \in 1..l : i # l + 1 /\ i \in 1..(l + 1) /\ y[i] = x[i] /\ x[i] \in 1..P /\ x[i] <= n
  BY <1>1, <1>2
<1>7. l + 1 \in 1..(l + 1) /\ y[l + 1] = n + 1
  BY <1>2
<1>8. y \in [1..(l + 1) -> 1..P]
  <2>1. \A i \in 1..(l + 1) : y[i] \in 1..P
    BY <1>2, <1>5, <1>6, <1>7
  <2>2. y = [i \in 1..(l + 1) |-> y[i]]
    OBVIOUS
  <2> HIDE DEF y
  <2> QED
    BY <2>1, <2>2
<1> HIDE DEF y
<1>9. \A i \in 1..(l + 1) : y[i] <= n + 1
  BY <1>2, <1>5, <1>6, <1>7
<1>10. \A i, j \in 1..(l + 1) : i < j => y[i] < y[j]
  <2> SUFFICES ASSUME NEW i \in 1..(l + 1), NEW j \in 1..(l + 1), i < j PROVE y[i] < y[j]
    OBVIOUS
  <2>1. i \in 1..l
    BY <1>2
  <2>2. CASE j = l + 1
    BY <1>2, <1>6, <1>7, <2>1, <2>2
  <2>3. CASE j \in 1..l
    <3>1. x[i] < x[j]
      BY <1>1, <2>1, <2>3 DEF SomePackets, l
    <3> QED
      BY <1>6, <2>1, <2>3, <3>1
  <2> QED
    BY <1>5, <2>2, <2>3
<1>11. \A i \in 1..(l + 1) : longer[i] = FilePacket(f, y[i])
  <2> SUFFICES ASSUME NEW i \in 1..(l + 1) PROVE longer[i] = FilePacket(f, y[i])
    OBVIOUS
  <2>1. CASE i = l + 1
    BY <1>4, <1>7, <2>1 DEF q
  <2>2. CASE i \in 1..l
    <3>1. packets[i] = FilePacket(f, x[i])
      BY <1>1, <2>2 DEF SomePackets, l
    <3> QED
      BY <1>4, <1>6, <2>2, <3>1
  <2> QED
    BY <1>5, <2>1, <2>2
<1>12. SomePackets(f, longer, y)
  BY <1>4, <1>8, <1>10, <1>11 DEF SomePackets, P
<1>13. Holds(f, longer, n + 1)
  BY <1>4, <1>8, <1>9, <1>12 DEF Holds, P
<1> QED
  BY <1>4, <1>13 DEF longer, q

LEMMA ImageStepIs ==
  ASSUME [Next]_vars
  PROVE  \/ SendInitFrame \/ SendFullPacket \/ SendPaddedPacket \/ Resend
         \/ /\ UNCHANGED <<image, stored>>
            /\ pc' = pc \/ pc \notin {"packet_send", "last_send", "resend"}
<1> USE DEF bootVars
<1> DEFINE Goal == /\ UNCHANGED <<image, stored>>
                   /\ pc' = pc \/ pc \notin {"packet_send", "last_send", "resend"}
<1>1. ASSUME UNCHANGED vars \/ Done PROVE Goal
  BY <1>1 DEF vars, Done
<1>2. ASSUME Loss \/ Disturbance PROVE Goal
  BY <1>2 DEF Loss, Disturbance, StrayHeartbeat
<1>3. ASSUME InitResponse \/ LoopTop \/ KtPageChecksum \/ PageResponse PROVE Goal
  BY <1>3 DEF InitResponse, LoopTop, KtPageChecksum, PageResponse
<1>4. ASSUME SendPageChecksum \/ SendLastPageChecksum \/ SendTotalChecksum PROVE Goal
  BY <1>4 DEF SendPageChecksum, SendLastPageChecksum, SendTotalChecksum, BootPageChecksum, BootTotal,
              LostOnTheBus
<1>5. ASSUME NextFrame \/ EndBetweenPackets \/ EndInsidePacket PROVE Goal
  BY <1>5 DEF NextFrame, EndBetweenPackets, EndInsidePacket
<1>6. ASSUME PacketAck \/ LastAck \/ ResendAck PROVE Goal
  BY <1>6 DEF PacketAck, LastAck, ResendAck
<1>7. ASSUME SendEndOfFile \/ EndOfFileResponse PROVE Goal
  BY <1>7 DEF SendEndOfFile, EndOfFileResponse, BootEndOfFile, LostOnTheBus
<1>8. ASSUME LastKtPageChecksum \/ LastPageResponse \/ TotalResponse PROVE Goal
  BY <1>8 DEF LastKtPageChecksum, LastPageResponse, TotalResponse
<1>9. ASSUME FirstHeartbeat \/ SecondHeartbeat \/ WaitForPageOne PROVE Goal
  BY <1>9 DEF FirstHeartbeat, SecondHeartbeat, WaitForPageOne, NextHeartbeat
<1> QED
  BY <1>1, <1>2, <1>3, <1>4, <1>5, <1>6, <1>7, <1>8, <1>9 DEF Next, Upload

LEMMA ImageStep ==
  ASSUME IInv, EndAt, ChunksAt, ImageAt, [Next]_vars
  PROVE  ImageAt'
<1> DEFINE P == FilePackets(file)
<1>1. HexFile(file) /\ packet_count \in Nat
  BY FileOfInv
<1>2. image \in Seq(Packets(file)) /\ Holds(file, image, P)
  BY DEF ImageAt, Packets
<1>3. CASE SendInitFrame
  <2>1. pc = "init_send" /\ pc' = "init_resp" /\ UNCHANGED file
    BY <1>3 DEF SendInitFrame, GoTo
  <2>2. image = <<>>
    BY <2>1 DEF ImageAt, InitLabels
  <2>3. image' = <<>>
    BY <1>3, <2>2 DEF SendInitFrame, BootOpens, LostOnTheBus, bootVars
  <2> QED
    BY <1>2, <2>1, <2>2, <2>3 DEF ImageAt, PageLabels, SentLabels, InitLabels
<1>4. CASE SendFullPacket \/ SendPaddedPacket
  <2>1. /\ pc \in {"packet_send", "last_send"} /\ pc' \in {"packet_ack", "last_ack"}
        /\ UNCHANGED <<file, packet_count, current_packet>>
        /\ BootPacket(file, current_packet)
    BY <1>4 DEF SendFullPacket, SendPaddedPacket, SendPacket, GoTo, uploadVars
  <2>2. Holds(file, image, packet_count)
    BY <2>1 DEF ImageAt
  <2>3. current_packet = FilePacket(file, packet_count + 1) /\ packet_count < P
    BY <2>1 DEF ChunksAt, SendLabels
  <2>4. \/ image' = Append(image, current_packet) /\ stored' = TRUE
        \/ image' = image /\ stored' = FALSE
    BY <2>1 DEF BootPacket, Stores
  <2>5. CASE image' = Append(image, current_packet) /\ stored' = TRUE
    <3>1. /\ image' \in Seq(Packets(file)) /\ image' # <<>> /\ image'[Len(image')] = current_packet
          /\ Holds(file, image', packet_count + 1)
      BY <1>1, <1>2, <2>2, <2>3, <2>5, HoldsNext
    <3>2. Holds(file, image', P)
      BY <1>1, <3>1, HoldsMore
    <3> QED
      BY <2>1, <2>5, <3>1, <3>2 DEF ImageAt, PageLabels, SentLabels, InitLabels, Packets
  <2>6. CASE image' = image /\ stored' = FALSE
    BY <1>2, <2>1, <2>2, <2>6 DEF ImageAt, PageLabels, SentLabels, InitLabels, Packets
  <2> QED
    BY <2>4, <2>5, <2>6
<1>5. CASE Resend
  <2>1. /\ pc = "resend" /\ pc' = "resend_ack" /\ UNCHANGED <<file, packet_count, current_packet>>
        /\ BootResend(file, current_packet) \/ LostOnTheBus
    BY <1>5 DEF Resend, GoTo, uploadVars
  <2>2. current_packet = FilePacket(file, packet_count + 1) /\ packet_count < P
    BY <2>1 DEF ChunksAt, SendLabels
  <2>3. IF stored THEN /\ image # <<>> /\ image[Len(image)] = current_packet
                       /\ Holds(file, image, packet_count + 1)
                  ELSE Holds(file, image, packet_count)
    BY <2>1 DEF ImageAt, SentLabels
  <2>4. CASE LostOnTheBus
    BY <1>2, <2>1, <2>3, <2>4 DEF LostOnTheBus, bootVars, ImageAt, PageLabels, SentLabels,
                                  InitLabels, Packets
  <2>5. CASE BootResend(file, current_packet) /\ stored
    <3>1. image' = [image EXCEPT ![Len(image)] = current_packet] /\ stored' = TRUE
      BY <2>5 DEF BootResend, Stores
    <3>2. image' = image
      <4>1. image \in [1..Len(image) -> Packets(file)]
        BY <1>2, LenProperties
      <4> QED
        BY <2>3, <2>5, <3>1, <4>1
    <3> QED
      BY <1>2, <2>1, <2>3, <2>5, <3>1, <3>2 DEF ImageAt, PageLabels, SentLabels, InitLabels, Packets
  <2>6. CASE BootResend(file, current_packet) /\ ~stored
    <3>1. image' = Append(image, current_packet) /\ stored' = TRUE
      BY <2>6 DEF BootResend, Stores
    <3>2. /\ image' \in Seq(Packets(file)) /\ image' # <<>> /\ image'[Len(image')] = current_packet
          /\ Holds(file, image', packet_count + 1)
      BY <1>1, <1>2, <2>2, <2>3, <2>6, <3>1, HoldsNext
    <3>3. Holds(file, image', P)
      BY <1>1, <3>2, HoldsMore
    <3> QED
      BY <2>1, <3>1, <3>2, <3>3 DEF ImageAt, PageLabels, SentLabels, InitLabels, Packets
  <2> QED
    BY <2>1, <2>4, <2>5, <2>6
<1>6. CASE /\ UNCHANGED <<image, stored>>
           /\ pc' = pc \/ pc \notin {"packet_send", "last_send", "resend"}
  <2> USE DEF InitLabels, PageLabels, SentLabels, LateLabels, EofLabels, HeartbeatLabels
  <2>1. image = <<>> => Holds(file, image, packet_count)
    BY NothingHeld
  <2>2. CASE Still /\ QuietMove
    <3>1. UNCHANGED <<file, packet_count, current_packet>>
      BY <2>2 DEF Still
    <3> HIDE DEF IInv, EndAt, ChunksAt
    <3> QED
      BY <1>6, <2>1, <2>2, <3>1 DEF ImageAt, QuietMove
  <2>3. CASE PacketCounted
    <3>1. /\ pc \in {"packet_ack", "resend_ack"} /\ pc' = "loop" /\ packet_count' = packet_count + 1
          /\ UNCHANGED file
      BY <2>3 DEF PacketCounted, PacketDone, GoTo
    <3>2. Holds(file, image, packet_count + 1)
      <4>1. Holds(file, image, packet_count) \/ Holds(file, image, packet_count + 1)
        BY <3>1 DEF ImageAt
      <4> QED
        BY <1>1, <4>1, HoldsMore
    <3> QED
      BY <1>2, <1>6, <3>1, <3>2 DEF ImageAt, Packets
  <2>4. CASE NextFrame \/ EndBetweenPackets \/ EndInsidePacket
    <3>1. /\ pc = "frame" /\ pc' \in {"frame", "packet_send", "eof_send", "last_send"}
          /\ UNCHANGED <<file, packet_count>>
      BY <2>4 DEF NextFrame, EndBetweenPackets, EndInsidePacket, GoTo
    <3>2. Holds(file, image, packet_count)
      BY <3>1 DEF ImageAt
    <3> QED
      BY <1>2, <1>6, <3>1, <3>2 DEF ImageAt, Packets
  <2> QED
    BY <2>2, <2>3, <2>4, StepIs
<1> QED
  BY <1>3, <1>4, <1>5, <1>6, ImageStepIs

LEMMA ImageInit ==
  ASSUME Init
  PROVE  ImageAt
<1>1. pc = "init_send" /\ image = <<>>
  BY DEF Init, BootInit
<1>2. image \in Seq(Packets(file))
  BY <1>1
<1> QED
  BY <1>1, <1>2, NothingHeld DEF ImageAt, InitLabels, PageLabels, SentLabels, Packets

-----------------------------------------------------------------------------
(* The frames on their way to the program. *)

LEMMA OwnFrames ==
  ASSUME NEW S, NEW s \in Seq(S)
  PROVE  LET R == {s[i] : i \in DOMAIN s} IN s \in Seq(R) /\ R \subseteq S
<1> DEFINE R == {s[i] : i \in DOMAIN s}
<1>1. Len(s) \in Nat /\ s \in [1..Len(s) -> S] /\ DOMAIN s = 1..Len(s)
  BY LenProperties
<1>2. R \subseteq S
  BY <1>1
<1>3. s \in [1..Len(s) -> R]
  BY <1>1
<1>4. s \in Seq(R)
  <2> DEFINE n == Len(s)
  <2>1. n \in Nat /\ s \in [1..n -> R]
    BY <1>1, <1>3
  <2> HIDE DEF n, R
  <2>2. s \in UNION {[1..k -> R] : k \in Nat}
    BY <2>1
  <2> QED
    BY <2>2, SeqDef
<1> QED
  BY <1>2, <1>4

LEMMA PartOfAir ==
  ASSUME NEW S, NEW s \in Seq(S), NEW i \in 1..(Len(s) + 1), NEW j \in 0..Len(s)
  PROVE  SubSeq(s, i, j) \in Seq(S)
<1>1. Len(s) \in Nat /\ \A k \in 1..Len(s) : s[k] \in S
  BY LenProperties
<1>2. i \in Int /\ j \in Int /\ \A k \in i..j : s[k] \in S
  BY <1>1
<1> QED
  BY <1>2, SubSeqProperties

\* A wait takes frames from the front and returns one of them, or nothing.
LEMMA FrameTaken ==
  ASSUME NEW S, air \in Seq(S), NEW id, NEW m, get_frame(id, m)
  PROVE  /\ air' \in Seq(S)
         /\ m = NoFrame \/ (m \in InAir /\ m.id = id)
<1>1. Len(air) \in Nat /\ DOMAIN air = 1..Len(air)
  BY LenProperties
<1>2. CASE Received(id, m)
  <2>1. PICK i \in Waiting(id) : m = air[i] /\ air' = SubSeq(air, i + 1, Len(air))
    BY <1>2 DEF Received
  <2>2. i \in 1..Len(air) /\ air[i].id = id
    BY <1>1 DEF Waiting
  <2>3. i + 1 \in 1..(Len(air) + 1) /\ Len(air) \in 0..Len(air)
    BY <1>1, <2>2
  <2>4. air' \in Seq(S)
    BY <2>1, <2>3, PartOfAir
  <2> QED
    BY <1>1, <2>1, <2>2, <2>4 DEF InAir
<1>3. CASE TimedOut(id, m)
  <2>1. m = NoFrame /\ (air' = <<>> \/ air' = air)
    BY <1>3 DEF TimedOut
  <2> QED
    BY <2>1, EmptySeq
<1> QED
  BY <1>2, <1>3 DEF get_frame

LEMMA FrameLost ==
  ASSUME NEW S, air \in Seq(S), LoseFrame
  PROVE  air' \in Seq(S)
<1>1. PICK i \in DOMAIN air : air' = SubSeq(air, 1, i - 1) \o SubSeq(air, i + 1, Len(air))
  BY DEF LoseFrame
<1>2. Len(air) \in Nat /\ i \in 1..Len(air)
  BY LenProperties
<1>3. /\ 1 \in 1..(Len(air) + 1) /\ i - 1 \in 0..Len(air)
      /\ i + 1 \in 1..(Len(air) + 1) /\ Len(air) \in 0..Len(air)
  BY <1>2
<1>4. SubSeq(air, 1, i - 1) \in Seq(S) /\ SubSeq(air, i + 1, Len(air)) \in Seq(S)
  BY <1>3, PartOfAir
<1> QED
  BY <1>1, <1>4, ConcatProperties

\* Frames that prove nothing.
Harmless(m) ==
  /\ m.type \notin {"END_OF_HEX_FILE_RESPONSE", "CALCULATE_TOTAL_CHECKSUM_RESPONSE"}
  /\ m.type = "KT_CALCULATED_PAGE_CHECKSUM" \/ m.data = 0

\* After the step the air holds no other frames than before but harmless ones.
AirKept == \E S : air' \in Seq(S) /\ \A m \in S : m \in InAir \/ Harmless(m)

LEMMA AirKeptBySame ==
  ASSUME air \in Seq(InAir), air' \in Seq(InAir)
  PROVE  AirKept
BY DEF AirKept

LEMMA AirKeptByReply ==
  ASSUME air \in Seq(InAir), NEW T, NEW frames \in Seq(T), \A m \in T : Harmless(m),
         air' = air \o frames
  PROVE  AirKept
<1> DEFINE S == InAir \cup T
<1>1. air \in Seq(S) /\ frames \in Seq(S)
  BY SeqMonotonic
<1>2. air' \in Seq(S)
  BY <1>1, ConcatProperties
<1> QED
  BY <1>2 DEF AirKept

LEMMA AirKeptByOne ==
  ASSUME air \in Seq(InAir), NEW m, Harmless(m), Reply(<<m>>)
  PROVE  AirKept
<1> DEFINE T == {m}
           frames == <<m>>
<1>1. frames \in Seq(T) /\ air' = air \o frames /\ \A k \in T : Harmless(k)
  BY DEF Reply
<1> HIDE DEF T, frames
<1> QED
  BY <1>1, AirKeptByReply

LEMMA AirKeptByTwo ==
  ASSUME air \in Seq(InAir), NEW m, NEW n, Harmless(m), Harmless(n), Reply(<<m, n>>)
  PROVE  AirKept
<1> DEFINE T == {m, n}
           frames == <<m, n>>
<1>1. frames \in Seq(T) /\ air' = air \o frames /\ \A k \in T : Harmless(k)
  BY DEF Reply
<1> HIDE DEF T, frames
<1> QED
  BY <1>1, AirKeptByReply

LEMMA AirKeptByPacket ==
  ASSUME air \in Seq(InAir), NEW f, NEW packets, Stores(f, packets)
  PROVE  AirKept
<1>1. Harmless(Ack) /\ Harmless(PageAnnouncement(f, packets, -1))
  BY DEF Harmless, Ack, PageAnnouncement, Frame
<1>2. Reply(<<Ack>>) \/ Reply(<<Ack, PageAnnouncement(f, packets, -1)>>)
  BY DEF Stores
<1> QED
  BY <1>1, <1>2, AirKeptByOne, AirKeptByTwo

LEMMA InitFramesAreHarmless ==
  ASSUME step \in 1..Len(InitFrames)
  PROVE  Harmless(Frame(InitFrames[step].id, InitFrames[step].type, 0))
<1>1. step = 1 \/ step = 2 \/ step = 3 \/ step = 4 \/ step = 5
  BY DEF InitFrames
<1> QED
  BY <1>1 DEF InitFrames, Harmless, Frame

\* Every step but the last two answers of the bootloader keeps the air as it is.
LEMMA AirStep ==
  ASSUME IInv, air \in Seq(InAir), [Next]_vars
  PROVE  AirKept \/ SendEndOfFile \/ SendTotalChecksum
<1> DEFINE Goal == AirKept
<1>1. ASSUME UNCHANGED air PROVE AirKept
  BY <1>1, AirKeptBySame
<1>2. ASSUME NEW id, NEW m, get_frame(id, m) PROVE AirKept
  BY <1>2, FrameTaken, AirKeptBySame
<1>3. ASSUME UNCHANGED vars \/ Done \/ LoopTop \/ NextFrame \/ EndBetweenPackets \/ EndInsidePacket
      PROVE  AirKept
  BY <1>1, <1>3 DEF vars, Done, LoopTop, NextFrame, EndBetweenPackets, EndInsidePacket, busVars
<1>4. ASSUME Loss PROVE AirKept
  BY <1>4, FrameLost, AirKeptBySame DEF Loss
<1>5. ASSUME Disturbance PROVE AirKept
  <2> DEFINE m == Frame("IAP_HEARTBEAT", "IN_IAP_MODE", 0)
  <2>1. Harmless(m)
    BY DEF Harmless, Frame
  <2>2. air' = Append(air, m)
    BY <1>5 DEF Disturbance, StrayHeartbeat
  <2>3. <<m>> \in Seq({m})
    OBVIOUS
  <2> HIDE DEF m
  <2> DEFINE S == InAir \cup {m}
  <2>4. air \in Seq(S)
    BY SeqMonotonic
  <2>5. air' \in Seq(S)
    BY <2>2, <2>4, AppendProperties
  <2> QED
    BY <2>1, <2>5 DEF AirKept
<1>6. ASSUME SendInitFrame PROVE AirKept
  <2>1. \/ Reply(<<Frame(InitFrames[step].id, InitFrames[step].type, 0)>>)
        \/ UNCHANGED air
    BY <1>6 DEF SendInitFrame, BootOpens, LostOnTheBus
  <2>2. step \in 1..Len(InitFrames)
    BY DEF IInv, TypeOK
  <2> QED
    BY <1>1, <2>1, <2>2, InitFramesAreHarmless, AirKeptByOne
<1>7. ASSUME SendPageChecksum \/ SendLastPageChecksum PROVE AirKept
  <2> DEFINE m == Frame("IAP_RESPONSE", "CALCULATE_PAGE_CHECKSUM_RESPONSE", 0)
  <2>1. Harmless(m)
    BY DEF Harmless, Frame
  <2>2. Reply(<<m>>) \/ UNCHANGED air
    BY <1>7 DEF SendPageChecksum, SendLastPageChecksum, BootPageChecksum, LostOnTheBus, busVars
  <2> QED
    BY <1>1, <2>1, <2>2, AirKeptByOne
<1>8. ASSUME SendFullPacket \/ SendPaddedPacket \/ Resend PROVE AirKept
  <2>1. (\E packets : Stores(file, packets)) \/ UNCHANGED air
    BY <1>8 DEF SendFullPacket, SendPaddedPacket, SendPacket, Resend, BootPacket, BootResend,
                LostOnTheBus
  <2> QED
    BY <1>1, <2>1, AirKeptByPacket
<1>9. ASSUME InitResponse \/ KtPageChecksum \/ PageResponse \/ PacketAck \/ LastAck PROVE AirKept
  BY <1>2, <1>9 DEF InitResponse, KtPageChecksum, PageResponse, PacketAck, LastAck
<1>10. ASSUME ResendAck \/ EndOfFileResponse \/ LastKtPageChecksum \/ LastPageResponse
              \/ TotalResponse
       PROVE  AirKept
  BY <1>2, <1>10 DEF ResendAck, EndOfFileResponse, LastKtPageChecksum, LastPageResponse,
                     TotalResponse
<1>11. ASSUME FirstHeartbeat \/ SecondHeartbeat \/ WaitForPageOne PROVE AirKept
  <2>1. air' = <<>>
    BY <1>11 DEF FirstHeartbeat, SecondHeartbeat, WaitForPageOne, NextHeartbeat
  <2> QED
    BY <2>1, AirKeptBySame
<1> QED
  BY <1>3, <1>4, <1>5, <1>6, <1>7, <1>8, <1>9, <1>10, <1>11 DEF Next, Upload

-----------------------------------------------------------------------------
(* What the frames in the air prove. *)

TotalLabels == {"total_resp", "done"} \cup HeartbeatLabels

KtAt == pc \in {"page_send", "page_resp"} =>
          \/ kt_page_checksum.type = "KT_CALCULATED_PAGE_CHECKSUM"
          \/ kt_page_checksum.data = 0

LEMMA EvidenceFrom ==
  ASSUME NEW S, air' \in Seq(S), \A m \in S : FrameAt(m)'
  PROVE  (air \in Seq(InAir))' /\ (\A m \in InAir : FrameAt(m))'
<1>1. air' \in Seq({air'[i] : i \in DOMAIN air'}) /\ {air'[i] : i \in DOMAIN air'} \subseteq S
  BY OwnFrames
<1> QED
  BY <1>1 DEF InAir

\* Until the total checksum is sent.
LEMMA EvidenceBefore ==
  ASSUME EvidenceAt, AirKept, pc \notin TotalLabels, UNCHANGED <<file, eof_size>>,
         pc' \notin HeartbeatLabels, status' \notin Verdicts,
         status' # "RUNNING" => pc' = "done",
         pc' \in InitLabels => pc \in InitLabels,
         pc' \in EofLabels => eof_size = LastSize(file),
         KtAt'
  PROVE  EvidenceAt'
<1>1. PICK S : air' \in Seq(S) /\ \A m \in S : m \in InAir \/ Harmless(m)
  BY DEF AirKept
<1>2. \A m \in S : FrameAt(m)'
  <2> SUFFICES ASSUME NEW m \in S PROVE FrameAt(m)'
    OBVIOUS
  <2>1. CASE m \in InAir
    BY <2>1 DEF EvidenceAt, FrameAt, TotalLabels
  <2>2. CASE Harmless(m)
    BY <2>2 DEF FrameAt, Harmless
  <2> QED
    BY <1>1, <2>1, <2>2
<1>3. (air \in Seq(InAir))' /\ (\A m \in InAir : FrameAt(m))'
  BY <1>1, <1>2, EvidenceFrom
<1> QED
  BY <1>3 DEF EvidenceAt, KtAt

\* And from then on.
LEMMA EvidenceAfter ==
  ASSUME EvidenceAt, AirKept, pc \in TotalLabels, UNCHANGED <<file, eof_size, image>>,
         pc' = pc \/ pc' \in {"done"} \cup HeartbeatLabels,
         status' # "RUNNING" => pc' = "done",
         pc' \in HeartbeatLabels \/ status' \in Verdicts => SumConfirmed
  PROVE  EvidenceAt'
<1>1. PICK S : air' \in Seq(S) /\ \A m \in S : m \in InAir \/ Harmless(m)
  BY DEF AirKept
<1>2. SumConfirmed => SumConfirmed'
  BY DEF SumConfirmed
<1>3. \A m \in S : FrameAt(m)'
  <2> SUFFICES ASSUME NEW m \in S PROVE FrameAt(m)'
    OBVIOUS
  <2>1. CASE m \in InAir
    BY <1>2, <2>1 DEF EvidenceAt, FrameAt, TotalLabels
  <2>2. CASE Harmless(m)
    BY <2>2 DEF FrameAt, Harmless
  <2> QED
    BY <1>1, <2>1, <2>2
<1>4. (air \in Seq(InAir))' /\ (\A m \in InAir : FrameAt(m))'
  BY <1>1, <1>3, EvidenceFrom
<1>5. pc' \in EofLabels => eof_size = LastSize(file)
  <2>1. pc' \in EofLabels => pc' = pc \/ pc' \in HeartbeatLabels
    BY DEF EofLabels, HeartbeatLabels
  <2> QED
    BY <2>1 DEF EvidenceAt, SumConfirmed
<1> QED
  BY <1>2, <1>4, <1>5 DEF EvidenceAt, TotalLabels, InitLabels, HeartbeatLabels

\* The two answers themselves.
LEMMA EndOfFileEvidence ==
  ASSUME IInv, EvidenceAt, SendEndOfFile
  PROVE  EvidenceAt'
<1> DEFINE e == Frame("IAP_RESPONSE", "END_OF_HEX_FILE_RESPONSE", 0)
           a == PageAnnouncement(file, image, last_packet_size)
           S == InAir \cup {e, a}
<1>1. /\ pc = "eof_send" /\ pc' = "eof_resp" /\ UNCHANGED <<status, file, kt_page_checksum>>
      /\ BootEndOfFile(file, last_packet_size) \/ LostOnTheBus
  BY DEF SendEndOfFile, GoTo, uploadVars
<1>2. pc \notin TotalLabels
  BY <1>1 DEF TotalLabels, HeartbeatLabels
<1>3. status = "RUNNING" /\ air \in Seq(InAir)
  BY <1>1 DEF EvidenceAt
<1>4. KtAt'
  BY <1>1 DEF KtAt
<1>5. CASE LostOnTheBus
  <2>1. AirKept /\ UNCHANGED eof_size
    BY <1>3, <1>5, AirKeptBySame DEF LostOnTheBus, bootVars
  <2> QED
    BY <1>1, <1>2, <1>3, <1>4, <2>1, EvidenceBefore
    DEF HeartbeatLabels, Verdicts, InitLabels, EofLabels
<1>6. CASE BootEndOfFile(file, last_packet_size)
  <2>1. eof_size' = last_packet_size /\ air' = air \o <<e, a>>
    BY <1>6 DEF BootEndOfFile, Reply
  <2>2. last_packet_size = LastSize(file)
    BY DEF last_packet_size, LastSize, PACKET_SIZE
  <2>3. air' \in Seq(S)
    <3>1. <<e, a>> \in Seq({e, a})
      OBVIOUS
    <3> HIDE DEF e, a
    <3>2. <<e, a>> \in Seq(S) /\ air \in Seq(S)
      BY <1>3, <3>1, SeqMonotonic
    <3> QED
      BY <2>1, <3>2, ConcatProperties
  <2>4. \A m \in S : FrameAt(m)'
    <3> SUFFICES ASSUME NEW m \in S PROVE FrameAt(m)'
      OBVIOUS
    <3>1. CASE m \in InAir
      <4>1. FrameAt(m)
        BY <3>1 DEF EvidenceAt
      <4>2. m.type # "CALCULATE_TOTAL_CHECKSUM_RESPONSE"
        BY <1>2, <4>1 DEF FrameAt, TotalLabels
      <4> QED
        BY <1>1, <2>1, <2>2, <4>1, <4>2 DEF FrameAt
    <3>2. CASE m = e
      BY <1>1, <2>1, <2>2, <3>2 DEF FrameAt, Frame
    <3>3. CASE m = a
      BY <3>3 DEF FrameAt, Frame, PageAnnouncement
    <3> QED
      BY <3>1, <3>2, <3>3
  <2>5. (air \in Seq(InAir))' /\ (\A m \in InAir : FrameAt(m))'
    BY <2>3, <2>4, EvidenceFrom
  <2> QED
    BY <1>1, <1>3, <2>5 DEF EvidenceAt, InitLabels, EofLabels, HeartbeatLabels, Verdicts
<1> QED
  BY <1>1, <1>5, <1>6

LEMMA TotalEvidence ==
  ASSUME IInv, EvidenceAt, SendTotalChecksum
  PROVE  EvidenceAt'
<1> DEFINE t == Frame("IAP_RESPONSE", "CALCULATE_TOTAL_CHECKSUM_RESPONSE", 0)
           S == InAir \cup {t}
<1>1. /\ pc = "total_send" /\ pc' = "total_resp" /\ UNCHANGED <<status, file, kt_page_checksum>>
      /\ BootTotal(file, TotalChecksum(file)) \/ LostOnTheBus
      /\ UNCHANGED <<image, eof_size>>
  BY DEF SendTotalChecksum, GoTo, uploadVars, BootTotal, LostOnTheBus, bootVars
<1>2. pc \notin TotalLabels
  BY <1>1 DEF TotalLabels, HeartbeatLabels
<1>3. status = "RUNNING" /\ air \in Seq(InAir) /\ eof_size = LastSize(file)
  BY <1>1 DEF EvidenceAt, EofLabels
<1>4. KtAt'
  BY <1>1 DEF KtAt
<1>5. CASE UNCHANGED air
  <2>1. AirKept
    BY <1>3, <1>5, AirKeptBySame
  <2> QED
    BY <1>1, <1>2, <1>3, <1>4, <2>1, EvidenceBefore
    DEF HeartbeatLabels, Verdicts, InitLabels, EofLabels
<1>6. CASE air' = air \o <<t>> /\ TotalChecksum(file) = SumOf(file, 1, image, eof_size)
  <2>1. SumConfirmed'
    BY <1>1, <1>3, <1>6 DEF SumConfirmed
  <2>2. air' \in Seq(S)
    <3>1. <<t>> \in Seq({t})
      OBVIOUS
    <3> HIDE DEF t
    <3>2. <<t>> \in Seq(S) /\ air \in Seq(S)
      BY <1>3, <3>1, SeqMonotonic
    <3> QED
      BY <1>6, <3>2, ConcatProperties
  <2>3. \A m \in S : FrameAt(m)'
    <3> SUFFICES ASSUME NEW m \in S PROVE FrameAt(m)'
      OBVIOUS
    <3>1. CASE m \in InAir
      <4>1. FrameAt(m)
        BY <3>1 DEF EvidenceAt
      <4>2. m.type # "CALCULATE_TOTAL_CHECKSUM_RESPONSE"
        BY <1>2, <4>1 DEF FrameAt, TotalLabels
      <4> QED
        BY <1>1, <4>1, <4>2 DEF FrameAt
    <3>2. CASE m = t
      BY <1>1, <2>1, <3>2 DEF FrameAt, Frame
    <3> QED
      BY <3>1, <3>2
  <2>4. (air \in Seq(InAir))' /\ (\A m \in InAir : FrameAt(m))'
    BY <2>2, <2>3, EvidenceFrom
  <2> QED
    BY <1>1, <1>3, <2>1, <2>4 DEF EvidenceAt, InitLabels, EofLabels, HeartbeatLabels, Verdicts
<1>7. \/ UNCHANGED air
      \/ air' = air \o <<t>> /\ TotalChecksum(file) = SumOf(file, 1, image, eof_size)
  BY <1>1 DEF BootTotal, Reply, busVars, LostOnTheBus
<1> QED
  BY <1>5, <1>6, <1>7

Codes == {InitFrames[s].fail : s \in 1..5} \cup
         {"PAGE_CHECKSUM_FAIL", "PACKET_RESENT_FAIL", "END_OF_FILE_FAIL", "TOTAL_CHECKSUM_FAIL",
          "NO_HEARTBEAT_DETECTED"}

LEMMA CodesAreNoVerdicts ==
  \A c \in Codes : c \notin Verdicts
<1> SUFFICES ASSUME NEW c \in Codes PROVE c \notin Verdicts
  OBVIOUS
<1>1. CASE \E s \in 1..5 : c = InitFrames[s].fail
  <2>1. PICK s \in 1..5 : c = InitFrames[s].fail
    BY <1>1
  <2>2. s = 1 \/ s = 2 \/ s = 3 \/ s = 4 \/ s = 5
    OBVIOUS
  <2> QED
    BY <2>1, <2>2 DEF InitFrames, Verdicts
<1>2. CASE ~\E s \in 1..5 : c = InitFrames[s].fail
  BY <1>2 DEF Codes, Verdicts
<1> QED
  BY <1>1, <1>2

LEMMA EvidenceStep ==
  ASSUME IInv, EvidenceAt, [Next]_vars
  PROVE  EvidenceAt'
<1> USE DEF uploadVars, bootVars
<1> DEFINE Told == UNCHANGED status \/ (pc' = "done" /\ status' \in Codes)
           Calm == /\ pc \notin TotalLabels /\ pc' \notin HeartbeatLabels /\ Told
                   /\ UNCHANGED <<file, eof_size>>
                   /\ pc' \in InitLabels => pc \in InitLabels
                   /\ pc' \in EofLabels => eof_size = LastSize(file)
                   /\ KtAt'
<1>1. air \in Seq(InAir)
  BY DEF EvidenceAt
<1>2. ASSUME AirKept, Calm PROVE EvidenceAt'
  <2>1. status = "RUNNING"
    BY <1>2 DEF EvidenceAt, TotalLabels
  <2>2. status' \notin Verdicts /\ (status' # "RUNNING" => pc' = "done")
    BY <1>2, <2>1, CodesAreNoVerdicts DEF Verdicts
  <2> QED
    BY <1>2, <2>2, EvidenceBefore
<1> USE DEF TotalLabels, HeartbeatLabels, InitLabels, EofLabels
<1>3. CASE SendEndOfFile \/ SendTotalChecksum
  BY <1>3, EndOfFileEvidence, TotalEvidence
<1>4. CASE AirKept /\ SendInitFrame
  <2>1. eof_size = -1
    BY <1>4 DEF SendInitFrame, EvidenceAt
  <2>2. Calm
    BY <1>4, <2>1 DEF SendInitFrame, GoTo, BootOpens, LostOnTheBus, KtAt
  <2> QED
    BY <1>2, <1>4, <2>2
<1>5. CASE AirKept /\ InitResponse
  <2>1. step \in 1..5
    BY DEF IInv, TypeOK, InitFrames
  <2>2. Calm
    BY <1>5, <2>1 DEF InitResponse, GoTo, Finish, KtAt, Codes
  <2> QED
    BY <1>2, <1>5, <2>2
<1>6. CASE AirKept /\ (LoopTop \/ NextFrame \/ EndBetweenPackets \/ EndInsidePacket)
  <2>1. Calm
    BY <1>6 DEF LoopTop, NextFrame, EndBetweenPackets, EndInsidePacket, GoTo, KtAt
  <2> QED
    BY <1>2, <1>6, <2>1
<1>7. CASE AirKept /\ KtPageChecksum
  <2>1. PICK m \in Answers :
          /\ get_frame("IAP_HEARTBEAT", m)
          /\ \/ /\ m.type # "KT_CALCULATED_PAGE_CHECKSUM"
                /\ TryAgain
                /\ UNCHANGED <<kt_page_checksum, page_frame>>
             \/ /\ m.type = "KT_CALCULATED_PAGE_CHECKSUM" \/ tries = 1
                /\ kt_page_checksum' = m
                /\ page_frame' = [sum |-> curr_page_cs, page |-> (page_count + 1) % BYTE]
                /\ GoTo("page_send")
    BY <1>7 DEF KtPageChecksum
  <2>2. m.type = "KT_CALCULATED_PAGE_CHECKSUM" \/ m.data = 0
    <3>1. m = NoFrame \/ m \in InAir
      BY <1>1, <2>1, FrameTaken
    <3>2. NoFrame.data = 0
      BY NoDataAssumption DEF NoFrame, Frame
    <3>3. \A n \in InAir : FrameAt(n)
      BY DEF EvidenceAt
    <3> QED
      BY <3>1, <3>2, <3>3 DEF FrameAt
  <2>3. pc = "page_kt" /\ UNCHANGED <<file, eof_size>>
    BY <1>7 DEF KtPageChecksum
  <2>4. Calm
    BY <2>1, <2>2, <2>3 DEF GoTo, TryAgain, KtAt
  <2> QED
    BY <1>2, <1>7, <2>4
<1>8. CASE AirKept /\ (SendPageChecksum \/ PageResponse)
  <2>1. KtAt
    BY DEF EvidenceAt, KtAt
  <2>2. Calm
    BY <1>8, <2>1 DEF SendPageChecksum, PageResponse, BootPageChecksum, LostOnTheBus, GoTo,
                      TryAgain, Finish, KtAt, Codes
  <2> QED
    BY <1>2, <1>8, <2>2
<1>9. CASE AirKept /\ (SendFullPacket \/ SendPaddedPacket \/ Resend)
  <2>1. Calm
    BY <1>9 DEF SendFullPacket, SendPaddedPacket, SendPacket, Resend, BootPacket, BootResend,
                Stores, LostOnTheBus, GoTo, KtAt
  <2> QED
    BY <1>2, <1>9, <2>1
<1>10. CASE AirKept /\ (PacketAck \/ LastAck \/ ResendAck)
  <2>1. Calm
    BY <1>10 DEF PacketAck, LastAck, ResendAck, PacketDone, GoTo, TryAgain, Finish, KtAt, Codes
  <2> QED
    BY <1>2, <1>10, <2>1
<1>11. CASE AirKept /\ EndOfFileResponse
  <2>1. PICK m \in Answers :
          /\ get_frame("IAP_RESPONSE", m)
          /\ \/ m.type = "END_OF_HEX_FILE_RESPONSE" /\ GoTo("last_kt")
             \/ /\ m.type # "END_OF_HEX_FILE_RESPONSE"
                /\ TryAgain \/ (tries = 1 /\ Finish("END_OF_FILE_FAIL"))
    BY <1>11 DEF EndOfFileResponse
  <2>2. m.type = "END_OF_HEX_FILE_RESPONSE" => eof_size = LastSize(file)
    <3>1. m = NoFrame \/ m \in InAir
      BY <1>1, <2>1, FrameTaken
    <3>2. \A n \in InAir : FrameAt(n)
      BY DEF EvidenceAt
    <3> QED
      BY <3>1, <3>2 DEF FrameAt, NoFrame, Frame
  <2>3. pc = "eof_resp" /\ UNCHANGED <<file, eof_size>>
    BY <1>11 DEF EndOfFileResponse
  <2>4. Calm
    BY <2>1, <2>2, <2>3 DEF GoTo, TryAgain, Finish, KtAt, Codes
  <2> QED
    BY <1>2, <1>11, <2>4
<1>12. CASE AirKept /\ (LastKtPageChecksum \/ SendLastPageChecksum \/ LastPageResponse)
  <2>1. pc \in EofLabels => eof_size = LastSize(file)
    BY DEF EvidenceAt
  <2>2. Calm
    BY <1>12, <2>1 DEF LastKtPageChecksum, SendLastPageChecksum, LastPageResponse,
                       BootPageChecksum, LostOnTheBus, GoTo, TryAgain, Finish, KtAt, Codes
  <2> QED
    BY <1>2, <1>12, <2>2
<1>13. CASE AirKept /\ TotalResponse
  <2>1. PICK m \in Answers :
          /\ get_frame("IAP_RESPONSE", m)
          /\ \/ m.type = "CALCULATE_TOTAL_CHECKSUM_RESPONSE" /\ GoTo("heartbeat_skip")
             \/ m.type # "CALCULATE_TOTAL_CHECKSUM_RESPONSE" /\ Finish("TOTAL_CHECKSUM_FAIL")
    BY <1>13 DEF TotalResponse
  <2>2. m.type = "CALCULATE_TOTAL_CHECKSUM_RESPONSE" => SumConfirmed
    <3>1. m = NoFrame \/ m \in InAir
      BY <1>1, <2>1, FrameTaken
    <3>2. \A n \in InAir : FrameAt(n)
      BY DEF EvidenceAt
    <3> QED
      BY <3>1, <3>2 DEF FrameAt, NoFrame, Frame
  <2>3. pc = "total_resp" /\ UNCHANGED <<file, eof_size, image>> /\ status = "RUNNING"
    BY <1>13 DEF TotalResponse, EvidenceAt
  <2>4. /\ pc' \in {"done", "heartbeat_skip"}
        /\ status' # "RUNNING" => pc' = "done"
        /\ pc' \in HeartbeatLabels \/ status' \in Verdicts => SumConfirmed
    BY <2>1, <2>2, <2>3 DEF GoTo, Finish, Verdicts
  <2> QED
    BY <1>13, <2>3, <2>4, EvidenceAfter
<1>14. CASE AirKept /\ (FirstHeartbeat \/ SecondHeartbeat \/ WaitForPageOne)
  <2>1. /\ pc \in HeartbeatLabels /\ UNCHANGED <<file, eof_size, image>>
        /\ (pc' \in HeartbeatLabels /\ UNCHANGED status) \/ pc' = "done"
    BY <1>14 DEF FirstHeartbeat, SecondHeartbeat, WaitForPageOne, NextHeartbeat, GoTo, Finish
  <2>2. SumConfirmed /\ status = "RUNNING"
    BY <2>1 DEF EvidenceAt
  <2>3. status' # "RUNNING" => pc' = "done"
    BY <2>1, <2>2
  <2> QED
    BY <1>14, <2>1, <2>2, <2>3, EvidenceAfter
<1>15. CASE AirKept /\ (Loss \/ Disturbance \/ Done \/ UNCHANGED vars)
  <2>1. UNCHANGED <<pc, status, file, eof_size, image, kt_page_checksum>>
    BY <1>15 DEF Loss, Disturbance, StrayHeartbeat, Done, vars
  <2>2. CASE pc \in TotalLabels
    <3>1. /\ status' # "RUNNING" => pc' = "done"
          /\ pc' \in HeartbeatLabels \/ status' \in Verdicts => SumConfirmed
      BY <2>1 DEF EvidenceAt
    <3> QED
      BY <1>15, <2>1, <2>2, <3>1, EvidenceAfter
  <2>3. CASE pc \notin TotalLabels
    <3>1. KtAt /\ (pc \in EofLabels => eof_size = LastSize(file))
      BY DEF EvidenceAt, KtAt
    <3>2. Calm
      BY <2>1, <2>3, <3>1 DEF KtAt
    <3> QED
      BY <1>2, <1>15, <3>2
  <2> QED
    BY <2>2, <2>3
<1>16. AirKept \/ SendEndOfFile \/ SendTotalChecksum
  BY <1>1, AirStep
<1> QED
  BY <1>3, <1>4, <1>5, <1>6, <1>7, <1>8, <1>9, <1>10, <1>11, <1>12, <1>13, <1>14, <1>15, <1>16
  DEF Next, Upload

LEMMA EvidenceInit ==
  ASSUME Init
  PROVE  EvidenceAt
<1>1. air = <<>> /\ pc = "init_send" /\ status = "RUNNING" /\ eof_size = -1
  BY DEF Init, BootInit
<1>2. air \in Seq(InAir)
  BY <1>1
<1>3. DOMAIN air = {}
  BY <1>1
<1>4. \A m \in InAir : FrameAt(m)
  BY <1>3 DEF InAir
<1> QED
  BY <1>1, <1>2, <1>4 DEF EvidenceAt, InitLabels, EofLabels, HeartbeatLabels, Verdicts

-----------------------------------------------------------------------------
(* The sum of a page. *)

LEMMA ChunkSumIsNat ==
  ASSUME NEW f, HexFile(f), NEW k \in Nat, k > 0
  PROVE  ChunkSums(f)[k] \in Nat
<1> DEFINE r == (k + 1) \div 2
<1>1. r \in Nat /\ r > 0 /\ (k = 2 * r - 1 \/ k = 2 * r)
  OBVIOUS
<1> HIDE DEF r
<1>2. ChunkSum(f, FileChunk(f, 2 * r - 1)) \in Nat /\ ChunkSum(f, FileChunk(f, 2 * r)) \in Nat
  BY <1>1, PairOfChunks
<1>3. ChunkSum(f, FileChunk(f, k)) \in Nat
  BY <1>1, <1>2
<1> QED
  BY <1>3 DEF ChunkSums

LEMMA NoSumBehindTheEnd ==
  ASSUME NEW f, NEW k \in Nat, k > ChunkCount(f), ChunkCount(f) \in Nat
  PROVE  ChunkSums(f)[k] = 0
<1>1. ~(k <= ChunkCount(f))
  OBVIOUS
<1>2. FileChunk(f, k) = Filler
  BY <1>1 DEF FileChunk
<1> QED
  BY <1>2 DEF ChunkSums, ChunkSum

LEMMA SumOneMore ==
  ASSUME NEW F, NEW a \in Nat, NEW n \in Nat, a <= n + 1, \A k \in a..(n + 1) : F[k] \in Int
  PROVE  SumF(F, a..(n + 1)) = SumF(F, a..n) + F[n + 1]
<1> DEFINE S == a..n
           y == n + 1
<1>1. IsFiniteSet(S) /\ y \notin S /\ a..(n + 1) = S \cup {y}
  BY FS_Interval
<1>2. \A k \in S \cup {y} : F[k] \in Int
  OBVIOUS
<1>3. \A k \in S : F[k] \in Int
  BY <1>2
<1> HIDE DEF S, y
<1>4. SumF(F, S \cup {y}) = F[y] + SumF(F, S)
  BY <1>1, <1>2, SumAdd
<1>5. SumF(F, S) \in Int /\ F[y] \in Int
  BY <1>1, <1>2, <1>3, SumType
<1>6. SumF(F, S \cup {y}) = SumF(F, S) + F[y]
  BY <1>4, <1>5
<1> QED
  BY <1>1, <1>6 DEF S, y

LEMMA SumUpToTheEnd ==
  ASSUME NEW f, HexFile(f), NEW a \in Nat, a > 0, NEW n \in Nat, ChunkCount(f) <= n
  PROVE  SumF(ChunkSums(f), a..ChunkCount(f)) = SumF(ChunkSums(f), a..n)
<1> DEFINE F == ChunkSums(f)
           C == ChunkCount(f)
           A == a..C
           B == {k \in a..n : k > C}
<1>1. C \in Nat
  BY ChunkCountIsNat
<1>2. IsFiniteSet(A) /\ IsFiniteSet(B) /\ A \cap B = {} /\ a..n = A \cup B
  <2>1. IsFiniteSet(a..n)
    BY FS_Interval
  <2>3. IsFiniteSet(A)
    BY <1>1, FS_Interval
  <2>2. IsFiniteSet(B)
    BY <2>1, FS_Subset
  <2> QED
    BY <1>1, <2>2, <2>3
<1>3. \A k \in A \cup B : F[k] \in Int
  <2> SUFFICES ASSUME NEW k \in A \cup B PROVE F[k] \in Int
    OBVIOUS
  <2>1. k \in Nat /\ k > 0
    BY <1>1
  <2> HIDE DEF F
  <2> QED
    BY <2>1, ChunkSumIsNat DEF F
<1>4. \A k \in B : F[k] = 0
  <2> SUFFICES ASSUME NEW k \in B PROVE F[k] = 0
    OBVIOUS
  <2>1. k \in Nat /\ k > C
    OBVIOUS
  <2> QED
    BY <1>1, <2>1, NoSumBehindTheEnd
<1>5. \A k \in A : F[k] \in Int
  BY <1>3
<1> HIDE DEF A, B, F, C
<1>6. SumF(F, A \cup B) = SumF(F, A) + SumF(F, B)
  BY <1>2, <1>3, SumUnion
<1>7. SumF(F, B) = 0 /\ SumF(F, A) \in Int
  BY <1>2, <1>4, <1>5, SumZero, SumType
<1>8. SumF(F, A \cup B) = SumF(F, A)
  BY <1>6, <1>7
<1>9. SumF(F, A) = SumF(F, a..n)
  BY <1>2, <1>8
<1> QED
  BY <1>9 DEF A, F, C

\* Where a page begins and ends, in chunks.
LEMMA FirstOfPage ==
  ASSUME IInv
  PROVE  /\ First \in Nat /\ First > 0
         /\ First = 4 * (page_count * PAGE_SIZE) + 1
         /\ page_count * PAGE_SIZE \in Nat /\ PAGE_SIZE \in Nat /\ PAGE_SIZE > 0
         /\ (page_count + 1) * PAGE_SIZE = page_count * PAGE_SIZE + PAGE_SIZE
BY FileOfInv, PageBase, PageSizeAssumption, FramesAreFour DEF First

\* A step that leaves the counts and the reader leaves the sum, but where a page is passed.
LEMMA QuietKeepsSums ==
  ASSUME IInv, SumsAt, QuietMove, Still, UNCHANGED <<page_count, curr_page_cs>>,
         pc' \in {"page_send", "page_resp", "last_page_send", "last_page_resp"} =>
            \/ pc \in {"page_send", "page_resp", "last_page_send", "last_page_resp"}
                 /\ UNCHANGED page_frame
            \/ page_frame'.sum = curr_page_cs,
         pc = "done" => pc' = "done",
         pc \in InitLabels => ~ut.is_eof
  PROVE  SumsAt'
<1>1. UNCHANGED <<file, ut, packet_count, frame_count>>
  BY DEF Still
<1>2. First' = First /\ Reach' = Reach
  BY <1>1 DEF First, Reach
<1>3. pc' # "done" => curr_page_cs' = SumF(ChunkSums(file'), First'..Reach')
  BY <1>1, <1>2 DEF SumsAt
<1>4. /\ pc' \in {"loop", "frame"} \cup PageLabels /\ ut.is_eof
         => pc \in {"loop", "frame"} \cup PageLabels
  BY DEF QuietMove, InitLabels, PageLabels, LateLabels, EofLabels, HeartbeatLabels
<1> QED
  BY <1>1, <1>3, <1>4 DEF SumsAt

\* An acknowledged packet is four chunks.
LEMMA CountKeepsSums ==
  ASSUME IInv, EndAt, ChunksAt, SumsAt, PacketCounted, UNCHANGED <<page_count, curr_page_cs>>
  PROVE  SumsAt'
<1>1. /\ pc' = "loop" /\ frame_count' = 0 /\ packet_count' = packet_count + 1
      /\ UNCHANGED <<file, ut>> /\ pc \in {"packet_ack", "resend_ack"}
  BY DEF PacketCounted, PacketDone, GoTo
<1>2. /\ packet_count \in Nat /\ packet_count < FilePackets(file) /\ FilePackets(file) \in Nat
      /\ ChunkCount(file) \in Nat
  BY <1>1, FileOfInv, FilePacketsIsNat, ChunkCountIsNat DEF ChunksAt, SendLabels
<1>3. ut.is_eof \/ frame_count = 4
  BY <1>1, FramesAreFour DEF IInv, FramesAt, EndAt
<1>4. Reach' = Reach
  BY <1>1, <1>2, <1>3, FramesAreFour DEF Reach
<1>5. First' = First
  BY DEF First
<1>6. curr_page_cs' = SumF(ChunkSums(file'), First'..Reach')
  BY <1>1, <1>4, <1>5 DEF SumsAt
<1>7. packet_count' <= FilePackets(file')
  BY <1>1, <1>2
<1>8. ut.is_eof => ChunkCount(file) <= 4 * packet_count + 4
  BY <1>1, FramesAreFour DEF SumsAt
<1>9. ut'.is_eof => ChunkCount(file') <= 4 * packet_count'
  BY <1>1, <1>2, <1>8
<1>10. ut'.is_eof => ChunkCount(file') <= 4 * packet_count' + 4
  BY <1>1, <1>2, <1>9
<1> QED
  BY <1>1, <1>6, <1>7, <1>9, <1>10, FramesAreFour DEF SumsAt

\* One chunk more.
LEMMA FrameKeepsSums ==
  ASSUME IInv, EndAt, ChunksAt, SumsAt, NextFrame
  PROVE  SumsAt'
<1> DEFINE n == 4 * packet_count + frame_count
           c == NextChunk(file, ut)
<1>1. /\ pc = "frame" /\ ~AtEnd(file, ut) /\ ut' = AfterChunk(file, ut)
      /\ frame_count' = frame_count + 1
      /\ pc' \in {"packet_send", "frame"}
      /\ curr_page_cs' = curr_page_cs + ChunkSum(file, c)
      /\ UNCHANGED <<file, packet_count, page_count>>
  BY DEF NextFrame, GoTo
<1>2. HexFile(file) /\ Reader(file, ut) /\ Halfway(file, ut) /\ packet_count \in Nat
      /\ frame_count \in Nat
  BY FileOfInv DEF EndAt
<1>3. ~ut.is_eof /\ ~ut'.is_eof
  BY <1>1, <1>2, FrameKeepsReader, OneChunkForward
<1>4. Position(file, ut) = n
  BY <1>3, FramesAreFour DEF IInv, SentInOrder
<1>5. c = FileChunk(file, n + 1)
  BY <1>1, <1>2, <1>3, <1>4, NextChunkIs
<1>6. n \in Nat /\ Reach = n /\ Reach' = n + 1 /\ First' = First
  BY <1>1, <1>2, <1>3, FramesAreFour DEF Reach, First
<1>7. First <= n + 1 /\ First \in Nat /\ First > 0
  <2>1. page_count * PAGE_SIZE <= packet_count
    BY <1>1 DEF IInv, PagesAt, InPage, InitLabels, PageLabels
  <2> QED
    BY <1>2, <2>1, FirstOfPage
<1>8. ChunkSum(file, c) = ChunkSums(file)[n + 1]
  BY <1>5, <1>6 DEF ChunkSums
<1>9. curr_page_cs = SumF(ChunkSums(file), First..n)
  BY <1>1, <1>6 DEF SumsAt
<1> HIDE DEF n, c
<1>10. SumF(ChunkSums(file), First..(n + 1)) = SumF(ChunkSums(file), First..n) + ChunkSums(file)[n + 1]
  <2>1. \A k \in First..(n + 1) : ChunkSums(file)[k] \in Int
    <3> SUFFICES ASSUME NEW k \in First..(n + 1) PROVE ChunkSums(file)[k] \in Int
      OBVIOUS
    <3>1. k \in Nat /\ k > 0
      BY <1>6, <1>7
    <3>2. ChunkSums(file)[k] \in Nat
      BY <1>2, <3>1, ChunkSumIsNat
    <3> QED
      BY <3>2
  <2> QED
    BY <1>6, <1>7, <2>1, SumOneMore
<1>11. curr_page_cs' = SumF(ChunkSums(file), First..(n + 1))
  BY <1>1, <1>8, <1>9, <1>10
<1>12. curr_page_cs' = SumF(ChunkSums(file'), First'..Reach')
  BY <1>1, <1>6, <1>11
<1> QED
  BY <1>1, <1>3, <1>12 DEF SumsAt

LEMMA EndKeepsSums ==
  ASSUME IInv, EndAt, ChunksAt, SumsAt, EndBetweenPackets \/ EndInsidePacket
  PROVE  SumsAt'
<1>1. /\ pc = "frame" /\ AtEnd(file, ut) /\ ut' = AfterEnd(ut) /\ pc' \in {"eof_send", "last_send"}
      /\ UNCHANGED <<file, packet_count, page_count, frame_count, curr_page_cs>>
  BY DEF EndBetweenPackets, EndInsidePacket, GoTo
<1>2. HexFile(file) /\ Reader(file, ut) /\ Halfway(file, ut) /\ packet_count \in Nat
  BY FileOfInv DEF EndAt
<1>3. frame_count \in 0..3
  BY <1>1, FileOfInv, FramesAreFour DEF IInv, FramesAt
<1>4. ~ut.is_eof => 4 * packet_count + frame_count = ChunkCount(file)
  <2> SUFFICES ASSUME ~ut.is_eof PROVE 4 * packet_count + frame_count = ChunkCount(file)
    OBVIOUS
  <2>1. Position(file, ut) = ChunkCount(file)
    BY <1>1, <1>2, EndOfChunks
  <2>2. Position(file, ut) = 4 * packet_count + frame_count
    BY FramesAreFour DEF IInv, SentInOrder
  <2> QED
    BY <2>1, <2>2
<1>5. ut'.is_eof
  BY <1>1 DEF AfterEnd
<1>6. Reach' = Reach /\ First' = First
  BY <1>1, <1>4, <1>5, FramesAreFour DEF Reach, First
<1>7. ut.is_eof => ChunkCount(file) <= 4 * packet_count
  BY <1>1, FramesAreFour DEF SumsAt
<1>8. ChunkCount(file') <= 4 * packet_count' + 4
  BY <1>1, <1>2, <1>3, <1>4, <1>7, ChunkCountIsNat
<1>9. curr_page_cs' = SumF(ChunkSums(file'), First'..Reach')
  BY <1>1, <1>6 DEF SumsAt
<1> QED
  BY <1>1, <1>8, <1>9, FramesAreFour DEF SumsAt, PageLabels

\* A new page begins behind the last chunk sent.
LEMMA PageKeepsSums ==
  ASSUME IInv, EndAt, SumsAt, PageResponse
  PROVE  SumsAt'
<1>1. /\ pc = "page_resp"
      /\ UNCHANGED <<file, ut, packet_count, frame_count, page_frame>>
      /\ \/ NextPage /\ pc' = "frame"
         \/ UNCHANGED <<page_count, curr_page_cs>> /\ pc' \in {"page_resp", "done"}
  BY DEF PageResponse, GoTo, TryAgain, Finish
<1>2. CASE UNCHANGED <<page_count, curr_page_cs>> /\ pc' \in {"page_resp", "done"}
  <2>1. First' = First /\ Reach' = Reach
    BY <1>1, <1>2 DEF First, Reach
  <2>2. curr_page_cs' = SumF(ChunkSums(file'), First'..Reach')
    BY <1>1, <1>2, <2>1 DEF SumsAt
  <2> QED
    BY <1>1, <1>2, <2>2 DEF SumsAt, PageLabels
<1>3. CASE NextPage /\ pc' = "frame"
  <2>1. page_count' = page_count + 1 /\ curr_page_cs' = 0
    BY <1>3 DEF NextPage
  <2>2. /\ packet_count = page_count * PAGE_SIZE + PAGE_SIZE /\ frame_count = 0
        /\ packet_count \in Nat
    BY <1>1, FileOfInv DEF IInv, PagesAt, FramesAt, PageLabels, PageFull
  <2>3. ut.is_eof => ChunkCount(file) <= 4 * packet_count
    BY <1>1, FramesAreFour DEF SumsAt, PageLabels
  <2>4. First' = 4 * packet_count + 1
    <3>1. First' = (page_count + 1) * PAGE_SIZE * 4 + 1
      BY <2>1, FramesAreFour DEF First
    <3>2. (page_count + 1) * PAGE_SIZE = packet_count
      BY <2>2, FirstOfPage
    <3> QED
      BY <2>2, <3>1, <3>2
  <2>5. Reach' <= 4 * packet_count /\ Reach' \in Nat
    BY <1>1, <2>2, <2>3, FileOfInv, ChunkCountIsNat, FramesAreFour DEF Reach
  <2>6. First'..Reach' = {}
    BY <2>2, <2>4, <2>5
  <2>7. curr_page_cs' = SumF(ChunkSums(file'), First'..Reach')
    BY <2>1, <2>6, SumEmpty
  <2>8. ut.is_eof => ChunkCount(file) <= 4 * packet_count + 4
    BY <2>2, <2>3, FileOfInv, ChunkCountIsNat
  <2>9. packet_count <= FilePackets(file)
    BY DEF SumsAt
  <2> QED
    BY <1>1, <1>3, <2>3, <2>7, <2>8, <2>9, FramesAreFour DEF SumsAt
<1> QED
  BY <1>1, <1>2, <1>3

LEMMA SumsStep ==
  ASSUME IInv, EndAt, ChunksAt, SumsAt, [Next]_vars
  PROVE  SumsAt'
<1> USE DEF uploadVars
<1> DEFINE Asked == {"page_send", "page_resp", "last_page_send", "last_page_resp"}
           Calm == /\ UNCHANGED <<page_count, curr_page_cs>>
                   /\ pc' \in Asked => \/ pc \in Asked /\ UNCHANGED page_frame
                                       \/ page_frame'.sum = curr_page_cs
                   /\ pc = "done" => pc' = "done"
<1>1. pc \in InitLabels => ~ut.is_eof
  BY DEF EndAt
<1>2. ASSUME Calm, Still, QuietMove PROVE SumsAt'
  <2> HIDE DEF QuietMove
  <2> QED
    BY <1>1, <1>2, QuietKeepsSums
<1>3. ASSUME Calm, PacketCounted PROVE SumsAt'
  BY <1>3, CountKeepsSums
<1>4. CASE NextFrame \/ EndBetweenPackets \/ EndInsidePacket
  BY <1>4, FrameKeepsSums, EndKeepsSums
<1>5. CASE PageResponse
  BY <1>5, PageKeepsSums
<1>6. Calm \/ PageResponse \/ NextFrame \/ EndBetweenPackets \/ EndInsidePacket
  <2>1. ASSUME UNCHANGED vars \/ Done \/ Loss \/ Disturbance PROVE Calm
    BY <2>1 DEF vars, Done, Loss, Disturbance, StrayHeartbeat
  <2>2. ASSUME SendInitFrame \/ InitResponse \/ LoopTop PROVE Calm
    BY <2>2 DEF SendInitFrame, InitResponse, LoopTop, GoTo, Finish
  <2>3. ASSUME KtPageChecksum \/ LastKtPageChecksum PROVE Calm
    BY <2>3 DEF KtPageChecksum, LastKtPageChecksum, GoTo, TryAgain
  <2>4. ASSUME SendPageChecksum \/ SendLastPageChecksum \/ LastPageResponse PROVE Calm
    BY <2>4 DEF SendPageChecksum, SendLastPageChecksum, LastPageResponse, GoTo, TryAgain, Finish
  <2>5. ASSUME SendFullPacket \/ SendPaddedPacket \/ Resend PROVE Calm
    BY <2>5 DEF SendFullPacket, SendPaddedPacket, SendPacket, Resend, GoTo
  <2>6. ASSUME PacketAck \/ LastAck \/ ResendAck PROVE Calm
    BY <2>6 DEF PacketAck, LastAck, ResendAck, PacketDone, GoTo, TryAgain, Finish
  <2>7. ASSUME SendEndOfFile \/ EndOfFileResponse \/ SendTotalChecksum \/ TotalResponse PROVE Calm
    BY <2>7 DEF SendEndOfFile, EndOfFileResponse, SendTotalChecksum, TotalResponse, GoTo, TryAgain,
                Finish
  <2>8. ASSUME FirstHeartbeat \/ SecondHeartbeat \/ WaitForPageOne PROVE Calm
    BY <2>8 DEF FirstHeartbeat, SecondHeartbeat, WaitForPageOne, GoTo, Finish
  <2> QED
    BY <2>1, <2>2, <2>3, <2>4, <2>5, <2>6, <2>7, <2>8 DEF Next, Upload
<1> QED
  BY <1>2, <1>3, <1>4, <1>5, <1>6, StepIs

LEMMA SumsInit ==
  ASSUME Init
  PROVE  SumsAt
<1>1. /\ pc = "init_send" /\ ut = NewReader /\ packet_count = 0 /\ page_count = 0
      /\ frame_count = 0 /\ curr_page_cs = 0 /\ file \in Files
  BY DEF Init
<1>2. HexFile(file) /\ IInv
  BY <1>1, InitEstablishes, FileOfInv
<1>3. FilePackets(file) \in Nat
  BY <1>2, FilePacketsIsNat
<1>4. First = 1 /\ Reach = 0
  BY <1>1, <1>2, FirstOfPage, FramesAreFour DEF Reach, NewReader, First
<1>5. First..Reach = {}
  BY <1>4
<1>6. SumF(ChunkSums(file), First..Reach) = 0
  BY <1>5, SumEmpty
<1> QED
  BY <1>1, <1>3, <1>6 DEF SumsAt, NewReader, PageLabels

-----------------------------------------------------------------------------
(* The whole invariant and what it says. *)

UploadInv == IInv /\ EndAt /\ ChunksAt /\ ImageAt /\ EvidenceAt /\ SumsAt

\* The inductive invariant of a whole upload, for as long as the file is not read again:
\* what was read, what the bootloader holds, what its answers prove (IAP.cpp:334-505).
THEOREM UploadInvariance == Spec => [](IInv /\ (~Rereads => UploadInv))
<1> DEFINE I == IInv /\ (~Rereads => UploadInv)
<1>1. Init => I
  BY InitEstablishes, ReaderInit, ImageInit, EvidenceInit, SumsInit DEF UploadInv
<1>2. I /\ [Next]_vars => I'
  BY StepKeeps, ReaderStep, ImageStep, EvidenceStep, SumsStep, NotYetReread DEF UploadInv
<1> QED
  BY <1>1, <1>2, PTL DEF Spec

\* A verdict means that the image's sum is the file's, and then it is the file.
LEMMA VerdictMeansStored ==
  ASSUME UploadInv, NoneHasZeroPacket
  PROVE  CompleteMeansStored
<1> SUFFICES ASSUME status \in Verdicts
             PROVE  image = [k \in 1..FilePackets(file) |-> FilePacket(file, k)]
  BY DEF CompleteMeansStored, Verdicts
<1>1. HexFile(file) /\ NoZeroPacket(file)
  BY FileOfInv DEF UploadInv, NoneHasZeroPacket
<1>2. image \in Seq(Packets(file)) /\ Holds(file, image, FilePackets(file))
  BY DEF UploadInv, ImageAt, Packets
<1>3. SumOf(file, 1, image, LastSize(file)) = TotalChecksum(file)
  BY DEF UploadInv, EvidenceAt, SumConfirmed
<1>4. PICK x \in [1..Len(image) -> 1..FilePackets(file)] : SomePackets(file, image, x)
  BY <1>2 DEF Holds
<1>5. Len(image) \in Nat /\ image \in [1..Len(image) -> Packets(file)]
  BY <1>2, LenProperties
<1>6. /\ Len(image) = FilePackets(file)
      /\ \A i \in 1..Len(image) : image[i] = FilePacket(file, i)
  BY <1>1, <1>3, <1>4, <1>5, SumTellsImage
<1> QED
  BY <1>5, <1>6

\* The upload is reported as done, with or without a Kinetek error, only when the
\* bootloader holds the whole file, whatever was lost, late or sent twice
\* (IAP.cpp:470-502).
THEOREM CompleteIsStored ==
  ASSUME NoneIsReread, NoneHasZeroPacket
  PROVE  Spec => []CompleteMeansStored
<1>1. IInv /\ (~Rereads => UploadInv) => CompleteMeansStored
  BY VerdictMeansStored, NoneRereads
<1> QED
  BY <1>1, UploadInvariance, PTL

\* The bootloader's sum of the chunks from first to last.
SumOfRange(f, first, last) ==
  MapThenSumSet(LAMBDA k : ChunkSum(f, FileChunk(f, k)), first..last)

LEMMA SumOfChunks ==
  ASSUME NEW f, NEW first \in Nat, NEW last \in Nat
  PROVE  SumOfRange(f, first, last) = SumF(ChunkSums(f), first..last)
<1> DEFINE S == first..last
           F == ChunkSums(f)
           Table(h) == h = [s \in SUBSET S |->
                              IF s = {} THEN 0
                              ELSE LET x == CHOOSE e \in s : TRUE
                                   IN ChunkSum(f, FileChunk(f, x)) + h[s \ {x}]]
           it == CHOOSE h : Table(h)
<1>1. IsFiniteSet(S) /\ S \subseteq Nat
  BY FS_Interval
<1>2. \A h : SumTable(F, S, h) <=> Table(h)
  <2>1. \A s \in SUBSET S : s # {} => (CHOOSE e \in s : TRUE) \in Nat
    BY <1>1
  <2> HIDE DEF S
  <2> QED
    BY <2>1 DEF SumTable, ChunkSums
<1>3. \E h : SumTable(F, S, h)
  BY <1>1, TableExists
<1>4. SumOfRange(f, first, last) = it[S]
  BY DEF SumOfRange, MapThenSumSet, MapThenFoldSet
<1> HIDE DEF Table
<1>5. Table(it)
  BY <1>2, <1>3
<1> HIDE DEF it, F, S
<1>6. SumF(F, S) = it[S]
  BY <1>1, <1>2, <1>5, SumIsTable
<1> QED
  BY <1>4, <1>6 DEF S, F

LEMMA FrameOfPage ==
  ASSUME UploadInv
  PROVE  PageFrameIsRight
<1> SUFFICES ASSUME pc \in {"page_send", "last_page_send"}
             PROVE  LET first == page_count * PAGE_SIZE * FRAMES + 1
                        last == first + PAGE_SIZE * FRAMES - 1
                    IN  /\ page_frame.sum = SumOfRange(file, first, last)
                        /\ pc = "page_send" => FRAMES * packet_count = last
  BY Zenon DEF PageFrameIsRight, SumOfRange
<1> DEFINE last == First + PAGE_SIZE * FRAMES - 1
<1>1. IInv /\ EndAt /\ SumsAt
  BY DEF UploadInv
<1>2. HexFile(file) /\ packet_count \in Nat /\ ChunkCount(file) \in Nat
  BY <1>1, FileOfInv, ChunkCountIsNat
<1>3. /\ First \in Nat /\ First > 0 /\ First = 4 * (page_count * PAGE_SIZE) + 1
      /\ page_count * PAGE_SIZE \in Nat /\ PAGE_SIZE \in Nat /\ PAGE_SIZE > 0
  BY <1>1, FirstOfPage
<1>4. last = 4 * (page_count * PAGE_SIZE + PAGE_SIZE) /\ last \in Nat
  BY <1>3, FramesAreFour
<1>5. page_frame.sum = SumF(ChunkSums(file), First..Reach)
  BY <1>1 DEF SumsAt
<1>6. pc = "page_send" => 4 * packet_count = last /\ frame_count = 0
  BY <1>1, <1>4 DEF IInv, FramesAt, PagesAt, PageFull, PageLabels
<1>7. pc = "last_page_send" => ut.is_eof /\ packet_count < page_count * PAGE_SIZE + PAGE_SIZE
  BY <1>1 DEF IInv, FramesAt, PagesAt, InPage, PageLabels, InitLabels, LastLabels
<1> HIDE DEF last
<1>8. CASE ut.is_eof
  <2>1. /\ ChunkCount(file) <= 4 * packet_count + 4
        /\ pc = "page_send" => ChunkCount(file) <= 4 * packet_count
    BY <1>1, <1>8, FramesAreFour DEF SumsAt, PageLabels
  <2>2. ChunkCount(file) <= last
    BY <1>2, <1>3, <1>4, <1>6, <1>7, <2>1
  <2>3. Reach = ChunkCount(file)
    BY <1>8 DEF Reach
  <2>4. SumF(ChunkSums(file), First..ChunkCount(file)) = SumF(ChunkSums(file), First..last)
    BY <1>2, <1>3, <1>4, <2>2, SumUpToTheEnd
  <2>5. page_frame.sum = SumF(ChunkSums(file), First..last)
    BY <1>5, <2>3, <2>4
  <2>6. page_frame.sum = SumOfRange(file, First, last)
    BY <1>3, <1>4, <2>5, SumOfChunks
  <2> QED
    BY <1>6, <2>6, FramesAreFour DEF last, First
<1>9. CASE ~ut.is_eof
  <2>1. pc = "page_send"
    BY <1>7, <1>9
  <2>2. Reach = last
    BY <1>2, <1>6, <1>9, <2>1, FramesAreFour DEF Reach
  <2>3. page_frame.sum = SumOfRange(file, First, last)
    BY <1>3, <1>4, <1>5, <2>2, SumOfChunks
  <2> QED
    BY <1>6, <2>3, FramesAreFour DEF last, First
<1> QED
  BY <1>8, <1>9

\* The sum in a page checksum frame is the sum of the file's bytes of that page, through
\* time-outs, retries and resends (IAP.cpp:364-370, 452-457, 574-583).
THEOREM PageSumsAreRight ==
  ASSUME NoneIsReread
  PROVE  Spec => []PageFrameIsRight
<1>1. IInv /\ (~Rereads => UploadInv) => PageFrameIsRight
  BY FrameOfPage, NoneRereads
<1> QED
  BY <1>1, UploadInvariance, PTL

\* The program's sum of a full page is not zero.
LEMMA FullPageHasSum ==
  ASSUME UploadInv, NoneHasZeroPage, pc = "page_resp"
  PROVE  page_frame.sum > 0
<1> DEFINE n == packet_count
           S == First..Reach
           F == ChunkSums(file)
           B == page_count * PAGE_SIZE
<1>1. IInv /\ EndAt /\ SumsAt
  BY DEF UploadInv
<1>2. HexFile(file) /\ n \in Nat /\ page_count \in Nat /\ ChunkCount(file) \in Nat
  BY <1>1, FileOfInv, ChunkCountIsNat
<1>3. /\ First \in Nat /\ First > 0 /\ First = 4 * B + 1
      /\ B \in Nat /\ PAGE_SIZE \in Nat /\ PAGE_SIZE > 0
  BY <1>1, FirstOfPage
<1>4. n = B + PAGE_SIZE /\ frame_count = 0
  BY <1>1 DEF IInv, FramesAt, PagesAt, PageFull, PageLabels
<1>5. page_frame.sum = SumF(F, S)
  BY <1>1 DEF SumsAt
<1>6. n <= FilePackets(file)
  BY <1>1 DEF SumsAt
<1>7. PICK p \in (B + 1)..(B + PAGE_SIZE), i \in 1..4 : ChunkSum(file, FilePacket(file, p)[i]) > 0
  BY <1>1, <1>2, <1>4, <1>6, FileOfInv, FramesAreFour DEF NoneHasZeroPage
<1> DEFINE k == 4 * (p - 1) + i
<1> HIDE DEF B
<1>8. FilePacket(file, p)[i] = FileChunk(file, k) /\ k \in Nat /\ k > 0
  BY <1>3, FramesAreFour DEF FilePacket
<1>9. F[k] > 0
  BY <1>7, <1>8 DEF ChunkSums
<1>10. k <= Reach /\ First <= k
  <2>1. First <= k /\ k <= 4 * n
    BY <1>2, <1>3, <1>4
  <2>2. ~(k > ChunkCount(file))
    <3> SUFFICES ASSUME k > ChunkCount(file) PROVE FALSE
      OBVIOUS
    <3>1. F[k] = 0
      BY <1>2, <1>8, NoSumBehindTheEnd
    <3> QED
      BY <1>9, <3>1
  <2>3. Reach = IF ut.is_eof THEN ChunkCount(file) ELSE 4 * n
    BY <1>2, <1>4, FramesAreFour DEF Reach
  <2> HIDE DEF k
  <2> QED
    BY <1>2, <1>8, <2>1, <2>2, <2>3
<1>11. Reach \in Nat
  BY <1>2, <1>4, FramesAreFour DEF Reach
<1>12. IsFiniteSet(S)
  BY <1>3, <1>11, FS_Interval
<1>13. \A j \in S : F[j] \in Nat
  <2> SUFFICES ASSUME NEW j \in S PROVE F[j] \in Nat
    OBVIOUS
  <2>1. j \in Nat /\ j > 0
    BY <1>3, <1>11
  <2> QED
    BY <1>2, <2>1, ChunkSumIsNat
<1>14. k \in S \ {}
  BY <1>3, <1>8, <1>10, <1>11
<1> HIDE DEF k, S, F
<1>15. SumF(F, {}) < SumF(F, S)
  BY <1>9, <1>12, <1>13, <1>14, SumStrict
<1>16. SumF(F, {}) = 0
  BY SumEmpty
<1> QED
  BY <1>5, <1>15, <1>16

LEMMA PagePassed ==
  ASSUME UploadInv, NoneHasZeroPage, [Next]_vars, pc = "page_resp", pc' = "frame"
  PROVE  \/ kt_page_checksum.type = "KT_CALCULATED_PAGE_CHECKSUM"
         \/ \E i \in DOMAIN air : air[i].type = "CALCULATE_PAGE_CHECKSUM_RESPONSE"
<1>1. PageResponse
  BY DEF Next, Upload, vars, Done, Loss, Disturbance, SendInitFrame, InitResponse, LoopTop,
         KtPageChecksum, SendPageChecksum, NextFrame, EndBetweenPackets, EndInsidePacket,
         SendFullPacket, SendPaddedPacket, SendPacket, PacketAck, LastAck, Resend, ResendAck,
         SendEndOfFile, EndOfFileResponse, LastKtPageChecksum, SendLastPageChecksum,
         LastPageResponse, SendTotalChecksum, TotalResponse, FirstHeartbeat, SecondHeartbeat,
         WaitForPageOne
<1>2. PICK m \in Answers :
        /\ get_frame("IAP_RESPONSE", m)
        /\ \/ /\ PageAccepted(m)
              /\ NextPage
              /\ GoTo("frame")
           \/ /\ ~PageAccepted(m)
              /\ TryAgain \/ (tries = 1 /\ Finish("PAGE_CHECKSUM_FAIL"))
              /\ UNCHANGED <<page_count, curr_page_cs>>
  BY <1>1 DEF PageResponse
<1>3. PageAccepted(m)
  BY <1>2 DEF TryAgain, Finish
<1>4. CASE m.type = "CALCULATE_PAGE_CHECKSUM_RESPONSE"
  <2>1. m # NoFrame
    BY <1>4 DEF NoFrame, Frame
  <2> QED
    BY <1>2, <1>4, <2>1 DEF Answers
<1>5. CASE kt_page_checksum.data = page_frame.sum
  <2>1. page_frame.sum > 0
    BY FullPageHasSum
  <2>2. \/ kt_page_checksum.type = "KT_CALCULATED_PAGE_CHECKSUM"
        \/ kt_page_checksum.data = 0
    BY DEF UploadInv, EvidenceAt
  <2> QED
    BY <1>5, <2>1, <2>2
<1> QED
  BY <1>3, <1>4, <1>5 DEF PageAccepted

\* A page is passed over only after the bootloader has confirmed it or has announced its
\* own sum of it (IAP.cpp:346-393).
THEOREM PagePassing ==
  ASSUME NoneIsReread, NoneHasZeroPage
  PROVE  Spec => PagePassedOnEvidence
<1>1. IInv /\ (~Rereads => UploadInv) /\ [Next]_vars =>
        [(pc = "page_resp" /\ pc' = "frame") =>
           \/ kt_page_checksum.type = "KT_CALCULATED_PAGE_CHECKSUM"
           \/ \E i \in DOMAIN air : air[i].type = "CALCULATE_PAGE_CHECKSUM_RESPONSE"]_vars
  BY PagePassed, NoneRereads
<1> QED
  BY <1>1, UploadInvariance, PTL DEF Spec, PagePassedOnEvidence

-----------------------------------------------------------------------------
(* An image as long as the packets that may be in it holds all of them. *)

LEMMA IncreasingFull ==
  ASSUME NEW l \in Nat, NEW n \in Nat, NEW x \in [1..l -> Nat],
         \A i \in 1..l : 1 <= x[i] /\ x[i] <= n,
         \A i, j \in 1..l : i < j => x[i] < x[j]
  PROVE  l <= n /\ (l = n => \A i \in 1..l : x[i] = i)
<1>1. ASSUME NEW i \in 1..l, x[i] < i, \A j \in 1..l : x[j] < j => i <= j
      PROVE  FALSE
  <2>1. x[i] \in Nat /\ x[i] >= 1
    OBVIOUS
  <2>2. i - 1 \in 1..l /\ i - 1 < i
    BY <1>1, <2>1
  <2>3. x[i - 1] < x[i] /\ x[i - 1] \in Nat
    BY <2>2
  <2>4. x[i - 1] < i - 1
    BY <1>1, <2>1, <2>3
  <2> QED
    BY <1>1, <2>2, <2>4
<1>2. \A i \in 1..l : i <= x[i]
  <2> DEFINE T == {i \in 1..l : x[i] < i}
  <2>1. T = {}
    <3> SUFFICES ASSUME T # {} PROVE FALSE
      OBVIOUS
    <3>1. PICK i \in T : \A j \in T : i <= j
      <4> T \subseteq Nat
        OBVIOUS
      <4> HIDE DEF T
      <4> QED
        BY LeastNatural
    <3> QED
      BY <1>1, <3>1
  <2> QED
    BY <2>1
<1>3. ASSUME NEW k \in 0..(l - 1), n - x[l - k] < k,
             \A j \in 0..(l - 1) : n - x[l - j] < j => k <= j
      PROVE  FALSE
  <2>1. l - k \in 1..l /\ x[l - k] \in Nat /\ x[l - k] <= n
    OBVIOUS
  <2>2. k > 0
    BY <1>3, <2>1
  <2>3. k - 1 \in 0..(l - 1) /\ l - (k - 1) \in 1..l /\ l - k < l - (k - 1)
    BY <2>2
  <2>4. x[l - k] < x[l - (k - 1)] /\ x[l - (k - 1)] \in Nat
    BY <2>1, <2>3
  <2>5. n - x[l - (k - 1)] < k - 1
    BY <1>3, <2>1, <2>4
  <2> QED
    BY <1>3, <2>3, <2>5
<1>4. \A k \in 0..(l - 1) : k <= n - x[l - k]
  <2> DEFINE T == {k \in 0..(l - 1) : n - x[l - k] < k}
  <2>1. T = {}
    <3> SUFFICES ASSUME T # {} PROVE FALSE
      OBVIOUS
    <3>1. PICK k \in T : \A j \in T : k <= j
      <4> T \subseteq Nat
        OBVIOUS
      <4> HIDE DEF T
      <4> QED
        BY LeastNatural
    <3> QED
      BY <1>3, <3>1
  <2> SUFFICES ASSUME NEW k \in 0..(l - 1) PROVE k <= n - x[l - k]
    OBVIOUS
  <2>2. ~(n - x[l - k] < k)
    BY <2>1
  <2> HIDE DEF T
  <2>3. l - k \in 1..l
    OBVIOUS
  <2>4. x[l - k] \in Nat
    BY <2>3
  <2> QED
    BY <2>2, <2>4
<1>5. l <= n
  <2> SUFFICES ASSUME l > 0 PROVE l <= n
    OBVIOUS
  <2>1. l \in 1..l
    OBVIOUS
  <2>2. l <= x[l] /\ x[l] <= n /\ x[l] \in Nat
    BY <1>2, <2>1
  <2> QED
    BY <2>2
<1>6. ASSUME l = n, NEW i \in 1..l PROVE x[i] = i
  <2>1. l - i \in 0..(l - 1) /\ l - (l - i) = i
    OBVIOUS
  <2>2. l - i <= n - x[i]
    BY <1>4, <2>1
  <2>3. i <= x[i] /\ x[i] \in Nat
    BY <1>2
  <2> QED
    BY <1>6, <2>2, <2>3
<1> QED
  BY <1>5, <1>6

LEMMA FullImage ==
  ASSUME NEW f, HexFile(f), NEW packets \in Seq(Packets(f)), NEW n \in Nat, Holds(f, packets, n)
  PROVE  /\ Len(packets) \in Nat /\ Len(packets) <= n
         /\ Len(packets) >= n => \A i \in 1..n : packets[i] = FilePacket(f, i)
<1> DEFINE l == Len(packets)
<1>1. PICK x \in [1..l -> 1..FilePackets(f)] :
        SomePackets(f, packets, x) /\ \A i \in 1..l : x[i] <= n
  BY DEF Holds
<1>2. l \in Nat
  BY LenProperties
<1>3. /\ x \in [1..l -> Nat]
      /\ \A i \in 1..l : 1 <= x[i] /\ x[i] <= n
      /\ \A i, j \in 1..l : i < j => x[i] < x[j]
      /\ \A i \in 1..l : packets[i] = FilePacket(f, x[i])
  <2>1. \A i \in 1..l : x[i] \in 1..FilePackets(f)
    BY <1>1
  <2>2. \A i \in 1..l : x[i] \in Nat /\ 1 <= x[i]
    BY <2>1, FilePacketsIsNat
  <2>3. x = [i \in 1..l |-> x[i]]
    BY <1>1
  <2>4. x \in [1..l -> Nat]
    BY <2>2, <2>3
  <2> QED
    BY <1>1, <2>2, <2>4 DEF SomePackets
<1> HIDE DEF l
<1>4. l <= n /\ (l = n => \A i \in 1..l : x[i] = i)
  BY <1>2, <1>3, IncreasingFull
<1>5. ASSUME l >= n PROVE \A i \in 1..n : packets[i] = FilePacket(f, i)
  <2>1. l = n
    BY <1>2, <1>4, <1>5
  <2> QED
    BY <1>3, <1>4, <2>1
<1> QED
  BY <1>2, <1>4, <1>5 DEF l

-----------------------------------------------------------------------------
(* Which frames stand before which others in the air. *)

Has1(s, a) == \E i \in DOMAIN s : s[i].type = a
Has2(s, a, b) == \E i, j \in DOMAIN s : i < j /\ s[i].type = a /\ s[j].type = b
Has3(s, a, b, c) ==
  \E i, j, k \in DOMAIN s : i < j /\ j < k /\ s[i].type = a /\ s[j].type = b /\ s[k].type = c

\* The frames that decide about a page.
ACK == "ACK_32_BYTES"
CONFIRMATION == "CALCULATE_PAGE_CHECKSUM_RESPONSE"
ANNOUNCEMENT == "KT_CALCULATED_PAGE_CHECKSUM"
PageFrames == {ACK, CONFIRMATION, ANNOUNCEMENT}

\* None of them has been added in t, and their order has not changed.
NoMore(t, s) ==
  \A a, b, c \in PageFrames :
               /\ Has1(t, a) => Has1(s, a)
               /\ Has2(t, a, b) => Has2(s, a, b)
               /\ Has3(t, a, b, c) => Has3(s, a, b, c)

\* What is left in t stood behind a frame of type a.
Behind(t, s, a) ==
  \A b, c : /\ Has1(t, b) => Has2(s, a, b)
            /\ Has2(t, b, c) => Has3(s, a, b, c)

\* A frame of type x has been added at the end of t.
Added(t, s, x) ==
  \A a, b, c : /\ Has1(t, a) => Has1(s, a) \/ a = x
               /\ Has2(t, a, b) => Has2(s, a, b) \/ (b = x /\ Has1(s, a))
               /\ Has3(t, a, b, c) => Has3(s, a, b, c) \/ (c = x /\ Has2(s, a, b))

LEMMA HasIsMore ==
  ASSUME NEW s, NEW a, NEW b, NEW c
  PROVE  /\ Has2(s, a, b) => Has1(s, a) /\ Has1(s, b)
         /\ Has3(s, a, b, c) => Has2(s, a, b) /\ Has2(s, b, c)
<1>1. Has2(s, a, b) => Has1(s, a) /\ Has1(s, b)
  BY DEF Has1, Has2
<1>2. ASSUME Has3(s, a, b, c) PROVE Has2(s, a, b) /\ Has2(s, b, c)
  BY <1>2 DEF Has2, Has3
<1> QED
  BY <1>1, <1>2, Zenon

LEMMA NoMoreBySame ==
  ASSUME NEW s
  PROVE  NoMore(s, s)
BY Zenon DEF NoMore

LEMMA NoMoreByPlaces ==
  ASSUME NEW S, NEW s \in Seq(S), NEW t \in Seq(S), NEW h \in [1..Len(t) -> 1..Len(s)],
         \A i, j \in 1..Len(t) : i < j => h[i] < h[j],
         \A i \in 1..Len(t) : t[i] = s[h[i]]
  PROVE  NoMore(t, s)
<1>1. DOMAIN s = 1..Len(s) /\ DOMAIN t = 1..Len(t) /\ \A i \in 1..Len(t) : h[i] \in 1..Len(s)
  BY LenProperties
<1> SUFFICES ASSUME NEW a \in PageFrames, NEW b \in PageFrames, NEW c \in PageFrames
             PROVE  /\ Has1(t, a) => Has1(s, a)
                    /\ Has2(t, a, b) => Has2(s, a, b)
                    /\ Has3(t, a, b, c) => Has3(s, a, b, c)
  BY DEF NoMore
<1>2. Has1(t, a) => Has1(s, a)
  BY <1>1 DEF Has1
<1>3. ASSUME Has2(t, a, b) PROVE Has2(s, a, b)
  <2>1. PICK i \in 1..Len(t), j \in 1..Len(t) : i < j /\ t[i].type = a /\ t[j].type = b
    BY <1>1, <1>3 DEF Has2
  <2>2. h[i] < h[j] /\ s[h[i]].type = a /\ s[h[j]].type = b
    BY <2>1
  <2> QED
    BY <1>1, <2>2 DEF Has2
<1>4. ASSUME Has3(t, a, b, c) PROVE Has3(s, a, b, c)
  <2>1. PICK i \in 1..Len(t), j \in 1..Len(t), k \in 1..Len(t) :
          i < j /\ j < k /\ t[i].type = a /\ t[j].type = b /\ t[k].type = c
    BY <1>1, <1>4 DEF Has3
  <2>2. h[i] < h[j] /\ h[j] < h[k] /\ s[h[i]].type = a /\ s[h[j]].type = b /\ s[h[k]].type = c
    BY <2>1
  <2> QED
    BY <1>1, <2>2 DEF Has3
<1> QED
  BY <1>2, <1>3, <1>4

\* The frames behind the n-th.
LEMMA RestOfAir ==
  ASSUME NEW S, NEW s \in Seq(S), NEW n \in 1..Len(s)
  PROVE  LET t == SubSeq(s, n + 1, Len(s))
         IN  NoMore(t, s) /\ Behind(t, s, s[n].type)
<1> DEFINE t == SubSeq(s, n + 1, Len(s))
           l == Len(s)
<1>1. l \in Nat /\ DOMAIN s = 1..l /\ n \in 1..l /\ n + 1 <= l + 1
  BY LenProperties
<1>2. t \in Seq(S)
  BY <1>1, PartOfAir
<1>3. Len(t) = l - n /\ \A i \in 1..(l - n) : t[i] = s[n + i]
  <2>1. \A i \in (n + 1)..l : s[i] \in S
    BY <1>1, LenProperties
  <2>2. Len(t) = l - n /\ \A i \in 1..(l - n) : t[i] = s[(n + 1) + i - 1]
    <3>1. Len(t) = IF n + 1 <= l THEN l - (n + 1) + 1 ELSE 0
      BY <1>1, <2>1, SubSeqProperties
    <3>2. Len(t) = l - n
      <4> HIDE DEF t, l
      <4>1. CASE n + 1 <= l
        BY <1>1, <3>1, <4>1
      <4>2. CASE ~(n + 1 <= l)
        BY <1>1, <3>1, <4>2
      <4> QED
        BY <4>1, <4>2
    <3>3. \A i \in 1..Len(t) : t[i] = s[(n + 1) + i - 1]
      BY <1>1, <2>1, SubSeqProperties
    <3> QED
      BY <3>2, <3>3
  <2>3. \A i \in 1..(l - n) : (n + 1) + i - 1 = n + i
    BY <1>1
  <2> QED
    BY <2>2, <2>3
<1>4. DOMAIN t = 1..Len(t)
  BY <1>2, LenProperties
<1> DEFINE h == [i \in 1..Len(t) |-> n + i]
<1> HIDE DEF t, l
<1>5. h \in [1..Len(t) -> 1..l] /\ \A i, j \in 1..Len(t) : i < j => h[i] < h[j]
  BY <1>1, <1>3 DEF l
<1>6. \A i \in 1..Len(t) : t[i] = s[h[i]] /\ h[i] \in 1..l /\ n < h[i]
  BY <1>1, <1>3 DEF l
<1> HIDE DEF h
<1>7. NoMore(t, s)
  BY <1>2, <1>5, <1>6, NoMoreByPlaces DEF l
<1>8. ASSUME NEW b, Has1(t, b) PROVE Has2(s, s[n].type, b)
  <2>1. PICK i \in 1..Len(t) : t[i].type = b
    BY <1>4, <1>8 DEF Has1
  <2>2. s[h[i]].type = b /\ n < h[i] /\ h[i] \in DOMAIN s /\ n \in DOMAIN s
    BY <1>1, <1>6, <2>1 DEF l
  <2> QED
    BY <2>2 DEF Has2
<1>9. ASSUME NEW b, NEW c, Has2(t, b, c) PROVE Has3(s, s[n].type, b, c)
  <2>1. PICK i \in 1..Len(t), j \in 1..Len(t) : i < j /\ t[i].type = b /\ t[j].type = c
    BY <1>4, <1>9 DEF Has2
  <2>2. /\ s[h[i]].type = b /\ n < h[i] /\ h[i] \in DOMAIN s /\ n \in DOMAIN s
        /\ s[h[j]].type = c /\ h[i] < h[j] /\ h[j] \in DOMAIN s
    BY <1>1, <1>5, <1>6, <2>1 DEF l
  <2> QED
    BY <2>2 DEF Has3
<1>10. Behind(t, s, s[n].type)
  BY <1>8, <1>9 DEF Behind
<1> QED
  BY <1>7, <1>10 DEF t, l

\* One frame more.
LEMMA AddedByAppend ==
  ASSUME NEW S, NEW s \in Seq(S), NEW m
  PROVE  Added(Append(s, m), s, m.type)
<1> DEFINE t == Append(s, m)
           l == Len(s)
           R == S \cup {m}
<1>1. s \in Seq(R) /\ m \in R
  BY SeqMonotonic
<1>2. l \in Nat /\ DOMAIN s = 1..l
  BY LenProperties
<1>3. /\ t \in Seq(R) /\ Len(t) = l + 1 /\ \A i \in 1..l : t[i] = s[i]
      /\ t[l + 1] = m
  BY <1>1, AppendProperties
<1>4. DOMAIN t = 1..(l + 1)
  BY <1>3, LenProperties
<1> HIDE DEF t, l, R
<1>5. \A i \in DOMAIN t : \/ i \in DOMAIN s /\ t[i] = s[i]
                          \/ i = l + 1 /\ t[i] = m
  <2> SUFFICES ASSUME NEW i \in DOMAIN t
               PROVE  \/ i \in DOMAIN s /\ t[i] = s[i]
                      \/ i = l + 1 /\ t[i] = m
    OBVIOUS
  <2>1. i \in 1..l \/ i = l + 1
    BY <1>2, <1>4
  <2> QED
    BY <1>2, <1>3, <2>1
<1>6. \A i, j \in DOMAIN t : i < j => i \in DOMAIN s /\ t[i] = s[i]
  <2> SUFFICES ASSUME NEW i \in DOMAIN t, NEW j \in DOMAIN t, i < j
               PROVE  i \in DOMAIN s /\ t[i] = s[i]
    OBVIOUS
  <2>1. i \in 1..l
    BY <1>2, <1>4
  <2> QED
    BY <1>2, <1>3, <2>1
<1>7. ASSUME NEW a, Has1(t, a) PROVE Has1(s, a) \/ a = m.type
  BY <1>5, <1>7 DEF Has1
<1>8. ASSUME NEW a, NEW b, Has2(t, a, b) PROVE Has2(s, a, b) \/ (b = m.type /\ Has1(s, a))
  <2>1. PICK i \in DOMAIN t, j \in DOMAIN t : i < j /\ t[i].type = a /\ t[j].type = b
    BY <1>8 DEF Has2
  <2>2. i \in DOMAIN s /\ s[i].type = a
    BY <1>6, <2>1
  <2>3. CASE j \in DOMAIN s /\ t[j] = s[j]
    BY <2>1, <2>2, <2>3 DEF Has2
  <2>4. CASE t[j] = m
    BY <2>1, <2>2, <2>4 DEF Has1
  <2> QED
    BY <1>5, <2>3, <2>4
<1>9. ASSUME NEW a, NEW b, NEW c, Has3(t, a, b, c)
      PROVE  Has3(s, a, b, c) \/ (c = m.type /\ Has2(s, a, b))
  <2>1. PICK i \in DOMAIN t, j \in DOMAIN t, k \in DOMAIN t :
          i < j /\ j < k /\ t[i].type = a /\ t[j].type = b /\ t[k].type = c
    BY <1>9 DEF Has3
  <2>2. i \in DOMAIN s /\ s[i].type = a /\ j \in DOMAIN s /\ s[j].type = b
    BY <1>6, <2>1
  <2>3. CASE k \in DOMAIN s /\ t[k] = s[k]
    BY <2>1, <2>2, <2>3 DEF Has3
  <2>4. CASE t[k] = m
    BY <2>1, <2>2, <2>4 DEF Has2
  <2> QED
    BY <1>5, <2>3, <2>4
<1>10. Added(t, s, m.type)
  BY <1>7, <1>8, <1>9 DEF Added
<1> QED
  BY <1>10 DEF t

\* A frame of another kind.
LEMMA OtherAdded ==
  ASSUME NEW t, NEW s, NEW x, Added(t, s, x), x \notin PageFrames
  PROVE  NoMore(t, s)
BY DEF Added, NoMore

LEMMA NothingInNothing ==
  ASSUME NEW s
  PROVE  NoMore(<<>>, s) /\ \A a : Behind(<<>>, s, a)
<1>1. DOMAIN <<>> = {}
  OBVIOUS
<1> HIDE DEF Has2, Has3
<1>2. \A a, b, c : ~Has1(<<>>, a) /\ ~Has2(<<>>, a, b) /\ ~Has3(<<>>, a, b, c)
  BY <1>1 DEF Has1, Has2, Has3
<1> QED
  BY <1>2 DEF NoMore, Behind


LEMMA RepliedOne ==
  ASSUME NEW S, air \in Seq(S), NEW m, Reply(<<m>>)
  PROVE  Added(air', air, m.type)
<1> DEFINE R == S \cup {m}
<1>1. air \in Seq(R) /\ m \in R
  BY SeqMonotonic
<1> HIDE DEF R
<1>2. air' = Append(air, m)
  BY <1>1, AppendIsConcat DEF Reply
<1> QED
  BY <1>2, AddedByAppend

LEMMA RepliedTwo ==
  ASSUME NEW S, air \in Seq(S), NEW m, NEW n, Reply(<<m, n>>)
  PROVE  \E t : Added(t, air, m.type) /\ Added(air', t, n.type)
<1> DEFINE R == S \cup {m, n}
           t == Append(air, m)
<1>1. air \in Seq(R) /\ m \in R /\ n \in R
  BY SeqMonotonic
<1> HIDE DEF R
<1>2. t \in Seq(R) /\ t = air \o <<m>>
  BY <1>1, AppendProperties, AppendIsConcat
<1>3. Append(t, n) = t \o <<n>>
  BY <1>1, <1>2, AppendIsConcat
<1>4. <<m>> \in Seq(R) /\ <<n>> \in Seq(R) /\ <<m>> \o <<n>> = <<m, n>>
  <2>1. <<m>> \in Seq(R) /\ <<n>> \in Seq(R)
    BY <1>1
  <2>2. Append(<<m>>, n) = <<m>> \o <<n>>
    BY <1>1, <2>1, AppendIsConcat
  <2>3. Append(<<m>>, n) = <<m, n>>
    <3> DEFINE u == Append(<<m>>, n)
               v == <<m, n>>
    <3>1. u \in Seq(R) /\ Len(u) = 2 /\ u[1] = m /\ u[2] = n
      <4>1. Len(<<m>>) = 1 /\ <<m>>[1] = m
        OBVIOUS
      <4> QED
        BY <1>1, <2>1, <4>1, AppendProperties
    <3>2. v \in Seq(R) /\ Len(v) = 2 /\ v[1] = m /\ v[2] = n
      BY <1>1
    <3> HIDE DEF u, v
    <3>3. \A i \in 1..Len(u) : u[i] = v[i]
      BY <3>1, <3>2
    <3>4. u = v
      BY <3>1, <3>2, <3>3, SeqEqual
    <3> QED
      BY <3>4 DEF u, v
  <2> QED
    BY <2>1, <2>2, <2>3
<1>5. air' = Append(t, n)
  <2>1. (air \o <<m>>) \o <<n>> = air \o (<<m>> \o <<n>>)
    BY <1>1, <1>4, ConcatAssociative
  <2> QED
    BY <1>2, <1>3, <1>4, <2>1 DEF Reply
<1>6. Added(t, air, m.type) /\ Added(air', t, n.type)
  <2> HIDE DEF t
  <2>1. Added(Append(t, n), t, n.type)
    BY <1>2, AddedByAppend
  <2>2. Added(Append(air, m), air, m.type)
    BY AddedByAppend
  <2> QED
    BY <1>5, <2>1, <2>2 DEF t
<1> QED
  BY <1>6

\* A wait takes a frame with all the frames before it.
LEMMA FrameTakenBefore ==
  ASSUME NEW S, air \in Seq(S), NEW id, NEW m, get_frame(id, m)
  PROVE  /\ NoMore(air', air)
         /\ m = NoFrame \/ (Has1(air, m.type) /\ Behind(air', air, m.type))
<1>1. DOMAIN air = 1..Len(air)
  BY LenProperties
<1>2. CASE Received(id, m)
  <2>1. PICK i \in Waiting(id) : m = air[i] /\ air' = SubSeq(air, i + 1, Len(air))
    BY <1>2 DEF Received
  <2>2. i \in 1..Len(air) /\ i \in DOMAIN air
    BY <1>1 DEF Waiting
  <2>3. NoMore(air', air) /\ Behind(air', air, m.type)
    BY <2>1, <2>2, RestOfAir
  <2> QED
    BY <2>1, <2>2, <2>3 DEF Has1
<1>3. CASE TimedOut(id, m)
  <2>1. m = NoFrame /\ (air' = <<>> \/ air' = air)
    BY <1>3 DEF TimedOut
  <2> QED
    BY <2>1, NothingInNothing, NoMoreBySame
<1> QED
  BY <1>2, <1>3 DEF get_frame

LEMMA LossKeepsOrder ==
  ASSUME NEW S, air \in Seq(S), LoseFrame
  PROVE  NoMore(air', air)
<1>1. PICK n \in DOMAIN air : air' = SubSeq(air, 1, n - 1) \o SubSeq(air, n + 1, Len(air))
  BY DEF LoseFrame
<1> DEFINE l == Len(air)
           u == SubSeq(air, 1, n - 1)
           v == SubSeq(air, n + 1, l)
<1>2. l \in Nat /\ n \in 1..l /\ \A i \in 1..l : air[i] \in S
  BY LenProperties
<1>3. u \in Seq(S) /\ Len(u) = n - 1 /\ \A i \in 1..(n - 1) : u[i] = air[i]
  <2>1. \A i \in 1..(n - 1) : air[i] \in S
    BY <1>2
  <2>2. /\ u \in Seq(S) /\ Len(u) = IF 1 <= n - 1 THEN n - 1 - 1 + 1 ELSE 0
        /\ \A i \in 1..Len(u) : u[i] = air[1 + i - 1]
    BY <1>2, <2>1, SubSeqProperties
  <2> HIDE DEF u
  <2>3. Len(u) = n - 1
    BY <1>2, <2>2
  <2>4. \A i \in 1..(n - 1) : 1 + i - 1 = i
    BY <1>2
  <2> QED
    BY <2>2, <2>3, <2>4
<1>4. v \in Seq(S) /\ Len(v) = l - n /\ \A i \in 1..(l - n) : v[i] = air[n + i]
  <2>1. \A i \in (n + 1)..l : air[i] \in S
    BY <1>2
  <2>2. /\ v \in Seq(S) /\ Len(v) = IF n + 1 <= l THEN l - (n + 1) + 1 ELSE 0
        /\ \A i \in 1..Len(v) : v[i] = air[(n + 1) + i - 1]
    BY <1>2, <2>1, SubSeqProperties
  <2> HIDE DEF v, l
  <2>3. Len(v) = l - n
    <3>1. CASE n + 1 <= l
      BY <1>2, <2>2, <3>1
    <3>2. CASE ~(n + 1 <= l)
      BY <1>2, <2>2, <3>2
    <3> QED
      BY <3>1, <3>2
  <2>4. \A i \in 1..(l - n) : (n + 1) + i - 1 = n + i
    BY <1>2
  <2> QED
    BY <2>2, <2>3, <2>4
<1> DEFINE h == [i \in 1..(l - 1) |-> IF i < n THEN i ELSE i + 1]
<1> HIDE DEF u, v, l
<1>5. air' \in Seq(S) /\ Len(air') = l - 1
  <2>1. u \o v \in Seq(S) /\ Len(u \o v) = Len(u) + Len(v)
    BY <1>3, <1>4, ConcatProperties
  <2>2. (n - 1) + (l - n) = l - 1
    BY <1>2
  <2> QED
    BY <1>1, <1>3, <1>4, <2>1, <2>2 DEF u, v, l
<1>6. \A i \in 1..(l - 1) : h[i] \in 1..l /\ air'[i] = air[h[i]]
  <2> SUFFICES ASSUME NEW i \in 1..(l - 1) PROVE h[i] \in 1..l /\ air'[i] = air[h[i]]
    OBVIOUS
  <2>1. air'[i] = IF i <= n - 1 THEN u[i] ELSE v[i - (n - 1)]
    <3>1. i \in 1..(Len(u) + Len(v))
      BY <1>2, <1>3, <1>4
    <3>2. (u \o v)[i] = IF i <= Len(u) THEN u[i] ELSE v[i - Len(u)]
      BY <1>3, <1>4, <3>1, ConcatProperties
    <3> QED
      BY <1>1, <1>3, <3>2 DEF u, v, l
  <2>2. CASE i < n
    BY <1>2, <1>3, <2>1, <2>2
  <2>3. CASE ~(i < n)
    <3>1. i - (n - 1) \in 1..(l - n) /\ n + (i - (n - 1)) = i + 1 /\ h[i] = i + 1 /\ ~(i <= n - 1)
      BY <1>2, <2>3
    <3> QED
      BY <1>2, <1>4, <2>1, <3>1
  <2> QED
    BY <2>2, <2>3
<1>7. \A i, j \in 1..(l - 1) : i < j => h[i] < h[j]
  BY <1>2
<1>8. h \in [1..(l - 1) -> 1..l]
  <2>1. h = [i \in 1..(l - 1) |-> h[i]]
    OBVIOUS
  <2> HIDE DEF h
  <2> QED
    BY <1>6, <2>1
<1> HIDE DEF h
<1>9. h \in [1..Len(air') -> 1..Len(air)]
  BY <1>5, <1>8 DEF l
<1> QED
  BY <1>5, <1>6, <1>7, <1>9, NoMoreByPlaces

-----------------------------------------------------------------------------
(* No frame about a page outlives the page. *)

PagesHeld ==
  \A k \in 1..(page_count * PAGE_SIZE) : k \in DOMAIN image /\ image[k] = FilePacket(file, k)

\* The bootloader has filled the page that the program is in.
Full == Len(image) >= page_count * PAGE_SIZE + PAGE_SIZE

\* An announced sum is that of the page the program is in.
AnnouncementsAt ==
  /\ ~Has2(air, ANNOUNCEMENT, ANNOUNCEMENT)
  /\ Has1(air, ANNOUNCEMENT) => Full
  /\ pc \in {"packet_ack", "last_ack", "resend"} => ~Has2(air, ANNOUNCEMENT, ACK)
  /\ pc \in {"resend_ack", "loop", "page_kt"} => ~Has3(air, ANNOUNCEMENT, ACK, ACK)
  /\ pc = "page_send" => page_frame.page = (page_count + 1) % BYTE
  /\ pc \in {"page_send", "page_resp"} /\ kt_page_checksum.type = ANNOUNCEMENT
       => Full /\ ~Has1(air, ANNOUNCEMENT) /\ (pc = "page_send" => ~Has2(air, ACK, ACK))

\* A confirmation that comes late is at most two packets behind.
ConfirmationsAt ==
  /\ pc \notin PageLabels =>
       /\ ~Has3(air, ACK, ACK, CONFIRMATION)
       /\ packet_count > page_count * PAGE_SIZE => ~Has2(air, ACK, CONFIRMATION)
       /\ packet_count > page_count * PAGE_SIZE + 1 => ~Has1(air, CONFIRMATION)
  /\ pc \in {"page_kt", "page_send"} => ~Has1(air, CONFIRMATION)
  /\ pc = "page_resp" =>
       /\ Has1(air, CONFIRMATION) => Full
       /\ ~Has2(air, CONFIRMATION, CONFIRMATION) /\ ~Has2(air, CONFIRMATION, ANNOUNCEMENT)
       /\ kt_page_checksum.type = ANNOUNCEMENT => ~Has3(air, ACK, ACK, CONFIRMATION)

AirAt == AnnouncementsAt /\ ConfirmationsAt /\ eof_size = -1

PageInv == PagesHeld /\ (pc \notin LateLabels => AirAt)

-----------------------------------------------------------------------------
(* How much the bootloader holds. *)

\* Between the start of a page and its end, the page number tells whether it is full.
LEMMA PageNumberTells ==
  ASSUME NEW q \in Nat, NEW n \in Nat, n >= q * PAGE_SIZE,
         (n \div PAGE_SIZE) % BYTE = (q + 1) % BYTE
  PROVE  n >= q * PAGE_SIZE + PAGE_SIZE
<1> DEFINE k == n \div PAGE_SIZE
           r == n % PAGE_SIZE
<1> SUFFICES ASSUME n < q * PAGE_SIZE + PAGE_SIZE PROVE FALSE
  BY PageBase
<1>1. PAGE_SIZE \in Nat /\ PAGE_SIZE > 0
  BY PageSizeAssumption
<1>2. k \in Int /\ r \in 0..(PAGE_SIZE - 1) /\ n = PAGE_SIZE * k + r
  BY <1>1
<1>3. k % BYTE = (q + 1) % BYTE
  OBVIOUS
<1> HIDE DEF k, r
<1>4. PAGE_SIZE * (k - q + 1) > 0 /\ PAGE_SIZE * (k - q - 1) < 0
  BY <1>1, <1>2
<1>5. k - q + 1 > 0 /\ k - q - 1 < 0
  BY <1>1, <1>2, <1>4
<1>6. k = q
  BY <1>2, <1>5
<1> QED
  BY <1>3, <1>6 DEF BYTE

LEMMA ImageLength ==
  ASSUME UploadInv, PagesHeld
  PROVE  /\ HexFile(file) /\ packet_count \in Nat /\ page_count \in Nat
         /\ page_count * PAGE_SIZE \in Nat /\ PAGE_SIZE \in Nat
         /\ Len(image) \in Nat /\ DOMAIN image = 1..Len(image) /\ image \in Seq(Packets(file))
         /\ Len(image) >= page_count * PAGE_SIZE
<1>1. HexFile(file) /\ packet_count \in Nat /\ page_count \in Nat
  BY FileOfInv DEF UploadInv
<1>2. page_count * PAGE_SIZE \in Nat /\ PAGE_SIZE \in Nat
  BY <1>1, PageBase, PageSizeAssumption
<1>3. image \in Seq(Packets(file))
  BY DEF UploadInv, ImageAt, Packets
<1>4. Len(image) \in Nat /\ DOMAIN image = 1..Len(image)
  BY <1>3, LenProperties
<1>5. Len(image) >= page_count * PAGE_SIZE
  <2> DEFINE B == page_count * PAGE_SIZE
  <2>1. CASE B = 0
    BY <1>4, <2>1
  <2>2. CASE B > 0
    <3>1. B \in 1..B
      BY <1>2, <2>2
    <3>2. B \in DOMAIN image
      BY <3>1 DEF PagesHeld
    <3> HIDE DEF B
    <3>3. B \in 1..Len(image)
      BY <1>4, <3>2
    <3>4. Len(image) >= B
      BY <1>4, <3>3
    <3> QED
      BY <3>4 DEF B
  <2> QED
    BY <1>2, <2>1, <2>2
<1> QED
  BY <1>1, <1>2, <1>3, <1>4, <1>5

\* Where the packets of the page before the one being sent are all that can be held.
LEMMA NotFull ==
  ASSUME UploadInv, PagesHeld, Holds(file, image, packet_count), InPage
  PROVE  ~Full /\ Len(image) <= packet_count
<1>1. HexFile(file) /\ packet_count \in Nat /\ image \in Seq(Packets(file))
  BY ImageLength
<1>2. Len(image) \in Nat /\ Len(image) <= packet_count
  BY <1>1, FullImage
<1>3. page_count * PAGE_SIZE \in Nat /\ PAGE_SIZE \in Nat
  BY ImageLength
<1> QED
  BY <1>1, <1>2, <1>3 DEF Full, InPage

\* When the page is full its packets are the file's.
LEMMA FullPageHeld ==
  ASSUME UploadInv, PagesHeld, pc \in PageLabels, Full
  PROVE  \A k \in 1..((page_count + 1) * PAGE_SIZE) :
            k \in DOMAIN image /\ image[k] = FilePacket(file, k)
<1>1. /\ HexFile(file) /\ packet_count \in Nat /\ image \in Seq(Packets(file))
      /\ page_count \in Nat /\ Len(image) \in Nat /\ DOMAIN image = 1..Len(image)
  BY ImageLength
<1>2. Holds(file, image, packet_count)
  BY DEF UploadInv, ImageAt
<1>3. packet_count = (page_count + 1) * PAGE_SIZE
  BY <1>1, PageBase DEF UploadInv, IInv, PagesAt, PageFull
<1>4. Len(image) >= packet_count
  BY <1>1, <1>3, PageBase DEF Full
<1>5. \A k \in 1..packet_count : image[k] = FilePacket(file, k)
  BY <1>1, <1>2, <1>4, FullImage
<1>6. \A k \in 1..packet_count : k \in DOMAIN image
  BY <1>1, <1>4
<1> QED
  BY <1>3, <1>5, <1>6

LEMMA HeldMeansStored ==
  ASSUME ~Rereads => PagesHeld
  PROVE  PagesStored
BY DEF PagesHeld, PagesStored

-----------------------------------------------------------------------------
(* The steps. *)

LEMMA ThreeFrames ==
  /\ ACK \in PageFrames /\ CONFIRMATION \in PageFrames /\ ANNOUNCEMENT \in PageFrames
  /\ ACK # CONFIRMATION /\ ACK # ANNOUNCEMENT /\ CONFIRMATION # ANNOUNCEMENT
BY DEF PageFrames, ACK, CONFIRMATION, ANNOUNCEMENT

\* No frame about a page more, and no other page.
LEMMA QuietAir ==
  ASSUME AirAt, NoMore(air', air),
         UNCHANGED <<page_count, packet_count, kt_page_checksum, page_frame, image, eof_size>>,
         \/ pc' = pc
         \/ /\ pc \notin PageLabels /\ pc' \notin PageLabels
            /\ pc' \in {"packet_ack", "last_ack", "resend"} => ~Has2(air, ANNOUNCEMENT, ACK)
            /\ pc' \in {"resend_ack", "loop"} => ~Has3(air, ANNOUNCEMENT, ACK, ACK)
  PROVE  AirAt'
<1> USE ThreeFrames
<1>1. Full' <=> Full
  BY DEF Full
<1>2. /\ Has1(air', ANNOUNCEMENT) => Has1(air, ANNOUNCEMENT)
      /\ Has1(air', CONFIRMATION) => Has1(air, CONFIRMATION)
      /\ Has2(air', ANNOUNCEMENT, ANNOUNCEMENT) => Has2(air, ANNOUNCEMENT, ANNOUNCEMENT)
      /\ Has2(air', ANNOUNCEMENT, ACK) => Has2(air, ANNOUNCEMENT, ACK)
      /\ Has2(air', ACK, ACK) => Has2(air, ACK, ACK)
      /\ Has2(air', ACK, CONFIRMATION) => Has2(air, ACK, CONFIRMATION)
      /\ Has2(air', CONFIRMATION, CONFIRMATION) => Has2(air, CONFIRMATION, CONFIRMATION)
      /\ Has2(air', CONFIRMATION, ANNOUNCEMENT) => Has2(air, CONFIRMATION, ANNOUNCEMENT)
      /\ Has3(air', ANNOUNCEMENT, ACK, ACK) => Has3(air, ANNOUNCEMENT, ACK, ACK)
      /\ Has3(air', ACK, ACK, CONFIRMATION) => Has3(air, ACK, ACK, CONFIRMATION)
  BY DEF NoMore
<1> HIDE ThreeFrames
<1> USE DEF PageLabels
<1>3. AnnouncementsAt'
  BY <1>1, <1>2 DEF AirAt, AnnouncementsAt
<1>4. ConfirmationsAt'
  BY <1>1, <1>2 DEF AirAt, ConfirmationsAt
<1> QED
  BY <1>3, <1>4 DEF AirAt

\* At the end of a page of two packets or more no confirmation is left.
LEMMA LoopTopAir ==
  ASSUME UploadInv, PagesHeld, AirAt, LoopTop, PAGE_SIZE > 1
  PROVE  AirAt'
<1>1. /\ pc = "loop"
      /\ pc' = IF PageBoundary THEN "page_kt" ELSE "frame"
      /\ UNCHANGED <<air, page_count, packet_count, kt_page_checksum, page_frame, image, eof_size>>
  BY DEF LoopTop, GoTo, uploadVars, busVars, bootVars
<1>2. CASE ~PageBoundary
  <2>1. NoMore(air', air)
    BY <1>1, NoMoreBySame
  <2> QED
    BY <1>1, <1>2, <2>1, QuietAir DEF PageLabels
<1>3. CASE PageBoundary
  <2>1. /\ packet_count \in Nat /\ page_count \in Nat
        /\ page_count * PAGE_SIZE \in Nat /\ PAGE_SIZE \in Nat
    BY ImageLength
  <2>2. packet_count = page_count * PAGE_SIZE + PAGE_SIZE
    <3>1. IInv
      BY DEF UploadInv
    <3>2. packet_count > page_count * PAGE_SIZE /\ packet_count <= page_count * PAGE_SIZE + PAGE_SIZE
      BY <1>1, <1>3, <2>1, <3>1 DEF IInv, PagesAt, PageBoundary, InPage, PageFull
    <3> QED
      BY <1>3, <2>1, <3>2, OnlyTheEndIsAMultiple DEF PageBoundary
  <2>3. ~Has1(air, CONFIRMATION)
    BY <1>1, <2>1, <2>2 DEF AirAt, ConfirmationsAt, PageLabels
  <2>4. Full' <=> Full
    BY <1>1 DEF Full
  <2>5. AnnouncementsAt'
    BY <1>1, <1>3, <2>4 DEF AirAt, AnnouncementsAt
  <2>6. ConfirmationsAt'
    BY <1>1, <1>3, <2>3 DEF ConfirmationsAt, PageLabels
  <2> QED
    BY <1>1, <2>5, <2>6 DEF AirAt
<1> QED
  BY <1>2, <1>3

\* The announced sum, once taken, is the only one, and of the page that is full.
LEMMA KtPageChecksumAir ==
  ASSUME UploadInv, AirAt, KtPageChecksum
  PROVE  AirAt'
<1>1. PICK m \in Answers :
        /\ get_frame("IAP_HEARTBEAT", m)
        /\ \/ /\ m.type # "KT_CALCULATED_PAGE_CHECKSUM"
              /\ TryAgain
              /\ UNCHANGED <<kt_page_checksum, page_frame>>
           \/ /\ m.type = "KT_CALCULATED_PAGE_CHECKSUM" \/ tries = 1
              /\ kt_page_checksum' = m
              /\ page_frame' = [sum |-> curr_page_cs, page |-> (page_count + 1) % BYTE]
              /\ GoTo("page_send")
  BY DEF KtPageChecksum
<1>2. pc = "page_kt" /\ UNCHANGED <<page_count, packet_count, image, eof_size>>
  BY DEF KtPageChecksum, bootVars
<1>3. NoMore(air', air) /\ (m = NoFrame \/ (Has1(air, m.type) /\ Behind(air', air, m.type)))
  BY <1>1, FrameTakenBefore DEF UploadInv, EvidenceAt
<1>4. CASE TryAgain /\ UNCHANGED <<kt_page_checksum, page_frame>>
  BY <1>2, <1>3, <1>4, QuietAir DEF TryAgain
<1>5. CASE /\ kt_page_checksum' = m
           /\ page_frame' = [sum |-> curr_page_cs, page |-> (page_count + 1) % BYTE]
           /\ GoTo("page_send")
  <2>1. Full' <=> Full
    BY <1>2 DEF Full
  <2>2. pc' = "page_send" /\ page_frame'.page = (page_count' + 1) % BYTE
    BY <1>2, <1>5 DEF GoTo
  <2>3. ~Has1(air', CONFIRMATION)
    BY <1>2, <1>3, ThreeFrames DEF AirAt, ConfirmationsAt, NoMore
  <2>4. ~Has2(air', ANNOUNCEMENT, ANNOUNCEMENT) /\ (Has1(air', ANNOUNCEMENT) => Full)
    BY <1>3, ThreeFrames DEF AirAt, AnnouncementsAt, NoMore
  <2>5. ASSUME m.type = ANNOUNCEMENT
        PROVE  Full /\ ~Has1(air', ANNOUNCEMENT) /\ ~Has2(air', ACK, ACK)
    <3>1. m # NoFrame
      BY <2>5 DEF NoFrame, Frame, ANNOUNCEMENT
    <3>2. Has1(air, ANNOUNCEMENT) /\ Behind(air', air, ANNOUNCEMENT)
      BY <1>3, <2>5, <3>1
    <3>3. ~Has2(air, ANNOUNCEMENT, ANNOUNCEMENT) /\ ~Has3(air, ANNOUNCEMENT, ACK, ACK)
      BY <1>2 DEF AirAt, AnnouncementsAt
    <3> QED
      BY <3>2, <3>3 DEF AirAt, AnnouncementsAt, Behind
  <2>6. AnnouncementsAt'
    BY <1>5, <2>1, <2>2, <2>4, <2>5 DEF AnnouncementsAt
  <2>7. ConfirmationsAt'
    BY <2>2, <2>3 DEF ConfirmationsAt, PageLabels
  <2> QED
    BY <1>2, <2>6, <2>7 DEF AirAt
<1> QED
  BY <1>1, <1>4, <1>5

\* The bootloader confirms the page that the program is in only when it has filled it.
LEMMA SendPageChecksumAir ==
  ASSUME UploadInv, PagesHeld, AirAt, SendPageChecksum
  PROVE  AirAt'
<1> DEFINE c == Frame("IAP_RESPONSE", "CALCULATE_PAGE_CHECKSUM_RESPONSE", 0)
<1>1. /\ pc = "page_send" /\ pc' = "page_resp"
      /\ UNCHANGED <<page_count, packet_count, kt_page_checksum, page_frame, image, eof_size>>
      /\ BootPageChecksum(file, page_frame.sum, page_frame.page) \/ LostOnTheBus
  BY DEF SendPageChecksum, GoTo, uploadVars, BootPageChecksum, LostOnTheBus, bootVars
<1>2. /\ ~Has1(air, CONFIRMATION) /\ ~Has2(air, ANNOUNCEMENT, ANNOUNCEMENT)
      /\ Has1(air, ANNOUNCEMENT) => Full
      /\ kt_page_checksum.type = ANNOUNCEMENT =>
           Full /\ ~Has1(air, ANNOUNCEMENT) /\ ~Has2(air, ACK, ACK)
      /\ page_frame.page = (page_count + 1) % BYTE /\ eof_size = -1
  BY <1>1 DEF AirAt, AnnouncementsAt, ConfirmationsAt
<1>3. /\ ~Has2(air, CONFIRMATION, CONFIRMATION) /\ ~Has2(air, CONFIRMATION, ANNOUNCEMENT)
      /\ ~Has3(air, ACK, ACK, CONFIRMATION)
  BY <1>2, HasIsMore
<1>4. Full' <=> Full
  BY <1>1 DEF Full
<1>5. \/ UNCHANGED air
      \/ Reply(<<c>>) /\ page_frame.page = CurrentPage(image, eof_size) % BYTE
  BY <1>1 DEF BootPageChecksum, LostOnTheBus, busVars
<1>6. CASE UNCHANGED air
  <2>1. AnnouncementsAt'
    BY <1>1, <1>2, <1>4, <1>6 DEF AnnouncementsAt
  <2>2. ConfirmationsAt'
    BY <1>1, <1>2, <1>3, <1>6 DEF ConfirmationsAt, PageLabels
  <2> QED
    BY <1>1, <1>2, <2>1, <2>2 DEF AirAt
<1>7. CASE Reply(<<c>>) /\ page_frame.page = CurrentPage(image, eof_size) % BYTE
  <2>1. Added(air', air, CONFIRMATION)
    <3>1. c.type = CONFIRMATION
      BY DEF Frame, CONFIRMATION
    <3> HIDE DEF c
    <3> QED
      BY <1>7, <3>1, RepliedOne DEF UploadInv, EvidenceAt
  <2>2. Full
    <3>1. (Len(image) \div PAGE_SIZE) % BYTE = (page_count + 1) % BYTE
      BY <1>2, <1>7 DEF CurrentPage
    <3>2. page_count \in Nat /\ Len(image) \in Nat /\ Len(image) >= page_count * PAGE_SIZE
      BY ImageLength
    <3> QED
      BY <3>1, <3>2, PageNumberTells DEF Full
  <2>3. /\ ~Has2(air', ANNOUNCEMENT, ANNOUNCEMENT)
        /\ Has1(air', ANNOUNCEMENT) => Has1(air, ANNOUNCEMENT)
        /\ ~Has2(air', CONFIRMATION, CONFIRMATION)
        /\ ~Has2(air', CONFIRMATION, ANNOUNCEMENT)
        /\ Has3(air', ACK, ACK, CONFIRMATION) => Has2(air, ACK, ACK)
    BY <1>2, <1>3, <2>1, ThreeFrames DEF Added
  <2>4. AnnouncementsAt'
    BY <1>1, <1>2, <1>4, <2>2, <2>3 DEF AnnouncementsAt
  <2>5. ConfirmationsAt'
    BY <1>1, <1>2, <1>4, <2>2, <2>3 DEF ConfirmationsAt, PageLabels
  <2> QED
    BY <1>1, <1>2, <2>4, <2>5 DEF AirAt
<1> QED
  BY <1>5, <1>6, <1>7

\* The page is passed when it is full, and nothing said of it is left.
LEMMA PageResponseAir ==
  ASSUME UploadInv, NoneHasZeroPage, PagesHeld, AirAt, PageResponse
  PROVE  PagesHeld' /\ (pc' \notin LateLabels => AirAt')
<1>1. PICK m \in Answers :
        /\ get_frame("IAP_RESPONSE", m)
        /\ \/ /\ PageAccepted(m)
              /\ NextPage
              /\ GoTo("frame")
           \/ /\ ~PageAccepted(m)
              /\ TryAgain \/ (tries = 1 /\ Finish("PAGE_CHECKSUM_FAIL"))
              /\ UNCHANGED <<page_count, curr_page_cs>>
  BY DEF PageResponse
<1>2. pc = "page_resp" /\ UNCHANGED <<file, packet_count, image, eof_size, kt_page_checksum, page_frame>>
  BY DEF PageResponse, bootVars
<1>3. NoMore(air', air) /\ (m = NoFrame \/ (Has1(air, m.type) /\ Behind(air', air, m.type)))
  BY <1>1, FrameTakenBefore DEF UploadInv, EvidenceAt
<1>4. CASE TryAgain /\ UNCHANGED page_count
  <2>1. AirAt'
    BY <1>2, <1>3, <1>4, QuietAir DEF TryAgain
  <2> QED
    BY <1>2, <1>4, <2>1 DEF PagesHeld
<1>5. CASE Finish("PAGE_CHECKSUM_FAIL") /\ UNCHANGED page_count
  BY <1>2, <1>5 DEF PagesHeld, Finish, LateLabels
<1>6. CASE PageAccepted(m) /\ NextPage /\ GoTo("frame")
  <2>1. /\ ~Has2(air, ANNOUNCEMENT, ANNOUNCEMENT)
        /\ kt_page_checksum.type = ANNOUNCEMENT =>
             Full /\ ~Has1(air, ANNOUNCEMENT) /\ ~Has3(air, ACK, ACK, CONFIRMATION)
        /\ Has1(air, CONFIRMATION) => Full
        /\ ~Has2(air, CONFIRMATION, CONFIRMATION) /\ ~Has2(air, CONFIRMATION, ANNOUNCEMENT)
        /\ eof_size = -1
    BY <1>2 DEF AirAt, AnnouncementsAt, ConfirmationsAt
  <2>2. Full /\ ~Has1(air', ANNOUNCEMENT) /\ ~Has3(air', ACK, ACK, CONFIRMATION)
    <3>1. CASE m.type = CONFIRMATION
      <4>1. m # NoFrame
        BY <3>1 DEF NoFrame, Frame, CONFIRMATION
      <4>2. Has1(air, CONFIRMATION) /\ Behind(air', air, CONFIRMATION)
        BY <1>3, <3>1, <4>1
      <4>3. ~Has1(air', ANNOUNCEMENT) /\ ~Has1(air', CONFIRMATION)
        BY <2>1, <4>2 DEF Behind
      <4>4. ~Has3(air', ACK, ACK, CONFIRMATION)
        BY <4>3, HasIsMore
      <4> QED
        BY <2>1, <4>2, <4>3, <4>4
    <3>2. CASE kt_page_checksum.data = page_frame.sum
      <4>1. page_frame.sum > 0
        BY <1>2, FullPageHasSum
      <4>2. kt_page_checksum.type = ANNOUNCEMENT
        BY <1>2, <3>2, <4>1 DEF UploadInv, EvidenceAt, ANNOUNCEMENT
      <4> QED
        BY <1>3, <2>1, <4>2, ThreeFrames DEF NoMore
    <3> QED
      BY <1>6, <3>1, <3>2 DEF PageAccepted, CONFIRMATION
  <2>3. pc' = "frame" /\ page_count' = page_count + 1
    BY <1>6 DEF NextPage, GoTo
  <2>4. PagesHeld'
    <3>1. \A k \in 1..((page_count + 1) * PAGE_SIZE) :
            k \in DOMAIN image /\ image[k] = FilePacket(file, k)
      BY <1>2, <2>2, FullPageHeld DEF PageLabels
    <3> QED
      BY <1>2, <2>3, <3>1 DEF PagesHeld
  <2>5. packet_count' = page_count' * PAGE_SIZE
    <3>1. packet_count = page_count * PAGE_SIZE + PAGE_SIZE /\ page_count \in Nat
      BY <1>2, ImageLength DEF UploadInv, IInv, PagesAt, PageFull, PageLabels
    <3> QED
      BY <1>2, <2>3, <3>1, PageBase
  <2>6. AnnouncementsAt'
    <3>1. ~Has2(air', ANNOUNCEMENT, ANNOUNCEMENT)
      BY <2>2, HasIsMore
    <3> QED
      BY <2>2, <2>3, <3>1 DEF AnnouncementsAt
  <2>7. ConfirmationsAt'
    <3>1. packet_count' \in Nat
      BY <1>2, ImageLength
    <3> QED
      BY <2>2, <2>3, <2>5, <3>1 DEF ConfirmationsAt, PageLabels
  <2> QED
    BY <1>2, <2>1, <2>4, <2>6, <2>7 DEF AirAt
<1> QED
  BY <1>1, <1>4, <1>5, <1>6


\* A packet in its place; it may fill the page, and the sum is announced then.
LEMMA StoresNext ==
  ASSUME UploadInv, PagesHeld, InPage, Holds(file, image, packet_count), ~Has1(air, ANNOUNCEMENT),
         NEW packet, packet \in Packets(file), Stores(file, Append(image, packet)),
         UNCHANGED page_count
  PROVE  \/ Added(air', air, ACK)
         \/ /\ Len(image') = page_count * PAGE_SIZE + PAGE_SIZE
            /\ \E t : Added(t, air, ACK) /\ Added(air', t, ANNOUNCEMENT)
<1> DEFINE a == PageAnnouncement(file, image', -1)
           l == Len(image)
<1>1. /\ packet_count \in Nat /\ page_count \in Nat /\ page_count * PAGE_SIZE \in Nat
      /\ PAGE_SIZE \in Nat /\ l \in Nat /\ l >= page_count * PAGE_SIZE
      /\ image \in Seq(Packets(file))
  BY ImageLength
<1>2. l <= packet_count
  BY NotFull
<1>3. image' = Append(image, packet) /\ Len(image') = l + 1
  BY <1>1, AppendProperties DEF Stores
<1>4. Ack.type = ACK /\ a.type = ANNOUNCEMENT
  BY DEF Ack, PageAnnouncement, Frame, ACK, ANNOUNCEMENT
<1>5. air \in Seq(InAir)
  BY DEF UploadInv, EvidenceAt
<1>6. Reply(<<Ack>>) \/ (Reply(<<Ack, a>>) /\ Len(image') % PAGE_SIZE = 0)
  BY <1>3 DEF Stores
<1> HIDE DEF a
<1>7. CASE Reply(<<Ack>>)
  BY <1>4, <1>5, <1>7, RepliedOne
<1>8. CASE Reply(<<Ack, a>>) /\ Len(image') % PAGE_SIZE = 0
  <2>1. \E t : Added(t, air, ACK) /\ Added(air', t, ANNOUNCEMENT)
    BY <1>4, <1>5, <1>8, RepliedTwo
  <2>2. l + 1 = page_count * PAGE_SIZE + PAGE_SIZE
    <3>1. /\ l + 1 \in Nat /\ l + 1 > page_count * PAGE_SIZE
          /\ l + 1 <= page_count * PAGE_SIZE + PAGE_SIZE
      BY <1>1, <1>2 DEF InPage
    <3> QED
      BY <1>1, <1>3, <1>8, <3>1, OnlyTheEndIsAMultiple
  <2> QED
    BY <1>3, <2>1, <2>2
<1> QED
  BY <1>6, <1>7, <1>8

\* What an acknowledgement, and an announcement after it, adds to air without one.
LEMMA PacketAdded ==
  ASSUME ~Has1(air, ANNOUNCEMENT),
         \/ Added(air', air, ACK)
         \/ \E t : Added(t, air, ACK) /\ Added(air', t, ANNOUNCEMENT)
  PROVE  /\ ~Has2(air', ANNOUNCEMENT, ANNOUNCEMENT) /\ ~Has2(air', ANNOUNCEMENT, ACK)
         /\ ~Has3(air', ANNOUNCEMENT, ACK, ACK)
         /\ Has1(air', CONFIRMATION) => Has1(air, CONFIRMATION)
         /\ Has2(air', ACK, CONFIRMATION) => Has2(air, ACK, CONFIRMATION)
         /\ Has3(air', ACK, ACK, CONFIRMATION) => Has3(air, ACK, ACK, CONFIRMATION)
         /\ Added(air', air, ACK) => ~Has1(air', ANNOUNCEMENT)
<1>1. ~Has2(air, ANNOUNCEMENT, ANNOUNCEMENT) /\ ~Has2(air, ANNOUNCEMENT, ACK)
  BY HasIsMore
<1>2. CASE Added(air', air, ACK)
  <2>1. ~Has1(air', ANNOUNCEMENT)
    BY <1>2, ThreeFrames DEF Added
  <2>2. /\ ~Has2(air', ANNOUNCEMENT, ANNOUNCEMENT) /\ ~Has2(air', ANNOUNCEMENT, ACK)
        /\ ~Has3(air', ANNOUNCEMENT, ACK, ACK)
    BY <2>1, HasIsMore
  <2>3. /\ Has1(air', CONFIRMATION) => Has1(air, CONFIRMATION)
        /\ Has2(air', ACK, CONFIRMATION) => Has2(air, ACK, CONFIRMATION)
        /\ Has3(air', ACK, ACK, CONFIRMATION) => Has3(air, ACK, ACK, CONFIRMATION)
    BY <1>2, ThreeFrames DEF Added
  <2> QED
    BY <2>1, <2>2, <2>3
<1>3. CASE ~Added(air', air, ACK)
  <2>1. PICK t : Added(t, air, ACK) /\ Added(air', t, ANNOUNCEMENT)
    BY <1>3
  <2>2. ~Has1(t, ANNOUNCEMENT)
    BY <2>1, ThreeFrames DEF Added
  <2>3. ~Has2(t, ANNOUNCEMENT, ANNOUNCEMENT) /\ ~Has2(t, ANNOUNCEMENT, ACK)
    BY <2>2, HasIsMore
  <2>4. /\ Has1(t, CONFIRMATION) => Has1(air, CONFIRMATION)
        /\ Has2(t, ACK, CONFIRMATION) => Has2(air, ACK, CONFIRMATION)
        /\ Has3(t, ACK, ACK, CONFIRMATION) => Has3(air, ACK, ACK, CONFIRMATION)
    BY <2>1, ThreeFrames DEF Added
  <2>5. /\ ~Has2(air', ANNOUNCEMENT, ANNOUNCEMENT) /\ ~Has2(air', ANNOUNCEMENT, ACK)
        /\ Has1(air', CONFIRMATION) => Has1(t, CONFIRMATION)
        /\ Has2(air', ACK, CONFIRMATION) => Has2(t, ACK, CONFIRMATION)
        /\ Has3(air', ACK, ACK, CONFIRMATION) => Has3(t, ACK, ACK, CONFIRMATION)
    BY <2>1, <2>2, <2>3, ThreeFrames DEF Added
  <2>6. ~Has3(air', ANNOUNCEMENT, ACK, ACK)
    BY <2>5, HasIsMore
  <2> QED
    BY <1>3, <2>4, <2>5, <2>6
<1> QED
  BY <1>2, <1>3

\* A packet, or its second copy in a place that the first one left empty.
LEMMA PacketStoredAir ==
  ASSUME UploadInv, PagesHeld, AirAt, Stores(file, Append(image, current_packet)),
         Holds(file, image, packet_count),
         \/ pc \in {"packet_send", "last_send"} /\ pc' \in {"packet_ack", "last_ack"}
         \/ pc = "resend" /\ pc' = "resend_ack",
         UNCHANGED <<file, page_count, packet_count, kt_page_checksum, page_frame>>
  PROVE  PagesHeld' /\ AirAt'
<1>1. InPage
  BY DEF UploadInv, IInv, PagesAt, InitLabels, PageLabels
<1>2. /\ ~Full /\ Len(image) \in Nat /\ image \in Seq(Packets(file))
      /\ page_count * PAGE_SIZE \in Nat /\ PAGE_SIZE \in Nat
      /\ DOMAIN image = 1..Len(image)
  BY <1>1, NotFull, ImageLength
<1>3. ~Has1(air, ANNOUNCEMENT)
  BY <1>2 DEF AirAt, AnnouncementsAt
<1>4. current_packet \in Packets(file)
  <2>1. current_packet = FilePacket(file, packet_count + 1) /\ packet_count < FilePackets(file)
    BY DEF UploadInv, ChunksAt, SendLabels
  <2>2. packet_count \in Nat /\ FilePackets(file) \in Nat
    BY ImageLength, FilePacketsIsNat
  <2>3. packet_count + 1 \in 1..FilePackets(file)
    BY <2>1, <2>2
  <2> QED
    BY <2>1, <2>3 DEF Packets
<1>5. \/ Added(air', air, ACK)
      \/ /\ Len(image') = page_count * PAGE_SIZE + PAGE_SIZE
         /\ \E t : Added(t, air, ACK) /\ Added(air', t, ANNOUNCEMENT)
  BY <1>1, <1>3, <1>4, StoresNext
<1>6. /\ ~Has2(air', ANNOUNCEMENT, ANNOUNCEMENT) /\ ~Has2(air', ANNOUNCEMENT, ACK)
      /\ ~Has3(air', ANNOUNCEMENT, ACK, ACK)
      /\ Has1(air', CONFIRMATION) => Has1(air, CONFIRMATION)
      /\ Has2(air', ACK, CONFIRMATION) => Has2(air, ACK, CONFIRMATION)
      /\ Has3(air', ACK, ACK, CONFIRMATION) => Has3(air, ACK, ACK, CONFIRMATION)
      /\ Added(air', air, ACK) => ~Has1(air', ANNOUNCEMENT)
  BY <1>3, <1>5, PacketAdded
<1>7. Has1(air', ANNOUNCEMENT) => Full'
  BY <1>2, <1>5, <1>6 DEF Full
<1>8. eof_size' = -1
  BY DEF AirAt, Stores
<1>9. AnnouncementsAt'
  BY <1>6, <1>7 DEF AnnouncementsAt
<1>10. ConfirmationsAt'
  BY <1>6 DEF AirAt, ConfirmationsAt, PageLabels
<1>11. PagesHeld'
  <2>1. image' = Append(image, current_packet)
    BY DEF Stores
  <2>2. \A k \in DOMAIN image : k \in DOMAIN image' /\ image'[k] = image[k]
    <3>1. /\ image' \in Seq(Packets(file)) /\ Len(image') = Len(image) + 1
          /\ \A k \in 1..Len(image) : image'[k] = image[k]
      BY <1>2, <1>4, <2>1, AppendProperties
    <3>2. DOMAIN image' = 1..Len(image')
      BY <3>1, LenProperties
    <3> QED
      BY <1>2, <3>1, <3>2
  <2> QED
    BY <2>2 DEF PagesHeld
<1> QED
  BY <1>8, <1>9, <1>10, <1>11 DEF AirAt

\* A second copy of the packet that is the last one stored.
LEMMA PacketRepeatedAir ==
  ASSUME UploadInv, PagesHeld, AirAt, Resend, BootResend(file, current_packet), stored
  PROVE  PagesHeld' /\ AirAt'
<1>1. /\ pc = "resend" /\ pc' = "resend_ack"
      /\ UNCHANGED <<file, page_count, packet_count, kt_page_checksum, page_frame>>
  BY DEF Resend, GoTo, uploadVars
<1>2. /\ image # <<>> /\ image[Len(image)] = current_packet
      /\ Len(image) \in Nat /\ image \in Seq(Packets(file))
  BY <1>1, ImageLength DEF UploadInv, ImageAt, SentLabels
<1>3. Stores(file, [image EXCEPT ![Len(image)] = current_packet])
  BY DEF BootResend
<1>4. [image EXCEPT ![Len(image)] = current_packet] = image
  <2>1. image \in [1..Len(image) -> Packets(file)]
    BY <1>2, LenProperties
  <2> QED
    BY <1>2, <2>1
<1>5. image' = image /\ eof_size' = eof_size /\ Reply(<<Ack>>)
  BY <1>2, <1>3, <1>4 DEF Stores
<1>6. Added(air', air, ACK)
  <2>1. Ack.type = ACK
    BY DEF Ack, Frame, ACK
  <2> QED
    BY <1>5, <2>1, RepliedOne DEF UploadInv, EvidenceAt
<1>7. /\ ~Has2(air, ANNOUNCEMENT, ANNOUNCEMENT) /\ ~Has2(air, ANNOUNCEMENT, ACK)
      /\ Has1(air, ANNOUNCEMENT) => Full
  BY <1>1 DEF AirAt, AnnouncementsAt
<1>8. ~Has3(air, ANNOUNCEMENT, ACK, ACK)
  BY <1>7, HasIsMore
<1>9. /\ ~Has2(air', ANNOUNCEMENT, ANNOUNCEMENT) /\ ~Has3(air', ANNOUNCEMENT, ACK, ACK)
      /\ Has1(air', ANNOUNCEMENT) => Has1(air, ANNOUNCEMENT)
      /\ Has1(air', CONFIRMATION) => Has1(air, CONFIRMATION)
      /\ Has2(air', ACK, CONFIRMATION) => Has2(air, ACK, CONFIRMATION)
      /\ Has3(air', ACK, ACK, CONFIRMATION) => Has3(air, ACK, ACK, CONFIRMATION)
  BY <1>6, <1>7, <1>8, ThreeFrames DEF Added
<1>10. Full' <=> Full
  BY <1>1, <1>5 DEF Full
<1>11. AnnouncementsAt'
  BY <1>1, <1>7, <1>9, <1>10 DEF AnnouncementsAt
<1>12. ConfirmationsAt'
  BY <1>1, <1>9 DEF AirAt, ConfirmationsAt, PageLabels
<1> QED
  BY <1>1, <1>5, <1>11, <1>12 DEF AirAt, PagesHeld

LEMMA SendPacketAir ==
  ASSUME UploadInv, PagesHeld, AirAt, SendFullPacket \/ SendPaddedPacket
  PROVE  PagesHeld' /\ AirAt'
<1>1. /\ pc \in {"packet_send", "last_send"} /\ pc' \in {"packet_ack", "last_ack"}
      /\ UNCHANGED <<file, page_count, packet_count, kt_page_checksum, page_frame>>
      /\ BootPacket(file, current_packet)
  BY DEF SendFullPacket, SendPaddedPacket, SendPacket, GoTo, uploadVars
<1>2. Holds(file, image, packet_count)
  BY <1>1 DEF UploadInv, ImageAt
<1>3. CASE Stores(file, Append(image, current_packet))
  BY <1>1, <1>2, <1>3, PacketStoredAir
<1>4. CASE UNCHANGED <<air, image, eof_size>>
  <2>1. NoMore(air', air)
    BY <1>4, NoMoreBySame
  <2>2. InPage
    BY <1>1 DEF UploadInv, IInv, PagesAt, InitLabels, PageLabels
  <2>3. ~Has1(air, ANNOUNCEMENT)
    BY <1>2, <2>2, NotFull DEF AirAt, AnnouncementsAt
  <2>4. ~Has2(air, ANNOUNCEMENT, ACK)
    BY <2>3, HasIsMore
  <2>5. AirAt'
    BY <1>1, <1>4, <2>1, <2>4, QuietAir DEF PageLabels
  <2> QED
    BY <1>1, <1>4, <2>5 DEF PagesHeld
<1> QED
  BY <1>1, <1>3, <1>4 DEF BootPacket

LEMMA ResendAir ==
  ASSUME UploadInv, PagesHeld, AirAt, Resend
  PROVE  PagesHeld' /\ AirAt'
<1>1. /\ pc = "resend" /\ pc' = "resend_ack"
      /\ UNCHANGED <<file, page_count, packet_count, kt_page_checksum, page_frame>>
      /\ BootResend(file, current_packet) \/ LostOnTheBus
  BY DEF Resend, GoTo, uploadVars
<1>2. CASE LostOnTheBus
  <2>1. UNCHANGED <<air, image, eof_size>> /\ NoMore(air', air)
    BY <1>2, NoMoreBySame DEF LostOnTheBus, bootVars
  <2>2. ~Has3(air, ANNOUNCEMENT, ACK, ACK)
    BY <1>1, HasIsMore DEF AirAt, AnnouncementsAt
  <2>3. AirAt'
    BY <1>1, <2>1, <2>2, QuietAir DEF PageLabels
  <2> QED
    BY <1>1, <2>1, <2>3 DEF PagesHeld
<1>3. CASE BootResend(file, current_packet) /\ stored
  BY <1>3, PacketRepeatedAir
<1>4. CASE BootResend(file, current_packet) /\ ~stored
  <2>1. Stores(file, Append(image, current_packet))
    BY <1>4 DEF BootResend
  <2>2. Holds(file, image, packet_count)
    BY <1>1, <1>4 DEF UploadInv, ImageAt, SentLabels
  <2> QED
    BY <1>1, <2>1, <2>2, PacketStoredAir
<1> QED
  BY <1>1, <1>2, <1>3, <1>4

\* An acknowledgement takes what came before it away, and a confirmation with it.
LEMMA PacketCountedAir ==
  ASSUME UploadInv, PagesHeld, AirAt, PacketAck \/ ResendAck, pc' \notin LateLabels
  PROVE  AirAt'
<1>1. PICK m \in Answers :
        /\ get_frame("IAP_RESPONSE", m)
        /\ \/ m.type = "ACK_32_BYTES" /\ PacketDone
           \/ /\ TryAgain \/ GoTo("resend") \/ Finish("PACKET_RESENT_FAIL")
              /\ pc = "resend_ack" => ~GoTo("resend")
              /\ UNCHANGED packet_count
  BY DEF PacketAck, ResendAck, GoTo, TryAgain, Finish
<1>2. /\ pc \in {"packet_ack", "resend_ack"}
      /\ UNCHANGED <<page_count, image, eof_size, kt_page_checksum, page_frame>>
  BY DEF PacketAck, ResendAck, bootVars
<1>3. NoMore(air', air) /\ (m = NoFrame \/ (Has1(air, m.type) /\ Behind(air', air, m.type)))
  BY <1>1, FrameTakenBefore DEF UploadInv, EvidenceAt
<1>4. CASE TryAgain /\ UNCHANGED packet_count
  BY <1>2, <1>3, <1>4, QuietAir DEF TryAgain
<1>5. CASE GoTo("resend") /\ pc = "packet_ack" /\ UNCHANGED packet_count
  <2>1. ~Has2(air, ANNOUNCEMENT, ACK)
    BY <1>5 DEF AirAt, AnnouncementsAt
  <2> QED
    BY <1>2, <1>3, <1>5, <2>1, QuietAir DEF GoTo, PageLabels
<1>6. CASE m.type = "ACK_32_BYTES" /\ PacketDone
  <2>1. pc' = "loop" /\ packet_count' = packet_count + 1
    BY <1>6 DEF PacketDone, GoTo
  <2>2. packet_count \in Nat /\ page_count * PAGE_SIZE \in Nat
    BY ImageLength
  <2>3. packet_count >= page_count * PAGE_SIZE
    BY <1>2, <2>2 DEF UploadInv, IInv, PagesAt, InPage, InitLabels, PageLabels
  <2>4. Behind(air', air, ACK)
    BY <1>3, <1>6 DEF NoFrame, Frame, ACK
  <2>5. ~Has3(air, ANNOUNCEMENT, ACK, ACK)
    BY <1>2, HasIsMore DEF AirAt, AnnouncementsAt
  <2>6. /\ ~Has3(air, ACK, ACK, CONFIRMATION)
        /\ packet_count > page_count * PAGE_SIZE => ~Has2(air, ACK, CONFIRMATION)
    BY <1>2 DEF AirAt, ConfirmationsAt, PageLabels
  <2>7. /\ ~Has2(air', ACK, CONFIRMATION) /\ ~Has3(air', ACK, ACK, CONFIRMATION)
        /\ packet_count > page_count * PAGE_SIZE => ~Has1(air', CONFIRMATION)
        /\ ~Has3(air', ANNOUNCEMENT, ACK, ACK)
        /\ ~Has2(air', ANNOUNCEMENT, ANNOUNCEMENT)
        /\ Has1(air', ANNOUNCEMENT) => Has1(air, ANNOUNCEMENT)
    BY <1>3, <2>4, <2>5, <2>6, ThreeFrames DEF Behind, NoMore, AirAt, AnnouncementsAt
  <2>8. Full' <=> Full
    BY <1>2 DEF Full
  <2>9. AnnouncementsAt'
    BY <2>1, <2>7, <2>8 DEF AirAt, AnnouncementsAt
  <2>10. ConfirmationsAt'
    BY <1>2, <2>1, <2>2, <2>3, <2>7 DEF ConfirmationsAt, PageLabels
  <2> QED
    BY <1>2, <2>9, <2>10 DEF AirAt
<1>7. ~Finish("PACKET_RESENT_FAIL")
  BY DEF Finish, LateLabels
<1> QED
  BY <1>1, <1>2, <1>4, <1>5, <1>6, <1>7

LEMMA LastAckAir ==
  ASSUME UploadInv, AirAt, LastAck, pc' \notin LateLabels
  PROVE  AirAt'
<1>1. PICK m \in Answers :
        /\ get_frame("IAP_RESPONSE", m)
        /\ \/ m.type = "ACK_32_BYTES" /\ GoTo("eof_send")
           \/ m.type # "ACK_32_BYTES" /\ (TryAgain \/ (tries = 1 /\ GoTo("resend")))
  BY DEF LastAck
<1>2. /\ pc = "last_ack"
      /\ UNCHANGED <<page_count, packet_count, image, eof_size, kt_page_checksum, page_frame>>
  BY DEF LastAck, bootVars, uploadVars
<1>3. NoMore(air', air)
  BY <1>1, FrameTakenBefore DEF UploadInv, EvidenceAt
<1>4. ~Has2(air, ANNOUNCEMENT, ACK)
  BY <1>2 DEF AirAt, AnnouncementsAt
<1>5. pc' \in {"last_ack", "resend"}
  BY <1>1, <1>2 DEF GoTo, TryAgain, LateLabels
<1> QED
  BY <1>2, <1>3, <1>4, <1>5, QuietAir DEF PageLabels


\* The frames that open the upload say nothing of a page, and nothing is stored yet.
LEMMA InitAir ==
  ASSUME UploadInv, PagesHeld, AirAt, SendInitFrame \/ InitResponse, pc' \notin LateLabels
  PROVE  PagesHeld' /\ AirAt'
<1>1. /\ pc \in InitLabels /\ pc' \in InitLabels \cup {"loop"}
      /\ UNCHANGED <<file, page_count, packet_count, kt_page_checksum, page_frame>>
  BY DEF SendInitFrame, InitResponse, GoTo, Finish, uploadVars, InitLabels, LateLabels
<1>2. image = <<>> /\ eof_size = -1 /\ page_count = 0
  BY <1>1 DEF UploadInv, ImageAt, EvidenceAt, IInv, PagesAt
<1>3. UNCHANGED <<image, eof_size>>
  BY <1>2 DEF SendInitFrame, InitResponse, BootOpens, LostOnTheBus, bootVars
<1>4. air \in Seq(InAir) /\ step \in 1..Len(InitFrames)
  BY DEF UploadInv, EvidenceAt, IInv, TypeOK
<1>5. NoMore(air', air)
  <2>1. CASE SendInitFrame
    <3> DEFINE m == Frame(InitFrames[step].id, InitFrames[step].type, 0)
    <3>1. Reply(<<m>>) \/ UNCHANGED air
      BY <2>1 DEF SendInitFrame, BootOpens, LostOnTheBus
    <3>2. m.type \notin PageFrames
      <4>1. step = 1 \/ step = 2 \/ step = 3 \/ step = 4 \/ step = 5
        BY <1>4 DEF InitFrames
      <4> QED
        BY <4>1 DEF InitFrames, Frame, PageFrames, ACK, CONFIRMATION, ANNOUNCEMENT
    <3> HIDE DEF m
    <3> QED
      BY <1>4, <3>1, <3>2, RepliedOne, OtherAdded, NoMoreBySame
  <2>2. CASE InitResponse
    <3>1. PICK m \in Answers : get_frame(InitFrames[step].id, m)
      BY <2>2 DEF InitResponse
    <3> QED
      BY <1>4, <3>1, FrameTakenBefore
  <2> QED
    BY <2>1, <2>2
<1>6. ~Has3(air, ANNOUNCEMENT, ACK, ACK) /\ ~Has2(air, ANNOUNCEMENT, ACK)
  <2>1. ~Full
    <3>1. Len(image) = 0 /\ page_count * PAGE_SIZE = 0 /\ PAGE_SIZE > 0
      BY <1>2, PageSizeAssumption
    <3> QED
      BY <3>1, PageSizeAssumption DEF Full
  <2>2. ~Has1(air, ANNOUNCEMENT)
    BY <2>1 DEF AirAt, AnnouncementsAt
  <2> QED
    BY <2>2, HasIsMore
<1>7. AirAt'
  BY <1>1, <1>3, <1>5, <1>6, QuietAir DEF PageLabels, InitLabels
<1> QED
  BY <1>1, <1>3, <1>7 DEF PagesHeld

\* Building a packet is no business of the bootloader's.
LEMMA FrameAir ==
  ASSUME AirAt, NextFrame \/ EndBetweenPackets \/ EndInsidePacket
  PROVE  AirAt'
<1>1. /\ pc = "frame" /\ pc' \in {"frame", "packet_send", "eof_send", "last_send"}
      /\ UNCHANGED <<air, page_count, packet_count, kt_page_checksum, page_frame, image, eof_size>>
  BY DEF NextFrame, EndBetweenPackets, EndInsidePacket, GoTo, busVars, bootVars
<1>2. NoMore(air', air)
  BY <1>1, NoMoreBySame
<1> QED
  BY <1>1, <1>2, QuietAir DEF PageLabels

\* A heartbeat in between, a frame lost.
LEMMA BusAir ==
  ASSUME UploadInv, AirAt, Loss \/ Disturbance \/ Done \/ UNCHANGED vars
  PROVE  AirAt'
<1>1. UNCHANGED <<pc, page_count, packet_count, kt_page_checksum, page_frame, image, eof_size>>
  BY DEF Loss, Disturbance, StrayHeartbeat, Done, vars, uploadVars, bootVars
<1>2. air \in Seq(InAir)
  BY DEF UploadInv, EvidenceAt
<1>3. NoMore(air', air)
  <2>1. CASE Loss
    BY <1>2, <2>1, LossKeepsOrder DEF Loss
  <2>2. CASE Disturbance
    <3> DEFINE m == Frame("IAP_HEARTBEAT", "IN_IAP_MODE", 0)
    <3>1. air' = Append(air, m)
      BY <2>2 DEF Disturbance, StrayHeartbeat
    <3>2. m.type \notin PageFrames
      BY DEF Frame, PageFrames, ACK, CONFIRMATION, ANNOUNCEMENT
    <3> HIDE DEF m
    <3>3. Added(air', air, m.type)
      BY <1>2, <3>1, AddedByAppend
    <3> QED
      BY <3>2, <3>3, OtherAdded
  <2>3. CASE Done \/ UNCHANGED vars
    BY <2>3, NoMoreBySame DEF Done, vars, busVars
  <2> QED
    BY <2>1, <2>2, <2>3
<1> QED
  BY <1>1, <1>3, QuietAir

\* At the end of the file the image and the page counter rest.
LEMMA LateStep ==
  ASSUME [Next]_vars, pc \in LateLabels
  PROVE  pc' \in LateLabels /\ UNCHANGED <<file, image, page_count>>
<1> USE DEF LateLabels, EofLabels, HeartbeatLabels, uploadVars, bootVars
<1>1. ASSUME Loss \/ Disturbance \/ Done \/ UNCHANGED vars
      PROVE  pc' \in LateLabels /\ UNCHANGED <<file, image, page_count>>
  BY <1>1 DEF Loss, Disturbance, StrayHeartbeat, Done, vars
<1>2. ASSUME SendEndOfFile \/ EndOfFileResponse \/ LastKtPageChecksum \/ SendLastPageChecksum
             \/ LastPageResponse
      PROVE  pc' \in LateLabels /\ UNCHANGED <<file, image, page_count>>
  BY <1>2 DEF SendEndOfFile, EndOfFileResponse, LastKtPageChecksum, SendLastPageChecksum,
              LastPageResponse, BootEndOfFile, BootPageChecksum, LostOnTheBus, GoTo, Finish,
              TryAgain
<1>3. ASSUME SendTotalChecksum \/ TotalResponse \/ FirstHeartbeat \/ SecondHeartbeat
             \/ WaitForPageOne
      PROVE  pc' \in LateLabels /\ UNCHANGED <<file, image, page_count>>
  BY <1>3 DEF SendTotalChecksum, TotalResponse, FirstHeartbeat, SecondHeartbeat, WaitForPageOne,
              BootTotal, LostOnTheBus, NextHeartbeat, GoTo, Finish
<1>4. ~(SendInitFrame \/ InitResponse \/ LoopTop \/ KtPageChecksum \/ SendPageChecksum
        \/ PageResponse \/ NextFrame \/ EndBetweenPackets \/ EndInsidePacket \/ SendFullPacket
        \/ SendPaddedPacket \/ PacketAck \/ LastAck \/ Resend \/ ResendAck)
  BY DEF SendInitFrame, InitResponse, LoopTop, KtPageChecksum, SendPageChecksum, PageResponse,
         NextFrame, EndBetweenPackets, EndInsidePacket, SendFullPacket, SendPaddedPacket,
         SendPacket, PacketAck, LastAck, Resend, ResendAck
<1> QED
  BY <1>1, <1>2, <1>3, <1>4 DEF Next, Upload

LEMMA PageStep ==
  ASSUME UploadInv, PageInv, [Next]_vars, PAGE_SIZE > 1, NoneHasZeroPage
  PROVE  PageInv'
<1> DEFINE Goal == PagesHeld' /\ (pc' \notin LateLabels => AirAt')
<1>1. PagesHeld
  BY DEF PageInv
<1>2. CASE pc \in LateLabels
  BY <1>1, <1>2, LateStep DEF PageInv, PagesHeld
<1>3. CASE pc \notin LateLabels
  <2>1. AirAt
    BY <1>3 DEF PageInv
  <2>2. ASSUME UNCHANGED <<file, image, page_count>> PROVE PagesHeld'
    BY <1>1, <2>2 DEF PagesHeld
  <2>3. ASSUME SendInitFrame \/ InitResponse PROVE Goal
    <3>1. CASE pc' \notin LateLabels
      BY <1>1, <2>1, <2>3, <3>1, InitAir
    <3>2. CASE pc' \in LateLabels
      <4>1. UNCHANGED <<file, image, page_count>>
        BY <2>3, <3>2 DEF SendInitFrame, InitResponse, GoTo, uploadVars, bootVars, LateLabels,
                          EofLabels, HeartbeatLabels
      <4> QED
        BY <2>2, <3>2, <4>1
    <3> QED
      BY <3>1, <3>2
  <2>4. ASSUME LoopTop \/ KtPageChecksum \/ SendPageChecksum PROVE Goal
    <3>1. UNCHANGED <<file, image, page_count>>
      BY <2>4 DEF LoopTop, KtPageChecksum, SendPageChecksum, BootPageChecksum, LostOnTheBus,
                  uploadVars, bootVars
    <3> QED
      BY <1>1, <2>1, <2>2, <2>4, <3>1, LoopTopAir, KtPageChecksumAir, SendPageChecksumAir
  <2>5. ASSUME PageResponse PROVE Goal
    BY <1>1, <2>1, <2>5, PageResponseAir
  <2>6. ASSUME NextFrame \/ EndBetweenPackets \/ EndInsidePacket PROVE Goal
    <3>1. UNCHANGED <<file, image, page_count>>
      BY <2>6 DEF NextFrame, EndBetweenPackets, EndInsidePacket, bootVars
    <3> QED
      BY <2>1, <2>2, <2>6, <3>1, FrameAir
  <2>7. ASSUME SendFullPacket \/ SendPaddedPacket \/ Resend PROVE Goal
    BY <1>1, <2>1, <2>7, SendPacketAir, ResendAir
  <2>8. ASSUME PacketAck \/ ResendAck \/ LastAck PROVE Goal
    <3>1. UNCHANGED <<file, image, page_count>>
      BY <2>8 DEF PacketAck, ResendAck, LastAck, uploadVars, bootVars
    <3> QED
      BY <1>1, <2>1, <2>2, <2>8, <3>1, PacketCountedAir, LastAckAir
  <2>9. ASSUME SendEndOfFile PROVE Goal
    <3>1. UNCHANGED <<file, image, page_count>> /\ pc' = "eof_resp"
      BY <2>9 DEF SendEndOfFile, BootEndOfFile, LostOnTheBus, GoTo, uploadVars, bootVars
    <3> QED
      BY <2>2, <3>1 DEF LateLabels
  <2>10. ASSUME Loss \/ Disturbance \/ Done \/ UNCHANGED vars PROVE Goal
    <3>1. UNCHANGED <<file, image, page_count>>
      BY <2>10 DEF Loss, Disturbance, StrayHeartbeat, Done, vars, uploadVars, bootVars
    <3> QED
      BY <2>1, <2>2, <2>10, <3>1, BusAir
  <2>11. ~(EndOfFileResponse \/ LastKtPageChecksum \/ SendLastPageChecksum \/ LastPageResponse
           \/ SendTotalChecksum \/ TotalResponse \/ FirstHeartbeat \/ SecondHeartbeat
           \/ WaitForPageOne)
    BY <1>3 DEF EndOfFileResponse, LastKtPageChecksum, SendLastPageChecksum, LastPageResponse,
                SendTotalChecksum, TotalResponse, FirstHeartbeat, SecondHeartbeat, WaitForPageOne,
                LateLabels, EofLabels, HeartbeatLabels
  <2>12. Goal
    BY <2>3, <2>4, <2>5, <2>6, <2>7, <2>8, <2>9, <2>10, <2>11 DEF Next, Upload
  <2> QED
    BY <2>12 DEF PageInv
<1> QED
  BY <1>2, <1>3

LEMMA PageInit ==
  ASSUME Init
  PROVE  PageInv
<1>1. /\ air = <<>> /\ pc = "init_send" /\ eof_size = -1 /\ image = <<>> /\ page_count = 0
  BY DEF Init, BootInit
<1>2. PagesHeld
  <2>1. 1..(page_count * PAGE_SIZE) = {}
    BY <1>1, PageSizeAssumption
  <2> QED
    BY <2>1 DEF PagesHeld
<1>3. DOMAIN air = {}
  BY <1>1
<1>4. \A a, b, c : ~Has1(air, a) /\ ~Has2(air, a, b) /\ ~Has3(air, a, b, c)
  BY <1>3 DEF Has1, Has2, Has3
<1> HIDE DEF PagesHeld
<1> QED
  BY <1>1, <1>2, <1>4 DEF PageInv, AirAt, AnnouncementsAt, ConfirmationsAt, PageLabels

\* No corrupt page is left behind, with pages of two packets or more and a byte that is
\* not zero in each, whatever was lost, late or acknowledged by a stale answer
\* (IAP.cpp:346-393).
THEOREM PagesAreStored ==
  ASSUME PAGE_SIZE > 1, NoneHasZeroPage
  PROVE  Spec => []PagesStored
<1> DEFINE I == IInv /\ (~Rereads => UploadInv) /\ (~Rereads => PageInv)
<1>1. Init => I
  BY InitEstablishes, ReaderInit, ImageInit, EvidenceInit, SumsInit, PageInit DEF UploadInv
<1>2. I /\ [Next]_vars => I'
  <2> SUFFICES ASSUME I, [Next]_vars PROVE I'
    OBVIOUS
  <2>1. IInv' /\ (~Rereads' => UploadInv')
    BY StepKeeps, ReaderStep, ImageStep, EvidenceStep, SumsStep, NotYetReread DEF UploadInv
  <2>2. ~Rereads' => PageInv'
    BY PageStep, NotYetReread
  <2> QED
    BY <2>1, <2>2
<1>3. I => PagesStored
  BY HeldMeansStored DEF PageInv
<1> QED
  BY <1>1, <1>2, <1>3, PTL DEF Spec
-----------------------------------------------------------------------------
(* The upload runs down. *)

\* How far each place of the program is from the end, while no packet is counted.
Distance ==
  CASE pc = "init_send" -> 26 + 2 * (5 - step)
    [] pc = "init_resp" -> 25 + 2 * (5 - step)
    [] pc = "loop" -> 24
    [] pc = "page_kt" -> 23
    [] pc = "page_send" -> 22
    [] pc = "page_resp" -> 21
    [] pc = "frame" -> 16 + (FRAMES - frame_count)
    [] pc \in {"packet_send", "last_send"} -> 15
    [] pc \in {"packet_ack", "last_ack"} -> 14
    [] pc = "resend" -> 13
    [] pc = "resend_ack" -> 12
    [] pc = "eof_send" -> 11
    [] pc = "eof_resp" -> 10
    [] pc = "last_kt" -> 9
    [] pc = "last_page_send" -> 8
    [] pc = "last_page_resp" -> 7
    [] pc = "total_send" -> 6
    [] pc = "total_resp" -> 5
    [] pc = "heartbeat_skip" -> 4
    [] pc = "heartbeat" -> 3
    [] pc = "heartbeat_wait" -> heartbeat
    [] pc = "done" -> 0

\* At most this many steps are left, however many frames are lost: a packet is 25 places,
\* each wait is repeated once, and page 1 of the heartbeat comes around.
StepsLeft ==
  2 * (Distance + 25 * (FilePackets(file) - packet_count)) + (1 - tries)

HeartbeatInTurn == heartbeat \in 1..HEARTBEAT_PAGES

LEMMA HeartbeatStep ==
  ASSUME HeartbeatInTurn, [Next]_vars
  PROVE  HeartbeatInTurn'
<1> USE DEF HeartbeatInTurn, bootVars
<1>1. CASE UNCHANGED heartbeat
  BY <1>1
<1>2. CASE FirstHeartbeat \/ SecondHeartbeat \/ WaitForPageOne
  BY <1>2 DEF FirstHeartbeat, SecondHeartbeat, WaitForPageOne, NextHeartbeat, HEARTBEAT_PAGES
<1>3. ASSUME SendInitFrame \/ SendPageChecksum \/ SendFullPacket \/ SendPaddedPacket \/ Resend
             \/ SendEndOfFile \/ SendLastPageChecksum \/ SendTotalChecksum
      PROVE  UNCHANGED heartbeat
  BY <1>3 DEF SendInitFrame, SendPageChecksum, SendFullPacket, SendPaddedPacket, SendPacket,
              Resend, SendEndOfFile, SendLastPageChecksum, SendTotalChecksum, BootOpens,
              BootPageChecksum, BootPacket, BootResend, Stores, BootEndOfFile, BootTotal,
              LostOnTheBus
<1>4. ASSUME InitResponse \/ LoopTop \/ KtPageChecksum \/ PageResponse \/ NextFrame
             \/ EndBetweenPackets \/ EndInsidePacket \/ PacketAck \/ LastAck \/ ResendAck
             \/ EndOfFileResponse \/ LastKtPageChecksum \/ LastPageResponse \/ TotalResponse
      PROVE  UNCHANGED heartbeat
  BY <1>4 DEF InitResponse, LoopTop, KtPageChecksum, PageResponse, NextFrame, EndBetweenPackets,
              EndInsidePacket, PacketAck, LastAck, ResendAck, EndOfFileResponse,
              LastKtPageChecksum, LastPageResponse, TotalResponse
<1>5. ASSUME Loss \/ Disturbance \/ Done \/ UNCHANGED vars PROVE UNCHANGED heartbeat
  BY <1>5 DEF Loss, Disturbance, StrayHeartbeat, Done, vars
<1> QED
  BY <1>1, <1>2, <1>3, <1>4, <1>5 DEF Next, Upload

LEMMA DistanceIsNat ==
  ASSUME TypeOK, HeartbeatInTurn
  PROVE  Distance \in Nat
<1>1. /\ pc \in Labels /\ step \in 1..5 /\ frame_count \in 0..4
      /\ heartbeat \in 1..2 /\ FRAMES = 4
  BY FramesAreFour DEF TypeOK, InitFrames, HeartbeatInTurn, HEARTBEAT_PAGES
<1> USE DEF Distance
<1>2. CASE pc \in {"init_send", "init_resp"}
  BY <1>1, <1>2
<1>3. CASE pc \in {"loop", "page_kt", "page_send", "page_resp"}
  BY <1>3
<1>4. CASE pc \in {"frame", "packet_send", "last_send", "packet_ack", "last_ack", "resend",
                   "resend_ack"}
  BY <1>1, <1>4
<1>5. CASE pc \in {"eof_send", "eof_resp", "last_kt", "last_page_send", "last_page_resp"}
  BY <1>5
<1>6. CASE pc \in {"total_send", "total_resp", "heartbeat_skip", "heartbeat", "heartbeat_wait",
                   "done"}
  BY <1>1, <1>6
<1> QED
  BY <1>1, <1>2, <1>3, <1>4, <1>5, <1>6 DEF Labels

\* What there is to count.
LEMMA Counts ==
  ASSUME UploadInv, HeartbeatInTurn
  PROVE  /\ FilePackets(file) \in Nat /\ packet_count \in Nat
         /\ packet_count <= FilePackets(file) /\ tries \in 0..1 /\ Distance \in Nat
<1>1. IInv /\ packet_count <= FilePackets(file)
  BY DEF UploadInv, SumsAt
<1>2. TypeOK
  BY <1>1 DEF IInv
<1>3. HexFile(file) /\ packet_count \in Nat
  BY <1>1, FileOfInv
<1> QED
  BY <1>1, <1>2, <1>3, FilePacketsIsNat, DistanceIsNat DEF TypeOK

LEMMA StepsLeftIsNat ==
  ASSUME UploadInv, HeartbeatInTurn
  PROVE  StepsLeft \in Nat
<1> DEFINE P == FilePackets(file)
<1>1. P \in Nat /\ packet_count \in Nat /\ packet_count <= P /\ tries \in 0..1 /\ Distance \in Nat
  BY Counts
<1>2. StepsLeft = 2 * (Distance + 25 * (P - packet_count)) + (1 - tries)
  BY DEF StepsLeft
<1> HIDE DEF P
<1> QED
  BY <1>1, <1>2

\* The same at the end of a step.
LEMMA DistanceIsNatNext == TypeOK' /\ HeartbeatInTurn' => Distance' \in Nat
<1>1. TypeOK /\ HeartbeatInTurn => Distance \in Nat
  BY DistanceIsNat
<1>2. (TypeOK /\ HeartbeatInTurn => Distance \in Nat)'
  BY <1>1, PTL
<1> QED
  BY <1>2

\* A place further outweighs both tries.
LEMMA PlaceOutweighsTry ==
  ASSUME NEW x \in Nat, NEW y \in Nat, y < x, NEW r \in Int, NEW t \in 0..1
  PROVE  2 * (y + r) + (1 - 0) < 2 * (x + r) + (1 - t)
<1>1. y + 1 <= x
  OBVIOUS
<1> QED
  BY <1>1

\* A place forward, or the second try of a wait.
Forward ==
  /\ UNCHANGED <<file, packet_count>>
  /\ \/ Distance' < Distance /\ tries' = 0
     \/ Distance' = Distance /\ tries = 0 /\ tries' = 1

LEMMA ForwardMeansLess ==
  ASSUME UploadInv, HeartbeatInTurn, Forward, Distance' \in Nat
  PROVE  StepsLeft' < StepsLeft
<1> DEFINE P == FilePackets(file)
<1>1. P \in Nat /\ packet_count \in Nat /\ tries \in 0..1 /\ Distance \in Nat
  BY Counts
<1>2. /\ StepsLeft = 2 * (Distance + 25 * (P - packet_count)) + (1 - tries)
      /\ StepsLeft' = 2 * (Distance' + 25 * (P - packet_count)) + (1 - tries')
  BY DEF StepsLeft, Forward
<1> DEFINE r == 25 * (P - packet_count)
<1>3. r \in Int
  BY <1>1
<1> HIDE DEF P, r
<1>4. StepsLeft = 2 * (Distance + r) + (1 - tries) /\ StepsLeft' = 2 * (Distance' + r) + (1 - tries')
  BY <1>2 DEF r
<1>5. CASE Distance' < Distance /\ tries' = 0
  <2>1. 2 * (Distance' + r) + (1 - 0) < 2 * (Distance + r) + (1 - tries)
    BY <1>1, <1>3, <1>5, PlaceOutweighsTry
  <2> QED
    BY <1>4, <1>5, <2>1
<1>6. CASE Distance' = Distance /\ tries = 0 /\ tries' = 1
  BY <1>1, <1>3, <1>4, <1>6
<1> QED
  BY <1>5, <1>6 DEF Forward

LEMMA UploadRunsDown ==
  ASSUME UploadInv, HeartbeatInTurn, Upload, UploadInv', HeartbeatInTurn'
  PROVE  StepsLeft' < StepsLeft
<1>1. Distance \in Nat /\ Distance' \in Nat
  <2>1. TypeOK /\ TypeOK'
    BY DEF UploadInv, IInv
  <2> QED
    BY <2>1, DistanceIsNat, DistanceIsNatNext
<1>2. /\ step \in 1..5 /\ frame_count \in 0..4 /\ tries \in 0..1 /\ packet_count \in Nat
      /\ heartbeat \in 1..2 /\ FRAMES = 4
  BY FramesAreFour DEF UploadInv, IInv, TypeOK, InitFrames, HeartbeatInTurn, HEARTBEAT_PAGES
<1> USE DEF GoTo, TryAgain, Finish, uploadVars
<1>3. ASSUME SendInitFrame PROVE Forward
  BY <1>2, <1>3 DEF SendInitFrame, Distance, Forward
<1>4. ASSUME InitResponse PROVE Forward
  <2>1. Len(InitFrames) = 5
    BY DEF InitFrames
  <2>2. /\ pc = "init_resp" /\ tries' = 0 /\ UNCHANGED <<file, packet_count>>
        /\ \/ pc' = "init_send" /\ step' = step + 1
           \/ pc' \in {"loop", "done"}
    BY <1>4 DEF InitResponse
  <2>3. step < 5 \/ pc' # "init_send"
    BY <1>4, <2>1 DEF InitResponse
  <2> QED
    BY <1>2, <2>2, <2>3 DEF Distance, Forward
<1>5. ASSUME LoopTop PROVE Forward
  <2>1. frame_count = 0 /\ UNCHANGED frame_count
    BY <1>5 DEF LoopTop, UploadInv, IInv, FramesAt
  <2>2. /\ pc = "loop" /\ pc' \in {"page_kt", "frame"} /\ tries' = 0
        /\ UNCHANGED <<file, packet_count>>
    BY <1>5 DEF LoopTop
  <2> QED
    BY <1>2, <2>1, <2>2 DEF Distance, Forward
<1>6. ASSUME KtPageChecksum \/ SendPageChecksum PROVE Forward
  BY <1>2, <1>6 DEF KtPageChecksum, SendPageChecksum, Distance, Forward
<1>7. ASSUME PageResponse PROVE Forward
  <2>1. /\ pc = "page_resp" /\ UNCHANGED <<file, packet_count, frame_count>>
        /\ \/ pc' \in {"frame", "done"} /\ tries' = 0
           \/ pc' = pc /\ tries = 0 /\ tries' = 1
    BY <1>7 DEF PageResponse
  <2> QED
    BY <1>2, <2>1 DEF Distance, Forward
<1>8. ASSUME NextFrame PROVE Forward
  <2>1. frame_count < 4
    BY <1>2, <1>8 DEF NextFrame, UploadInv, IInv, FramesAt
  <2>2. /\ pc = "frame" /\ tries' = 0 /\ UNCHANGED <<file, packet_count>>
        /\ frame_count' = frame_count + 1 /\ pc' \in {"frame", "packet_send"}
    BY <1>8 DEF NextFrame
  <2> QED
    BY <1>2, <2>1, <2>2 DEF Distance, Forward
<1>9. ASSUME EndBetweenPackets \/ EndInsidePacket PROVE Forward
  BY <1>2, <1>9 DEF EndBetweenPackets, EndInsidePacket, Distance, Forward
<1>10. ASSUME SendFullPacket \/ SendPaddedPacket \/ Resend PROVE Forward
  BY <1>2, <1>10 DEF SendFullPacket, SendPaddedPacket, SendPacket, Resend, Distance, Forward
<1>11. ASSUME LastAck PROVE Forward
  BY <1>2, <1>11 DEF LastAck, Distance, Forward
<1>12. ASSUME PacketAck \/ ResendAck PROVE StepsLeft' < StepsLeft
  <2>1. CASE packet_count' = packet_count + 1
    <3> DEFINE P == FilePackets(file)
    <3>1. P \in Nat
      BY Counts
    <3>2. pc \in {"packet_ack", "resend_ack"} /\ pc' = "loop" /\ tries' = 0 /\ UNCHANGED file
      BY <1>2, <1>12, <2>1 DEF PacketAck, ResendAck, PacketDone
    <3>3. Distance \in 12..14 /\ Distance' = 24
      BY <3>2 DEF Distance
    <3>4. /\ StepsLeft = 2 * (Distance + 25 * (P - packet_count)) + (1 - tries)
          /\ StepsLeft' = 2 * (24 + 25 * (P - (packet_count + 1))) + 1
      BY <2>1, <3>2, <3>3 DEF StepsLeft
    <3> HIDE DEF P
    <3> QED
      BY <1>2, <3>1, <3>3, <3>4
  <2>2. CASE packet_count' # packet_count + 1
    <3>1. Forward
      BY <1>2, <1>12, <2>2 DEF PacketAck, ResendAck, PacketDone, Distance, Forward
    <3> QED
      BY <1>1, <3>1, ForwardMeansLess
  <2> QED
    BY <2>1, <2>2
<1>13. ASSUME SendEndOfFile \/ EndOfFileResponse \/ LastKtPageChecksum \/ SendLastPageChecksum
              \/ LastPageResponse
       PROVE  Forward
  BY <1>2, <1>13 DEF SendEndOfFile, EndOfFileResponse, LastKtPageChecksum, SendLastPageChecksum,
                     LastPageResponse, Distance, Forward
<1>14. ASSUME SendTotalChecksum \/ TotalResponse \/ FirstHeartbeat PROVE Forward
  BY <1>2, <1>14 DEF SendTotalChecksum, TotalResponse, FirstHeartbeat, Distance, Forward
<1>15. ASSUME SecondHeartbeat \/ WaitForPageOne PROVE Forward
  <2>1. heartbeat' \in 1..2 /\ tries' = 0 /\ UNCHANGED <<file, packet_count>>
    BY <1>15 DEF SecondHeartbeat, WaitForPageOne, HeartbeatInTurn, HEARTBEAT_PAGES
  <2>2. \/ pc = "heartbeat" /\ pc' \in {"heartbeat_wait", "done"}
        \/ pc = "heartbeat_wait" /\ pc' = "done"
        \/ pc = "heartbeat_wait" /\ pc' = "heartbeat_wait" /\ heartbeat = 2 /\ heartbeat' = 1
    <3>1. PICK page \in 0..2 :
            /\ NextHeartbeat(page)
            /\ \/ pc = "heartbeat" /\ pc' \in {"heartbeat_wait", "done"}
               \/ pc = "heartbeat_wait" /\ pc' = "done"
               \/ pc = "heartbeat_wait" /\ pc' = "heartbeat_wait" /\ page > 1
      BY <1>15 DEF SecondHeartbeat, WaitForPageOne, HEARTBEAT_PAGES
    <3>2. CASE page > 1
      <4>1. page = heartbeat /\ heartbeat' = (heartbeat % 2) + 1
        BY <3>1, <3>2 DEF NextHeartbeat, HEARTBEAT_PAGES
      <4>2. heartbeat = 2 /\ heartbeat' = 1
        BY <1>2, <3>2, <4>1
      <4> QED
        BY <3>1, <4>2
    <3> QED
      BY <3>1, <3>2
  <2> QED
    BY <1>2, <2>1, <2>2 DEF Distance, Forward
<1>16. Forward => StepsLeft' < StepsLeft
  BY <1>1, ForwardMeansLess
<1> QED
  BY <1>3, <1>4, <1>5, <1>6, <1>7, <1>8, <1>9, <1>10, <1>11, <1>12, <1>13, <1>14, <1>15, <1>16
  DEF Upload

LEMMA OthersKeepSteps ==
  ASSUME Loss \/ Disturbance \/ Done \/ UNCHANGED vars
  PROVE  StepsLeft' = StepsLeft
<1>1. UNCHANGED <<pc, tries, file, step, packet_count, frame_count, heartbeat>>
  BY DEF Loss, Disturbance, StrayHeartbeat, Done, vars, uploadVars, bootVars
<1> QED
  BY <1>1 DEF StepsLeft, Distance

\* Every step of the program brings the upload nearer to its end, and neither a lost frame
\* nor a late one takes it back: from a file of n packets it has at most 50 n + 69 steps
\* (IAP.cpp:334-505).
THEOREM StepsAreCounted ==
  ASSUME NoneIsReread
  PROVE  Spec => /\ [](StepsLeft \in Nat)
                 /\ [][(Upload => StepsLeft' < StepsLeft)
                       /\ (~Upload => StepsLeft' = StepsLeft)]_vars
<1> DEFINE I == IInv /\ (~Rereads => UploadInv)
<1>1. Init => HeartbeatInTurn
  BY DEF Init, BootInit, HeartbeatInTurn
<1>2. HeartbeatInTurn /\ [Next]_vars => HeartbeatInTurn'
  BY HeartbeatStep
<1>3. I /\ HeartbeatInTurn => StepsLeft \in Nat
  BY NoneRereads, StepsLeftIsNat
<1>4. I /\ I' /\ HeartbeatInTurn /\ HeartbeatInTurn' /\ [Next]_vars =>
        [(Upload => StepsLeft' < StepsLeft) /\ (~Upload => StepsLeft' = StepsLeft)]_vars
  <2> SUFFICES ASSUME I, I', HeartbeatInTurn, HeartbeatInTurn', Next
               PROVE  (Upload => StepsLeft' < StepsLeft) /\ (~Upload => StepsLeft' = StepsLeft)
    OBVIOUS
  <2>1. UploadInv
    BY NoneRereads
  <2>2. UploadInv'
    <3>1. IInv' => ~Rereads'
      BY NoneRereads, PTL
    <3> QED
      BY <3>1
  <2>3. Upload => StepsLeft' < StepsLeft
    BY <2>1, <2>2, UploadRunsDown
  <2>4. ~Upload => StepsLeft' = StepsLeft
    BY OthersKeepSteps DEF Next
  <2> QED
    BY <2>3, <2>4
<1>5. Spec => []I
  BY UploadInvariance
<1> HIDE DEF I
<1> QED
  BY <1>1, <1>2, <1>3, <1>4, <1>5, PTL DEF Spec
=============================================================================
