----------------------------- MODULE IapUpload -----------------------------
(***************************************************************************)
(* The firmware upload of kinetek-util: IAP::send_init_frames,             *)
(* IAP::upload_hex_file and IAP::send_hex_packet (IAP.cpp), with the hex   *)
(* file reader they call, over a CAN bus that may lose and delay frames,   *)
(* against the bootloader.                                                 *)
(*                                                                         *)
(* The program runs one thread, so a step is the code from one send_frame, *)
(* get_frame or get_next_8_bytes to the next; pc names the next call.  The *)
(* four frames of a packet go out without an answer in between and are one *)
(* send.  `tries' is 1 while a get_frame is being repeated.                *)
(***************************************************************************)
EXTENDS Bootloader

CONSTANT Files   \* the files that may be uploaded

ASSUME FilesAssumption == \A f \in Files : HexFile(f)

\* The data of the zeroed buffer, read as a sum.
ASSUME NoDataAssumption == NO_DATA = 0

VARIABLES pc, tries, status,
          file, ut,                \* the hex file and its reader
          step,                    \* which of the five init frames
          packet_count, page_count, num_bytes_uploaded, curr_page_cs,
          frame_count,             \* frames of current_packet filled in
          current_packet,
          kt_page_checksum,        \* kt_calculated_page_checksum_data
          page_frame               \* sum and page number of page_checksum_data

uploadVars == <<packet_count, page_count, num_bytes_uploaded, curr_page_cs,
                frame_count, current_packet, kt_page_checksum, page_frame>>

vars == <<pc, tries, status, file, ut, step, uploadVars, busVars, bootVars>>

-----------------------------------------------------------------------------
InitFrames ==
  << [request |-> "fw_version", id |-> "FW_VERSION_RESPONSE",
      type |-> "FW_VERSION_RESPONSE", fail |-> "FW_VERSION_REQUEST_FAIL"],
     [request |-> "start_download", id |-> "IAP_RESPONSE",
      type |-> "START_DOWNLOAD_RESPONSE", fail |-> "START_DOWNLOAD_FAIL"],
     [request |-> "start_address", id |-> "IAP_RESPONSE",
      type |-> "START_ADDRESS_RESPONSE", fail |-> "SEND_START_ADDRESS_FAIL"],
     [request |-> "total_checksum", id |-> "IAP_RESPONSE",
      type |-> "TOTAL_CHECKSUM_RESPONSE", fail |-> "SEND_CHECKSUM_FAIL"],
     [request |-> "hex_data_size", id |-> "IAP_RESPONSE",
      type |-> "HEX_DATA_SIZE_RESPONSE", fail |-> "SEND_DATA_SIZE_FAIL"] >>

last_packet_size ==
  LET rest == DataSize(file) % PACKET_SIZE IN IF rest = 0 THEN PACKET_SIZE ELSE rest

EmptyPacket == [i \in 1..FRAMES |-> Filler]

Init ==
  /\ BootInit
  /\ air = <<>>
  /\ faults = 0
  /\ file \in {f \in Files : Loads(f)}
  /\ ut = NewReader
  /\ pc = "init_send"
  /\ tries = 0
  /\ status = "RUNNING"
  /\ step = 1
  /\ packet_count = 0
  /\ page_count = 0
  /\ num_bytes_uploaded = 0
  /\ curr_page_cs = 0
  /\ frame_count = 0
  /\ current_packet = EmptyPacket
  /\ kt_page_checksum = NoFrame
  /\ page_frame = [sum |-> 0, page |-> 0]

-----------------------------------------------------------------------------
(* How a step goes on. *)

GoTo(label) == pc' = label /\ tries' = 0 /\ UNCHANGED status
Finish(code) == pc' = "done" /\ tries' = 0 /\ status' = code

\* "try again": the same wait once more.
M_TryAgain == tries = 0 /\ UNCHANGED <<pc, tries, status>>
TryAgain == tries = 0 /\ tries' = 1 /\ UNCHANGED <<pc, status>>

\* A frame, or all the frames of a packet, to the bootloader may be lost.
LostOnTheBus == Fault /\ UNCHANGED <<air, bootVars>>

-----------------------------------------------------------------------------
(* send_init_frames *)

SendInitFrame ==
  /\ pc = "init_send"
  /\ \/ BootOpens(InitFrames[step].request,
                  Frame(InitFrames[step].id, InitFrames[step].type, 0),
                  TotalChecksum(file))
     \/ LostOnTheBus
  /\ GoTo("init_resp")
  /\ UNCHANGED <<file, ut, step, uploadVars>>

InitResponse ==
  /\ pc = "init_resp"
  /\ \E m \in Answers :
       /\ get_frame(InitFrames[step].id, m)
       /\ \/ /\ m.type = InitFrames[step].type
             /\ step < Len(InitFrames)
             /\ step' = step + 1
             /\ GoTo("init_send")
          \/ /\ m.type = InitFrames[step].type
             /\ step = Len(InitFrames)
             /\ GoTo("loop")
             /\ UNCHANGED step
          \/ /\ m.type # InitFrames[step].type
             /\ Finish(InitFrames[step].fail)
             /\ UNCHANGED step
  /\ UNCHANGED <<file, ut, uploadVars, bootVars>>

-----------------------------------------------------------------------------
(* upload_hex_file: the top of the loop and the page boundary *)

M_PageBoundary == packet_count % PAGE_SIZE = 0
PageBoundary == packet_count > 0 /\ packet_count % PAGE_SIZE = 0

LoopTop ==
  /\ pc = "loop"
  /\ GoTo(IF PageBoundary THEN "page_kt" ELSE "frame")
  /\ UNCHANGED <<file, ut, step, uploadVars, busVars, bootVars>>

\* The bootloader's own sum is awaited twice and what came is kept, the zeroed
\* buffer too; then the program's own sum goes into the page checksum frame.
KtPageChecksum ==
  /\ pc = "page_kt"
  /\ \E m \in Answers :
       /\ get_frame("IAP_HEARTBEAT", m)
       /\ \/ /\ m.type # "KT_CALCULATED_PAGE_CHECKSUM"
             /\ TryAgain
             /\ UNCHANGED <<kt_page_checksum, page_frame>>
          \/ /\ m.type = "KT_CALCULATED_PAGE_CHECKSUM" \/ tries = 1
             /\ kt_page_checksum' = m
             /\ page_frame' = [sum |-> curr_page_cs, page |-> (page_count + 1) % BYTE]
             /\ GoTo("page_send")
  /\ UNCHANGED <<file, ut, step, packet_count, page_count, num_bytes_uploaded,
                 curr_page_cs, frame_count, current_packet, bootVars>>

SendPageChecksum ==
  /\ pc = "page_send"
  /\ BootPageChecksum(file, page_frame.sum, page_frame.page) \/ LostOnTheBus
  /\ GoTo("page_resp")
  /\ UNCHANGED <<file, ut, step, uploadVars>>

\* Confirmed, or as a last effort found equal to the bootloader's own sum.
M_PageAccepted(m) == m.type = "CALCULATE_PAGE_CHECKSUM_RESPONSE" \/ tries = 1
PageAccepted(m) ==
  \/ m.type = "CALCULATE_PAGE_CHECKSUM_RESPONSE"
  \/ tries = 1 /\ kt_page_checksum.data = page_frame.sum

M_NextPage == page_count' = page_count + 1 /\ UNCHANGED curr_page_cs
NextPage == page_count' = page_count + 1 /\ curr_page_cs' = 0

PageResponse ==
  /\ pc = "page_resp"
  /\ \E m \in Answers :
       /\ get_frame("IAP_RESPONSE", m)
       /\ \/ /\ PageAccepted(m)
             /\ NextPage
             /\ GoTo("frame")
          \/ /\ ~PageAccepted(m)
             /\ TryAgain \/ (tries = 1 /\ Finish("PAGE_CHECKSUM_FAIL"))
             /\ UNCHANGED <<page_count, curr_page_cs>>
  /\ UNCHANGED <<file, ut, step, packet_count, num_bytes_uploaded, frame_count,
                 current_packet, kt_page_checksum, page_frame, bootVars>>

-----------------------------------------------------------------------------
(* send_hex_packet *)

\* The next eight bytes go into the packet; a full packet is sent.
NextFrame ==
  /\ pc = "frame"
  /\ ~AtEnd(file, ut)
  /\ ut' = AfterChunk(file, ut)
  /\ curr_page_cs' = curr_page_cs + ChunkSum(file, NextChunk(file, ut))
  /\ current_packet' = [current_packet EXCEPT ![frame_count + 1] = NextChunk(file, ut)]
  /\ frame_count' = frame_count + 1
  /\ GoTo(IF frame_count + 1 = FRAMES THEN "packet_send" ELSE "frame")
  /\ UNCHANGED <<file, step, packet_count, page_count, num_bytes_uploaded,
                 kt_page_checksum, page_frame, busVars, bootVars>>

\* The data ends at a packet's end: nothing is left to send.
EndBetweenPackets ==
  /\ pc = "frame"
  /\ AtEnd(file, ut)
  /\ frame_count = 0
  /\ ut' = AfterEnd(ut)
  /\ num_bytes_uploaded' = num_bytes_uploaded - PACKET_SIZE + (DataSize(file) % PACKET_SIZE)
  /\ GoTo("eof_send")
  /\ UNCHANGED <<file, step, packet_count, page_count, curr_page_cs, frame_count,
                 current_packet, kt_page_checksum, page_frame, busVars, bootVars>>

\* The data ends inside a packet: filler frames complete it.
EndInsidePacket ==
  /\ pc = "frame"
  /\ AtEnd(file, ut)
  /\ frame_count > 0
  /\ ut' = AfterEnd(ut)
  /\ num_bytes_uploaded' = num_bytes_uploaded + (DataSize(file) % PACKET_SIZE)
  /\ current_packet' = [i \in 1..FRAMES |-> IF i <= frame_count THEN current_packet[i] ELSE Filler]
  /\ GoTo("last_send")
  /\ UNCHANGED <<file, step, packet_count, page_count, curr_page_cs, frame_count,
                 kt_page_checksum, page_frame, busVars, bootVars>>

SendPacket(here, next) ==
  /\ pc = here
  /\ BootPacket(file, current_packet)
  /\ GoTo(next)
  /\ UNCHANGED <<file, ut, step, uploadVars>>

SendFullPacket == SendPacket("packet_send", "packet_ack")
SendPaddedPacket == SendPacket("last_send", "last_ack")

PacketDone ==
  /\ packet_count' = packet_count + 1
  /\ num_bytes_uploaded' = num_bytes_uploaded + PACKET_SIZE
  /\ frame_count' = 0
  /\ GoTo("loop")

\* After the second time-out the packet is sent again from current_packet.
M_PacketAck ==
  /\ pc = "packet_ack"
  /\ \E m \in Answers :
       /\ get_frame("IAP_RESPONSE", m)
       /\ \/ m.type = "ACK_32_BYTES" /\ PacketDone
          \/ /\ m.type # "ACK_32_BYTES"
             /\ TryAgain \/ (tries = 1 /\ Finish("PACKET_RESENT_FAIL"))
             /\ UNCHANGED <<packet_count, num_bytes_uploaded, frame_count>>
  /\ UNCHANGED <<file, ut, step, page_count, curr_page_cs, current_packet,
                 kt_page_checksum, page_frame, bootVars>>

PacketAck ==
  /\ pc = "packet_ack"
  /\ \E m \in Answers :
       /\ get_frame("IAP_RESPONSE", m)
       /\ \/ m.type = "ACK_32_BYTES" /\ PacketDone
          \/ /\ m.type # "ACK_32_BYTES"
             /\ TryAgain \/ (tries = 1 /\ GoTo("resend"))
             /\ UNCHANGED <<packet_count, num_bytes_uploaded, frame_count>>
  /\ UNCHANGED <<file, ut, step, page_count, curr_page_cs, current_packet,
                 kt_page_checksum, page_frame, bootVars>>

\* The padded packet's acknowledgement ends the data; its absence is answered like
\* that of any packet, and the loop then goes on asking the reader for data.
LastAck ==
  /\ pc = "last_ack"
  /\ \E m \in Answers :
       /\ get_frame("IAP_RESPONSE", m)
       /\ \/ m.type = "ACK_32_BYTES" /\ GoTo("eof_send")
          \/ m.type # "ACK_32_BYTES" /\ (TryAgain \/ (tries = 1 /\ GoTo("resend")))
  /\ UNCHANGED <<file, ut, step, uploadVars, bootVars>>

Resend ==
  /\ pc = "resend"
  /\ BootResend(file, current_packet) \/ LostOnTheBus
  /\ GoTo("resend_ack")
  /\ UNCHANGED <<file, ut, step, uploadVars>>

M_ResendAck ==
  /\ pc = "resend_ack"
  /\ \E m \in Answers :
       /\ get_frame("IAP_RESPONSE", m)
       /\ \/ m.type = "ACK_32_BYTES" /\ GoTo("loop") /\ frame_count' = 0
          \/ /\ m.type # "ACK_32_BYTES"
             /\ TryAgain \/ (tries = 1 /\ Finish("PACKET_RESENT_FAIL"))
             /\ UNCHANGED frame_count
  /\ UNCHANGED <<file, ut, step, packet_count, num_bytes_uploaded, page_count,
                 curr_page_cs, current_packet, kt_page_checksum, page_frame, bootVars>>

ResendAck ==
  /\ pc = "resend_ack"
  /\ \E m \in Answers :
       /\ get_frame("IAP_RESPONSE", m)
       /\ \/ m.type = "ACK_32_BYTES" /\ PacketDone
          \/ /\ m.type # "ACK_32_BYTES"
             /\ TryAgain \/ (tries = 1 /\ Finish("PACKET_RESENT_FAIL"))
             /\ UNCHANGED <<packet_count, num_bytes_uploaded, frame_count>>
  /\ UNCHANGED <<file, ut, step, page_count, curr_page_cs, current_packet,
                 kt_page_checksum, page_frame, bootVars>>

-----------------------------------------------------------------------------
(* upload_hex_file: the end of the file *)

SendEndOfFile ==
  /\ pc = "eof_send"
  /\ BootEndOfFile(file, last_packet_size) \/ LostOnTheBus
  /\ GoTo("eof_resp")
  /\ UNCHANGED <<file, ut, step, uploadVars>>

M_EndOfFileResponse ==
  /\ pc = "eof_resp"
  /\ \E m \in Answers :
       /\ get_frame("IAP_RESPONSE", m)
       /\ \/ m.type = "END_OF_HEX_FILE_RESPONSE" /\ GoTo("heartbeat_skip")
          \/ /\ m.type # "END_OF_HEX_FILE_RESPONSE"
             /\ TryAgain \/ (tries = 1 /\ Finish("END_OF_FILE_FAIL"))
  /\ UNCHANGED <<file, ut, step, uploadVars, bootVars>>

EndOfFileResponse ==
  /\ pc = "eof_resp"
  /\ \E m \in Answers :
       /\ get_frame("IAP_RESPONSE", m)
       /\ \/ m.type = "END_OF_HEX_FILE_RESPONSE" /\ GoTo("last_kt")
          \/ /\ m.type # "END_OF_HEX_FILE_RESPONSE"
             /\ TryAgain \/ (tries = 1 /\ Finish("END_OF_FILE_FAIL"))
  /\ UNCHANGED <<file, ut, step, uploadVars, bootVars>>

\* The bootloader's sum of the last page is awaited once and not kept.
LastKtPageChecksum ==
  /\ pc = "last_kt"
  /\ \E m \in Answers : get_frame("IAP_HEARTBEAT", m)
  /\ page_frame' = [sum |-> curr_page_cs, page |-> (page_count + 1) % BYTE]
  /\ GoTo("last_page_send")
  /\ UNCHANGED <<file, ut, step, packet_count, page_count, num_bytes_uploaded,
                 curr_page_cs, frame_count, current_packet, kt_page_checksum, bootVars>>

SendLastPageChecksum ==
  /\ pc = "last_page_send"
  /\ BootPageChecksum(file, page_frame.sum, page_frame.page) \/ LostOnTheBus
  /\ GoTo("last_page_resp")
  /\ UNCHANGED <<file, ut, step, uploadVars>>

LastPageResponse ==
  /\ pc = "last_page_resp"
  /\ \E m \in Answers :
       /\ get_frame("IAP_RESPONSE", m)
       /\ \/ m.type = "CALCULATE_PAGE_CHECKSUM_RESPONSE" /\ GoTo("total_send")
          \/ /\ m.type # "CALCULATE_PAGE_CHECKSUM_RESPONSE"
             /\ TryAgain \/ (tries = 1 /\ Finish("PAGE_CHECKSUM_FAIL"))
  /\ UNCHANGED <<file, ut, step, uploadVars, bootVars>>

SendTotalChecksum ==
  /\ pc = "total_send"
  /\ BootTotal(file, TotalChecksum(file)) \/ LostOnTheBus
  /\ GoTo("total_resp")
  /\ UNCHANGED <<file, ut, step, uploadVars>>

TotalResponse ==
  /\ pc = "total_resp"
  /\ \E m \in Answers :
       /\ get_frame("IAP_RESPONSE", m)
       /\ \/ m.type = "CALCULATE_TOTAL_CHECKSUM_RESPONSE" /\ GoTo("heartbeat_skip")
          \/ m.type # "CALCULATE_TOTAL_CHECKSUM_RESPONSE" /\ Finish("TOTAL_CHECKSUM_FAIL")
  /\ UNCHANGED <<file, ut, step, uploadVars, bootVars>>

-----------------------------------------------------------------------------
(* upload_hex_file: the heartbeat after the restart *)

Verdict == IF error = 0 THEN "UPLOAD_COMPLETE" ELSE "KINETEK_ERROR"

\* "First heartbeat message after update misses some information": two heartbeats
\* are taken unseen, whether they come or not.
FirstHeartbeat ==
  /\ pc = "heartbeat_skip"
  /\ \E page \in 0..HEARTBEAT_PAGES : NextHeartbeat(page)
  /\ GoTo("heartbeat")
  /\ UNCHANGED <<file, ut, step, uploadVars>>

\* The second one counts if it happens to be page 1.
SecondHeartbeat ==
  /\ pc = "heartbeat"
  /\ \E page \in 0..HEARTBEAT_PAGES :
       /\ NextHeartbeat(page)
       /\ IF page = 1 THEN Finish(Verdict) ELSE GoTo("heartbeat_wait")
  /\ UNCHANGED <<file, ut, step, uploadVars>>

\* Page 1 has to come around; a missing heartbeat gives up.
WaitForPageOne ==
  /\ pc = "heartbeat_wait"
  /\ \E page \in 0..HEARTBEAT_PAGES :
       /\ NextHeartbeat(page)
       /\ \/ page = 0 /\ Finish("NO_HEARTBEAT_DETECTED")
          \/ page = 1 /\ Finish(Verdict)
          \/ page > 1 /\ GoTo("heartbeat_wait")
  /\ UNCHANGED <<file, ut, step, uploadVars>>

-----------------------------------------------------------------------------
\* The bus loses a frame on its way to the program.
Loss == /\ LoseFrame
        /\ pc # "done"
        /\ UNCHANGED <<pc, tries, status, file, ut, step, uploadVars, bootVars>>

\* A heartbeat of the bootloader gets in between.
Disturbance ==
  /\ StrayHeartbeat
  /\ pc # "done"
  /\ UNCHANGED <<pc, tries, status, file, ut, step, uploadVars>>

Done == pc = "done" /\ UNCHANGED vars

Upload ==
  \/ SendInitFrame \/ InitResponse
  \/ LoopTop \/ KtPageChecksum \/ SendPageChecksum \/ PageResponse
  \/ NextFrame \/ EndBetweenPackets \/ EndInsidePacket
  \/ SendFullPacket \/ SendPaddedPacket \/ PacketAck \/ LastAck \/ Resend \/ ResendAck
  \/ SendEndOfFile \/ EndOfFileResponse
  \/ LastKtPageChecksum \/ SendLastPageChecksum \/ LastPageResponse
  \/ SendTotalChecksum \/ TotalResponse
  \/ FirstHeartbeat \/ SecondHeartbeat \/ WaitForPageOne

Next == Upload \/ Loss \/ Disturbance \/ Done

Spec == Init /\ [][Next]_vars

\* Every send_frame returns and every get_frame ends by its timer.
FairSpec == Spec /\ WF_vars(Upload)

-----------------------------------------------------------------------------
Labels ==
  {"init_send", "init_resp", "loop", "page_kt", "page_send", "page_resp", "frame",
   "packet_send", "packet_ack", "last_send", "last_ack", "resend", "resend_ack",
   "eof_send", "eof_resp", "last_kt", "last_page_send", "last_page_resp",
   "total_send", "total_resp", "heartbeat_skip", "heartbeat", "heartbeat_wait", "done"}

TypeOK ==
  /\ pc \in Labels
  /\ tries \in 0..1
  /\ file \in Files
  /\ ut.curr_line \in 0..Len(file)
  /\ ut.is_first_8 \in BOOLEAN /\ ut.is_eof \in BOOLEAN /\ ut.is_open \in BOOLEAN
  /\ step \in 1..Len(InitFrames)
  /\ packet_count \in Nat /\ page_count \in Nat
  /\ num_bytes_uploaded \in Int /\ curr_page_cs \in Nat
  /\ frame_count \in 0..FRAMES
  /\ DOMAIN current_packet = 1..FRAMES
  /\ faults \in 0..FaultBudget

\* The reader and the packet counter stay in step through time-outs and resends:
\* until the end of the data, the packet being built holds exactly the chunks
\* that follow the packets counted so far, none skipped and none read twice
\* (IAP.cpp:396-416, 507-681).
SentInOrder ==
  ~ut.is_eof =>
    /\ Position(file, ut) = FRAMES * packet_count + frame_count
    /\ \A i \in 1..frame_count :
         ChunkNumber(file, current_packet[i]) = FRAMES * packet_count + i

\* Pages are counted exactly when they fill up: no packet of the next page is built
\* before the checksum exchange of a full page, and no page is closed early
\* (IAP.cpp:346-393).
PagesKeepUp ==
  /\ page_count * PAGE_SIZE <= packet_count
  /\ packet_count <= (page_count + 1) * PAGE_SIZE
  /\ frame_count > 0 => packet_count < (page_count + 1) * PAGE_SIZE

\* A page checksum frame speaks of the page just filled, or of what the file has left
\* at its end: its sum is that of the file's bytes of this page whatever was resent
\* on the way (IAP.cpp:364-370, 452-457).
PageFrameIsRight ==
  pc \in {"page_send", "last_page_send"} =>
    LET first == page_count * PAGE_SIZE * FRAMES + 1
        last == first + PAGE_SIZE * FRAMES - 1
    IN  /\ page_frame.sum =
              MapThenSumSet(LAMBDA k : ChunkSum(file, FileChunk(file, k)), first..last)
        /\ pc = "page_send" => FRAMES * packet_count = last

\* The reader has reported the end and would begin the file again, were it asked again
\* (HexUtility.cpp:101-128: the file is closed, and the next line is its first).
Rereads == ut.is_eof /\ ChunkCount(file) % FRAMES = 2

\* No corrupt page is left behind: once the program has gone on to the next page,
\* the bootloader holds the file's packets of every page before it, whatever was
\* lost, late or acknowledged by a stale answer (IAP.cpp:373-393).  Answers carry no
\* number, so a late one can stand in for that of the next packet; it cannot outlive
\* the exchanges of a page of two packets or more.
PagesStored ==
  ~Rereads => \A k \in 1..(page_count * PAGE_SIZE) :
                k \in DOMAIN image /\ image[k] = FilePacket(file, k)

\* A page is passed over only on the strength of something the bootloader said of it:
\* its confirmation now, or its own sum before ("as a last effort compare the KT
\* calculated CS and your calculated CS", IAP.cpp:381-388).
PagePassedOnEvidence ==
  [][(pc = "page_resp" /\ pc' = "frame") =>
        \/ kt_page_checksum.type = "KT_CALCULATED_PAGE_CHECKSUM"
        \/ \E i \in DOMAIN air : air[i].type = "CALCULATE_PAGE_CHECKSUM_RESPONSE"]_vars

\* The upload is reported as done, with or without a Kinetek error, only when the
\* bootloader holds the whole file and nothing else (IAP.cpp:470-502).
CompleteMeansStored ==
  status \in {"UPLOAD_COMPLETE", "KINETEK_ERROR"} =>
    image = [k \in 1..FilePackets(file) |-> FilePacket(file, k)]

\* The reader's -1 is final: "returns -1 if there is no more data (EOF)"
\* (HexUtility.h:115).
EndIsFinal == ut.is_eof => ~ut.is_open

\* Whatever is lost or late, the upload comes to an end: every wait has a timer and
\* every retry is counted (IAP.cpp:334-505).
Terminates == <>(pc = "done")

\* The upload reaches its verdict about the Kinetek.
Completes == <>(status \in {"UPLOAD_COMPLETE", "KINETEK_ERROR"})
=============================================================================
