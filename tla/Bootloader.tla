----------------------------- MODULE Bootloader -----------------------------
(***************************************************************************)
(* EXTERNAL: the Kinetek's bootloader, which is not in the repository, as  *)
(* IAP.cpp and the frames of KinetekUtilityCodes.cpp rely on it.           *)
(*                                                                         *)
(* It stores the packets it receives whole, acknowledges each, announces   *)
(* its own sum of a page when the page is full and at the end of the file, *)
(* and confirms a checksum frame only when the sum and the page agree with *)
(* what it has stored.  A resent packet replaces the packet before it when *)
(* that one was stored, and fills its place when it was not.               *)
(***************************************************************************)
EXTENDS HexUtility, SocketCanHelper

CONSTANT PAGE_SIZE   \* packets in a page: 32 in IAP.h:35

ASSUME PageSizeAssumption == PAGE_SIZE \in Nat \ {0}

\* The width of the page number in a page checksum frame.
BYTE == 256

VARIABLES image,        \* the packets stored
          stored,       \* whether the last packet sent was stored
          eof_size,     \* the last packet's size once the end was announced, or -1
          expected,     \* the total checksum announced before the upload, or -1
          heartbeat,    \* the page its next heartbeat shows
          error         \* the error value that page 1 of the heartbeat reports

bootVars == <<image, stored, eof_size, expected, heartbeat, error>>

HEARTBEAT_PAGES == 2

BootInit ==
  /\ image = <<>>
  /\ stored = FALSE
  /\ eof_size = -1
  /\ expected = -1
  /\ heartbeat \in 1..HEARTBEAT_PAGES
  /\ error \in {0, 1}

\* The bytes of one stored frame, and of packets, whose last one ends in filler
\* bytes that the announced size of the last packet takes off.
FrameLen(f, c) ==
  IF c = Filler THEN 0
  ELSE IF c.half = 1 THEN Min({f[c.line].len, CAN_DATA_LEN})
  ELSE f[c.line].len - CAN_DATA_LEN
FrameBytes(f, c) == ChunkSum(f, c) + 255 * (CAN_DATA_LEN - FrameLen(f, c))
PacketSum(f, p) ==
  FrameBytes(f, p[1]) + FrameBytes(f, p[2]) + FrameBytes(f, p[3]) + FrameBytes(f, p[4])

SumOf(f, from, packets, size) ==
  LET n == Len(packets)
  IN  MapThenSumSet(LAMBDA i : PacketSum(f, packets[i]), from..n)
        - (IF size >= 0 /\ from <= n THEN 255 * (PACKET_SIZE - size) ELSE 0)

\* The page last filled or, once the end was announced, the page after the bytes of
\* the full ones (a padded packet does not fill a page); and its sum of that page.
CurrentPage(packets, size) ==
  IF size < 0 THEN Len(packets) \div PAGE_SIZE
  ELSE ((Len(packets) - 1) * PACKET_SIZE + size) \div (PAGE_SIZE * PACKET_SIZE) + 1
PageSum(f, packets, size) ==
  SumOf(f, (CurrentPage(packets, size) - 1) * PAGE_SIZE + 1, packets, size)

Ack == Frame("IAP_RESPONSE", "ACK_32_BYTES", 0)
PageAnnouncement(f, packets, size) ==
  Frame("IAP_HEARTBEAT", "KT_CALCULATED_PAGE_CHECKSUM", PageSum(f, packets, size))

\* The five frames that open an upload.  START_DOWNLOAD begins a new image.
BootOpens(request, response, total) ==
  /\ Reply(<<response>>)
  /\ image' = IF request = "start_download" THEN <<>> ELSE image
  /\ stored' = IF request = "start_download" THEN FALSE ELSE stored
  /\ eof_size' = IF request = "start_download" THEN -1 ELSE eof_size
  /\ expected' = IF request = "total_checksum" THEN total ELSE expected
  /\ UNCHANGED <<heartbeat, error>>

Stores(f, packets) ==
  /\ image' = packets
  /\ stored' = TRUE
  /\ Reply(IF Len(packets) > Len(image) /\ Len(packets) % PAGE_SIZE = 0
             THEN <<Ack, PageAnnouncement(f, packets, -1)>>
             ELSE <<Ack>>)
  /\ UNCHANGED <<eof_size, expected, heartbeat, error>>

\* Frames 1 to 4 of a packet, all of them received, or not all (a fault).
BootPacket(f, packet) ==
  \/ Stores(f, Append(image, packet))
  \/ /\ Fault
     /\ stored' = FALSE
     /\ UNCHANGED <<air, image, eof_size, expected, heartbeat, error>>

BootResend(f, packet) ==
  Stores(f, IF stored THEN [image EXCEPT ![Len(image)] = packet]
                      ELSE Append(image, packet))

BootPageChecksum(f, sum, page) ==
  /\ IF page = CurrentPage(image, eof_size) % BYTE /\ sum = PageSum(f, image, eof_size)
       THEN Reply(<<Frame("IAP_RESPONSE", "CALCULATE_PAGE_CHECKSUM_RESPONSE", 0)>>)
       ELSE UNCHANGED busVars
  /\ UNCHANGED bootVars

BootEndOfFile(f, size) ==
  /\ eof_size' = size
  /\ Reply(<<Frame("IAP_RESPONSE", "END_OF_HEX_FILE_RESPONSE", 0),
             PageAnnouncement(f, image, size)>>)
  /\ UNCHANGED <<image, stored, expected, heartbeat, error>>

BootTotal(f, total) ==
  /\ IF total = expected /\ total = SumOf(f, 1, image, eof_size)
       THEN Reply(<<Frame("IAP_RESPONSE", "CALCULATE_TOTAL_CHECKSUM_RESPONSE", 0)>>)
       ELSE UNCHANGED busVars
  /\ UNCHANGED bootVars

\* It also sends its heartbeat, {0x80, 0, 0, 0, 0}, on the id of its page sums.
StrayHeartbeat ==
  /\ Fault
  /\ air' = Append(air, Frame("IAP_HEARTBEAT", "IN_IAP_MODE", 0))
  /\ UNCHANGED bootVars

\* After the total checksum it restarts and sends its heartbeat pages in turn; a
\* wait for a heartbeat gets the next one or, as a fault, none.
NextHeartbeat(page) ==
  /\ \/ /\ page = heartbeat
        /\ heartbeat' = (heartbeat % HEARTBEAT_PAGES) + 1
        /\ UNCHANGED faults
     \/ /\ page = 0
        /\ Fault
        /\ UNCHANGED heartbeat
  /\ air' = <<>>
  /\ UNCHANGED <<image, stored, eof_size, expected, error>>
=============================================================================
