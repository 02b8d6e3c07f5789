---------------------------- MODULE MC_IapUpload ----------------------------
\* The upload on small files.  The byte sums are powers of two, so that images of the
\* same sum hold the same packets.
EXTENDS IapUpload

Data(n, s1, s2) == [type |-> "DATA", len |-> n, sum |-> <<s1, s2>>, valid |-> TRUE]
Other(t) == [type |-> t, len |-> 0, sum |-> <<0, 0>>, valid |-> TRUE]
Eof == Other("END_OF_FILE")
Ela == Other("EXTENDED_LINEAR_AR")

\* Two packets; and three packets and a short record with an address record among them.
TwoPackets == <<Ela, Data(16, 1, 2), Data(16, 4, 8), Data(16, 16, 32), Data(16, 64, 128), Eof>>
ShortTail == <<Data(16, 1, 2), Data(16, 4, 8), Ela, Data(16, 16, 32), Data(16, 64, 128),
               Data(16, 256, 512), Data(16, 1024, 0), Data(4, 77, 0),
               Other("START_LINEAR_AR"), Eof>>
\* A packet and one record, so that the last packet is padded after a long record.
LongTail == <<Data(16, 1, 2), Data(16, 4, 8), Data(16, 16, 32), Eof>>

\* Two full pages, both of which are passed.
TwoPages == [k \in 1..8 |-> Data(16, 2 ^ (2 * k), 2 ^ (2 * k + 1))] \o <<Eof>>

UploadFiles == {TwoPackets, ShortTail, TwoPages}
PaddedFiles == {LongTail}

\* Besides any four faults, in behaviours of their own: a single fault, while a full packet
\* is on its way (for a padded one, see EndIsFinal).
VARIABLE packetFaultOnly

PacketLabels == {"packet_send", "packet_ack", "resend", "resend_ack"}
Allowed ==
  /\ packetFaultOnly /\ faults' # faults => faults = 0 /\ pc \in PacketLabels
  /\ UNCHANGED packetFaultOnly

MCInit == Init /\ packetFaultOnly \in BOOLEAN
MCNext == Next /\ Allowed
mcvars == <<vars, packetFaultOnly>>
MCSpec == MCInit /\ [][MCNext]_mcvars
MCFairSpec == MCSpec /\ WF_mcvars(Upload /\ Allowed)

\* One lost or late full packet, or acknowledgement of it, never keeps the upload from
\* its verdict about the Kinetek: a packet is sent again once (IAP.cpp:406-416).
OneFaultCompletes == packetFaultOnly => Completes
=============================================================================
