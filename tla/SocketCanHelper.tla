-------------------------- MODULE SocketCanHelper --------------------------
(***************************************************************************)
(* The CAN traffic as the program sees it (SocketCanHelper.cpp).           *)
(*                                                                         *)
(* `air' holds, oldest first, the frames sent to the program that it has   *)
(* not taken yet: on the bus, delayed, or waiting in the socket.  Only     *)
(* get_frame takes frames, with one receive filter at a time and one       *)
(* shared message buffer, which it zeroes first.  The bus and the other    *)
(* node may misbehave FaultBudget times in all: lose a frame in either     *)
(* direction, or answer after get_frame has given up.                      *)
(***************************************************************************)
EXTENDS Integers, Sequences, FiniteSets, FiniteSetsExt

CONSTANTS FaultBudget,
          NO_DATA   \* what the zeroed buffer holds: 0, or no bytes

ASSUME FaultBudgetAssumption == FaultBudget \in Nat

VARIABLES air, faults

busVars == <<air, faults>>

\* can_id, what get_response_type makes of the data bytes, and what the program may read
\* out of them: one number, or a sequence of bytes.
Frame(id, type, data) == [id |-> id, type |-> type, data |-> data]

\* The zeroed buffer that is returned after a time-out.
NoFrame == Frame("NONE", "NONE", NO_DATA)

Fault == faults < FaultBudget /\ faults' = faults + 1

Waiting(id) == {i \in DOMAIN air : air[i].id = id}

\* get_frame(id, ...) returns m.  Frames with another id that arrive while this
\* filter is set are dropped.
Received(id, m) ==
  \E i \in Waiting(id) :
    /\ \A j \in Waiting(id) : i <= j
    /\ m = air[i]
    /\ air' = SubSeq(air, i + 1, Len(air))
    /\ UNCHANGED faults

TimedOut(id, m) ==
  /\ m = NoFrame
  /\ \/ /\ Waiting(id) = {}
        /\ air' = <<>>
        /\ UNCHANGED faults
     \/ /\ Waiting(id) # {}
        /\ UNCHANGED air
        /\ Fault

get_frame(id, m) == Received(id, m) \/ TimedOut(id, m)

Answers == {air[i] : i \in DOMAIN air} \cup {NoFrame}

\* The other node sends these frames.
Reply(frames) == air' = air \o frames /\ UNCHANGED faults

\* A frame to the program is lost.
LoseFrame ==
  /\ Fault
  /\ \E i \in DOMAIN air :
       air' = SubSeq(air, 1, i - 1) \o SubSeq(air, i + 1, Len(air))
=============================================================================
