------------------------------ MODULE IapMode ------------------------------
(***************************************************************************)
(* Getting the Kinetek into IAP mode: the state machine of `-w FILE.hex'   *)
(* (parse_opt in KinetekUtility.cpp), run_iap, and IAP::put_in_iap_mode    *)
(* with its forced and its selective command.                              *)
(*                                                                         *)
(* The Kinetek (EXTERNAL) is the state its heartbeats and its reactions    *)
(* depend on.  A wait of 3 s is longer than it takes to start or to reset, *)
(* so that such a wait ends without a heartbeat only when the Kinetek has  *)
(* settled in a state that sends none on that id.  Besides, FaultBudget    *)
(* times in all a command or a heartbeat is lost; the forced commands may  *)
(* always come too early or too late for the Kinetek's short window.  Any  *)
(* frame that cannot be transmitted ends the process.                      *)
(***************************************************************************)
EXTENDS Integers

CONSTANTS
  Kineteks,                  \* the states the Kinetek may be found in
  FaultBudget,
  IAP_SELECTIVE_MODE_TEST,   \* the #define's of IAP.cpp and KinetekUtility.cpp,
  IAP_FORCED_MODE_TEST,      \* TRUE when compiled in
  IAP_MODE_TEST

KinetekStates == {"absent", "off", "starting", "running", "resetting", "iap", "iap_hand_held"}

ASSUME KineteksAssumption == Kineteks \subseteq KinetekStates
ASSUME FaultsAssumption == FaultBudget \in Nat
ASSUME FlagsAssumption ==
  {IAP_SELECTIVE_MODE_TEST, IAP_FORCED_MODE_TEST, IAP_MODE_TEST} \subseteq BOOLEAN

VARIABLES
  kinetek, faults,
  pc, CL_status,
  iap_mode_attempts, forced_mode_attempts,   \* counted up to one past their limits
  uploaded   \* whether the Kinetek got the firmware in this run of the program

vars == <<kinetek, faults, pc, CL_status, iap_mode_attempts, forced_mode_attempts, uploaded>>

MaxIapAttempts == 3
MaxForcedAttempts == 10

Init ==
  /\ kinetek \in Kineteks
  /\ faults = 0
  /\ pc = "loop"
  /\ CL_status = "INIT_CAN_SUCCESS"
  /\ iap_mode_attempts = 0
  /\ forced_mode_attempts = 0
  /\ uploaded = FALSE

-----------------------------------------------------------------------------
(* The Kinetek. *)

Fault == faults < FaultBudget /\ faults' = faults + 1

\* It starts or resets by itself.
Settle ==
  /\ \/ kinetek = "starting" /\ kinetek' = "running"
     \/ kinetek = "resetting" /\ kinetek' = "iap"
  /\ UNCHANGED <<faults, pc, CL_status, iap_mode_attempts, forced_mode_attempts, uploaded>>

\* A command moves it from one state to another, and is ignored in all others.
Command(from, to) ==
  \/ kinetek' = (IF kinetek \in from THEN to ELSE kinetek) /\ UNCHANGED faults
  \/ Fault /\ UNCHANGED kinetek

Powered == KinetekStates \ {"absent", "off"}

\* What it sends on an id, and what a wait for that id returns.
Beat(id) ==
  CASE id = "HEARTBEAT_ID" /\ kinetek \in {"running", "resetting"} -> "HEARTBEAT"
    [] id = "HEARTBEAT_ID" /\ kinetek = "iap" -> "IN_IAP_MODE"
    [] id = "IAP_HEARTBEAT_ID" /\ kinetek = "iap_hand_held" -> "IN_IAP_MODE"
    [] OTHER -> "NONE"

get_frame(id, m) ==
  /\ \/ m = Beat(id) /\ m # "NONE" /\ UNCHANGED faults
     \/ m = "NONE" /\ Beat(id) = "NONE" /\ kinetek \notin {"starting", "resetting"}
          /\ UNCHANGED faults
     \/ m = "NONE" /\ Beat(id) # "NONE" /\ Fault
  /\ UNCHANGED kinetek

Answers == {"HEARTBEAT", "IN_IAP_MODE", "NONE"}

-----------------------------------------------------------------------------
(* The state machine of parse_opt. *)

counters == <<iap_mode_attempts, forced_mode_attempts>>

GoTo(label) == pc' = label /\ UNCHANGED CL_status

\* put_in_iap_mode, and so run_iap, returns without having entered IAP mode.
Return(status) == pc' = "judge" /\ CL_status' = status

AttemptsLeft ==
  iap_mode_attempts # MaxIapAttempts \/ forced_mode_attempts # MaxForcedAttempts

\* Forced mode is tried first.
LoopTop ==
  /\ pc = "loop"
  /\ GoTo(IF AttemptsLeft THEN "disable" ELSE "done")
  /\ UNCHANGED <<kinetek, faults, counters, uploaded>>

Counted(n, max) == IF n > max THEN n ELSE n + 1

\* Mutants: missing heartbeats count as attempts; an upload error is tried again.
M_Judge ==
  /\ pc = "judge"
  /\ pc' = IF CL_status \in {"UPLOAD_COMPLETE", "UPLOAD_ERROR"} THEN "done" ELSE "loop"
  /\ iap_mode_attempts' = IF CL_status = "IAP_HEARTBEAT_TIMEOUT"
                            THEN Counted(iap_mode_attempts, MaxIapAttempts)
                            ELSE iap_mode_attempts
  /\ forced_mode_attempts' = IF CL_status = "NO_HEARTBEAT_DETECTED"
                               THEN Counted(forced_mode_attempts, MaxForcedAttempts)
                               ELSE forced_mode_attempts
  /\ UNCHANGED <<kinetek, faults, CL_status, uploaded>>

M_JudgeRetries ==
  /\ pc = "judge"
  /\ pc' = IF CL_status = "UPLOAD_COMPLETE" THEN "done" ELSE "loop"
  /\ iap_mode_attempts' = IF CL_status = "IAP_HEARTBEAT_TIMEOUT"
                            THEN Counted(iap_mode_attempts, MaxIapAttempts)
                            ELSE iap_mode_attempts
  /\ UNCHANGED <<kinetek, faults, CL_status, forced_mode_attempts, uploaded>>

\* After the attempt, or both of them: success and upload errors end the loop, a
\* time-out of the selective mode is counted.
Judge ==
  /\ pc = "judge"
  /\ pc' = IF CL_status \in {"UPLOAD_COMPLETE", "UPLOAD_ERROR"} THEN "done" ELSE "loop"
  /\ iap_mode_attempts' = IF CL_status = "IAP_HEARTBEAT_TIMEOUT"
                            THEN Counted(iap_mode_attempts, MaxIapAttempts)
                            ELSE iap_mode_attempts
  /\ UNCHANGED <<kinetek, faults, CL_status, forced_mode_attempts, uploaded>>

-----------------------------------------------------------------------------
(* put_in_iap_mode(FORCED_MODE) *)

\* The estop line is toggled: off, 2.5 s, on.  No answer is awaited, and the second
\* frame's send may be the program's end (TransmitError).
DisableKinetek ==
  /\ pc = "disable"
  /\ Command(Powered, "off")
  /\ GoTo("enable")
  /\ UNCHANGED <<counters, uploaded>>

EnableKinetek ==
  /\ pc = "enable"
  /\ Command({"off"}, "starting")
  /\ GoTo("force")
  /\ UNCHANGED <<counters, uploaded>>

\* Eleven forced commands around the window, or none in a build for testing the
\* selective mode.
WindowHit ==
  /\ pc = "force"
  /\ ~IAP_SELECTIVE_MODE_TEST
  /\ kinetek = "starting"
  /\ kinetek' = "iap"
  /\ GoTo("forced_ids")
  /\ UNCHANGED <<faults, counters, uploaded>>

WindowMissed ==
  /\ pc = "force"
  /\ GoTo("forced_ids")
  /\ UNCHANGED <<kinetek, faults, counters, uploaded>>

UseHandHeldIds(here, next) ==
  /\ pc = here
  /\ Command({"iap"}, "iap_hand_held")
  /\ GoTo(next)
  /\ UNCHANGED <<counters, uploaded>>

ForcedIds == UseHandHeldIds("forced_ids", "forced_iap")

ForcedIapHeartbeat ==
  /\ pc = "forced_iap"
  /\ \E m \in Answers :
       /\ get_frame("IAP_HEARTBEAT_ID", m)
       /\ GoTo(IF m = "IN_IAP_MODE" THEN "upload" ELSE "forced_heartbeat")
  /\ UNCHANGED <<counters, uploaded>>

\* A normal heartbeat sends the state machine on to the selective mode.
ForcedHeartbeat ==
  /\ pc = "forced_heartbeat"
  /\ \E m \in Answers :
       /\ get_frame("HEARTBEAT_ID", m)
       /\ \/ /\ m = "HEARTBEAT"
             /\ pc' = "selective"
             /\ CL_status' = "HEARTBEAT_DETECTED"
             /\ forced_mode_attempts' = Counted(forced_mode_attempts, MaxForcedAttempts)
          \/ /\ m # "HEARTBEAT"
             /\ Return("NO_HEARTBEAT_DETECTED")
             /\ UNCHANGED forced_mode_attempts
  /\ UNCHANGED <<iap_mode_attempts, uploaded>>

-----------------------------------------------------------------------------
(* put_in_iap_mode(SELECTIVE_MODE) *)

Selective ==
  /\ pc = "selective"
  /\ IF IAP_FORCED_MODE_TEST THEN Return("NO_HEARTBEAT_DETECTED")
                             ELSE GoTo("selective_heartbeat")
  /\ UNCHANGED <<kinetek, faults, counters, uploaded>>

\* Without a heartbeat a second one is awaited, but not looked at.
SelectiveHeartbeat ==
  /\ pc = "selective_heartbeat"
  /\ \E m \in Answers :
       /\ get_frame("HEARTBEAT_ID", m)
       /\ IF m = "HEARTBEAT" THEN GoTo("select") ELSE Return("NO_HEARTBEAT_DETECTED")
  /\ UNCHANGED <<counters, uploaded>>

\* The answer to the selective command is awaited, and does not matter.
SendSelective ==
  /\ pc = "select"
  /\ Command({"running"}, "resetting")
  /\ GoTo("lcd_heartbeat")
  /\ UNCHANGED <<counters, uploaded>>

M_LcdIapHeartbeat ==
  /\ pc = "lcd_heartbeat"
  /\ \E m \in Answers :
       /\ get_frame("HEARTBEAT_ID", m)
       /\ IF m = "IN_IAP_MODE" THEN GoTo("upload") ELSE Return("IAP_HEARTBEAT_TIMEOUT")
  /\ UNCHANGED <<counters, uploaded>>

\* In IAP mode it starts with the LCD's id, which is that of the normal heartbeat.
LcdIapHeartbeat ==
  /\ pc = "lcd_heartbeat"
  /\ \E m \in Answers :
       /\ get_frame("HEARTBEAT_ID", m)
       /\ IF m = "IN_IAP_MODE" THEN GoTo("selective_ids") ELSE Return("IAP_HEARTBEAT_TIMEOUT")
  /\ UNCHANGED <<counters, uploaded>>

SelectiveIds == UseHandHeldIds("selective_ids", "selective_iap")

SelectiveIapHeartbeat ==
  /\ pc = "selective_iap"
  /\ \E m \in Answers :
       /\ get_frame("IAP_HEARTBEAT_ID", m)
       /\ IF m = "IN_IAP_MODE" THEN GoTo("upload") ELSE Return("IAP_HEARTBEAT_TIMEOUT")
  /\ UNCHANGED <<counters, uploaded>>

-----------------------------------------------------------------------------
(* run_iap in IAP mode: what the upload of IapUpload comes to. *)

\* Whatever is not UPLOAD_COMPLETE is reported as UPLOAD_ERROR: also KINETEK_ERROR,
\* when the new firmware runs and reports an error of its own.
UploadFirmware ==
  /\ pc = "upload"
  /\ ~IAP_MODE_TEST
  /\ pc' = "judge"
  /\ \/ CL_status' = "UPLOAD_ERROR" /\ UNCHANGED <<kinetek, uploaded>>
     \/ /\ CL_status' \in {"UPLOAD_COMPLETE", "UPLOAD_ERROR"}
        /\ uploaded' = TRUE
        /\ kinetek' = "running"
  /\ UNCHANGED <<faults, counters>>

\* "If testing IAP mode do not continue".
SkipUpload ==
  /\ pc = "upload"
  /\ IAP_MODE_TEST
  /\ pc' = "judge"
  /\ CL_status' = "UPLOAD_COMPLETE"
  /\ UNCHANGED <<kinetek, faults, counters, uploaded>>

\* send_frame exits the process when the socket does not take the frame.
ForcedSends == {"disable", "enable", "force", "forced_ids"}
SendsHere ==
  \/ pc \in {"disable", "enable", "forced_ids", "select", "selective_ids"}
  \/ pc = "force" /\ ~IAP_SELECTIVE_MODE_TEST
  \/ pc = "upload" /\ ~IAP_MODE_TEST

TransmitError ==
  /\ SendsHere
  /\ pc' = "exited"
  /\ UNCHANGED <<kinetek, faults, CL_status, counters, uploaded>>

Ends == {"done", "exited"}

Done == pc \in Ends /\ UNCHANGED vars

Program ==
  \/ LoopTop \/ Judge
  \/ DisableKinetek \/ EnableKinetek \/ WindowHit \/ WindowMissed \/ ForcedIds
  \/ ForcedIapHeartbeat \/ ForcedHeartbeat
  \/ Selective \/ SelectiveHeartbeat \/ SendSelective \/ LcdIapHeartbeat
  \/ SelectiveIds \/ SelectiveIapHeartbeat
  \/ UploadFirmware \/ SkipUpload

Next == Program \/ TransmitError \/ Settle \/ Done

Spec == Init /\ [][Next]_vars

\* Every wait has a timer, and the Kinetek starts and resets.
FairSpec == Spec /\ WF_vars(Program) /\ WF_vars(Settle)

\* Besides, tried again and again, the forced commands hit the window some time.
LuckySpec == FairSpec /\ SF_vars(WindowHit)

-----------------------------------------------------------------------------
Labels ==
  {"loop", "judge", "disable", "enable", "force", "forced_ids", "forced_iap",
   "forced_heartbeat", "selective", "selective_heartbeat", "select", "lcd_heartbeat",
   "selective_ids", "selective_iap", "upload", "done", "exited"}

Statuses ==
  {"INIT_CAN_SUCCESS", "NO_HEARTBEAT_DETECTED", "HEARTBEAT_DETECTED",
   "IAP_HEARTBEAT_TIMEOUT", "UPLOAD_COMPLETE", "UPLOAD_ERROR"}

TypeOK ==
  /\ kinetek \in KinetekStates
  /\ faults \in 0..FaultBudget
  /\ pc \in Labels
  /\ CL_status \in Statuses
  /\ iap_mode_attempts \in 0..(MaxIapAttempts + 1)
  /\ forced_mode_attempts \in 0..(MaxForcedAttempts + 1)
  /\ uploaded \in BOOLEAN

\* The upload's frames go out only to a Kinetek that is in IAP mode and listens to
\* the hand held programmer's ids, whichever way it got there and whatever was lost
\* (IAP.cpp:176-191, 246-255).
UploadNeedsBootloader == pc = "upload" => kinetek = "iap_hand_held"

\* The state machine gives up only after a heartbeat, never with a Kinetek that it has
\* switched off (KinetekUtility.cpp:544-573).  Only one way out leaves it off: a frame of
\* the forced mode that cannot be transmitted ends the process where it is, be it the
\* very frame that enables the Kinetek again (IAP.cpp:203-248, SocketCanHelper.cpp:136-140).
OffOnlyByTransmitError ==
  [][pc \notin Ends /\ pc' \in Ends /\ kinetek' = "off" =>
       pc' = "exited" /\ pc \in ForcedSends]_vars

\* Every run of the program ends with a result ("After each attempt, a csv string is
\* printed", test_iap_mode.sh:7), or at a frame that cannot be transmitted.
AttemptEnds == <>(pc \in Ends)
=============================================================================
