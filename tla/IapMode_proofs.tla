--------------------------- MODULE IapMode_proofs ---------------------------
(***************************************************************************)
(* Theorems about getting into IAP mode, for a Kinetek found in any state, *)
(* any number of lost frames, and every combination of the build's flags.  *)
(***************************************************************************)
EXTENDS IapMode, TLAPS

ForcedLabels == {"disable", "enable", "force", "forced_ids", "forced_iap", "forced_heartbeat"}
SelectiveLabels == {"selective", "selective_heartbeat", "select", "lcd_heartbeat",
                    "selective_ids", "selective_iap"}

\* Where the Kinetek may be switched off the loop has attempts left: the selective
\* mode, whose time-outs use them up, is entered after a heartbeat.
OffIsTemporary ==
  /\ pc \in ForcedLabels => AttemptsLeft
  /\ pc \in SelectiveLabels \cup {"upload", "done"} => kinetek # "off"
  /\ pc \in {"loop", "judge"} /\ kinetek = "off" => AttemptsLeft
  /\ pc = "judge" /\ kinetek = "off" => CL_status = "NO_HEARTBEAT_DETECTED"

IInv == TypeOK /\ UploadNeedsBootloader /\ OffIsTemporary

\* Losses are counted, by commands and by waits alike.
LEMMA FaultsCounted ==
  ASSUME faults \in 0..FaultBudget, Fault \/ UNCHANGED faults
  PROVE  faults' \in 0..FaultBudget
BY FaultsAssumption DEF Fault

\* What a wait returned tells of the Kinetek, which it leaves alone.
LEMMA HeartbeatTells ==
  ASSUME NEW id \in {"HEARTBEAT_ID", "IAP_HEARTBEAT_ID"}, NEW m, get_frame(id, m)
  PROVE  /\ UNCHANGED kinetek
         /\ Fault \/ UNCHANGED faults
         /\ m = "HEARTBEAT" => kinetek \in {"running", "resetting"}
         /\ id = "IAP_HEARTBEAT_ID" /\ m = "IN_IAP_MODE" => kinetek = "iap_hand_held"
BY DEF get_frame, Beat

LEMMA InitEstablishes == Init => IInv
<1> SUFFICES ASSUME Init PROVE IInv
  OBVIOUS
<1>1. kinetek \in KinetekStates /\ faults \in 0..FaultBudget
  BY KineteksAssumption, FaultsAssumption DEF Init
<1>2. uploaded \in BOOLEAN
  BY DEF Init
<1>3. pc \in Labels /\ CL_status \in Statuses
  BY DEF Init, Labels, Statuses
<1> QED
  BY <1>1, <1>2, <1>3
     DEF Init, IInv, TypeOK, UploadNeedsBootloader, OffIsTemporary, ForcedLabels,
         SelectiveLabels, AttemptsLeft, MaxIapAttempts, MaxForcedAttempts

LEMMA StepKeeps == IInv /\ [Next]_vars => IInv'
<1> SUFFICES ASSUME IInv, [Next]_vars PROVE IInv'
  OBVIOUS
<1> USE DEF Labels, Statuses, KinetekStates, ForcedLabels, SelectiveLabels, counters
<1>1. TypeOK /\ UploadNeedsBootloader /\ OffIsTemporary
  BY DEF IInv
<1>2. CASE UNCHANGED vars
  BY <1>1, <1>2 DEF vars, IInv, TypeOK, UploadNeedsBootloader, OffIsTemporary, AttemptsLeft
<1>3. CASE Done
  BY <1>1, <1>3 DEF Done, vars, IInv, TypeOK, UploadNeedsBootloader, OffIsTemporary,
                    AttemptsLeft
<1>4. CASE Settle
  BY <1>1, <1>4 DEF Settle, IInv, TypeOK, UploadNeedsBootloader, OffIsTemporary, AttemptsLeft
<1>5. CASE LoopTop
  BY <1>1, <1>5 DEF LoopTop, GoTo, IInv, TypeOK, UploadNeedsBootloader, OffIsTemporary,
                    AttemptsLeft
<1>6. CASE Judge
  BY <1>1, <1>6 DEF Judge, Counted, MaxIapAttempts, MaxForcedAttempts, IInv, TypeOK,
                    UploadNeedsBootloader, OffIsTemporary, AttemptsLeft
<1>7. CASE DisableKinetek \/ EnableKinetek \/ ForcedIds
  <2>1. Fault \/ UNCHANGED faults
    BY <1>7 DEF DisableKinetek, EnableKinetek, ForcedIds, UseHandHeldIds, Command
  <2>2. faults' \in 0..FaultBudget
    BY <1>1, <2>1, FaultsCounted DEF TypeOK
  <2> QED
    BY <1>1, <1>7, <2>2 DEF DisableKinetek, EnableKinetek, ForcedIds, UseHandHeldIds,
       Command, Powered, GoTo, IInv, TypeOK, UploadNeedsBootloader, OffIsTemporary,
       AttemptsLeft
<1>8. CASE WindowHit \/ WindowMissed
  BY <1>1, <1>8 DEF WindowHit, WindowMissed, GoTo, IInv, TypeOK, UploadNeedsBootloader,
                    OffIsTemporary, AttemptsLeft
<1>9. CASE ForcedIapHeartbeat
  <2>1. PICK m \in Answers : /\ get_frame("IAP_HEARTBEAT_ID", m)
                             /\ GoTo(IF m = "IN_IAP_MODE" THEN "upload" ELSE "forced_heartbeat")
    BY <1>9 DEF ForcedIapHeartbeat
  <2>2. /\ UNCHANGED kinetek /\ faults' \in 0..FaultBudget
        /\ m = "IN_IAP_MODE" => kinetek = "iap_hand_held"
    BY <1>1, <2>1, HeartbeatTells, FaultsCounted DEF TypeOK
  <2> QED
    BY <1>1, <1>9, <2>1, <2>2 DEF ForcedIapHeartbeat, GoTo, IInv, TypeOK,
       UploadNeedsBootloader, OffIsTemporary, AttemptsLeft
<1>10. CASE ForcedHeartbeat
  <2>1. PICK m \in Answers :
          /\ get_frame("HEARTBEAT_ID", m)
          /\ \/ /\ m = "HEARTBEAT"
                /\ pc' = "selective"
                /\ CL_status' = "HEARTBEAT_DETECTED"
                /\ forced_mode_attempts' = Counted(forced_mode_attempts, MaxForcedAttempts)
             \/ /\ m # "HEARTBEAT"
                /\ Return("NO_HEARTBEAT_DETECTED")
                /\ UNCHANGED forced_mode_attempts
    BY <1>10 DEF ForcedHeartbeat
  <2>2. /\ UNCHANGED kinetek /\ faults' \in 0..FaultBudget
        /\ m = "HEARTBEAT" => kinetek \in {"running", "resetting"}
    BY <1>1, <2>1, HeartbeatTells, FaultsCounted DEF TypeOK
  <2>3. pc = "forced_heartbeat" /\ UNCHANGED <<iap_mode_attempts, uploaded>>
    BY <1>10 DEF ForcedHeartbeat
  <2>4. CASE m = "HEARTBEAT"
    BY <1>1, <2>1, <2>2, <2>3, <2>4 DEF Counted, MaxForcedAttempts, IInv, TypeOK,
       UploadNeedsBootloader, OffIsTemporary
  <2>5. CASE m # "HEARTBEAT"
    BY <1>1, <2>1, <2>2, <2>3, <2>5 DEF Return, IInv, TypeOK,
       UploadNeedsBootloader, OffIsTemporary, AttemptsLeft
  <2> QED
    BY <2>4, <2>5
<1>11. CASE Selective
  BY <1>1, <1>11 DEF Selective, GoTo, Return, IInv, TypeOK, UploadNeedsBootloader,
                     OffIsTemporary, AttemptsLeft
<1>12. CASE SelectiveHeartbeat \/ LcdIapHeartbeat \/ SelectiveIapHeartbeat
  <2>1. PICK id \in {"HEARTBEAT_ID", "IAP_HEARTBEAT_ID"}, m \in Answers :
          /\ get_frame(id, m)
          /\ \/ /\ id = "IAP_HEARTBEAT_ID" /\ m = "IN_IAP_MODE" /\ GoTo("upload")
             \/ pc' \in {"select", "selective_ids"} /\ UNCHANGED CL_status
             \/ Return("NO_HEARTBEAT_DETECTED") \/ Return("IAP_HEARTBEAT_TIMEOUT")
    BY <1>12 DEF SelectiveHeartbeat, LcdIapHeartbeat, SelectiveIapHeartbeat, GoTo
  <2>2. /\ UNCHANGED kinetek /\ faults' \in 0..FaultBudget
        /\ id = "IAP_HEARTBEAT_ID" /\ m = "IN_IAP_MODE" => kinetek = "iap_hand_held"
    BY <1>1, <2>1, HeartbeatTells, FaultsCounted DEF TypeOK
  <2>3. pc \in SelectiveLabels /\ UNCHANGED <<counters, uploaded>>
    BY <1>12 DEF SelectiveHeartbeat, LcdIapHeartbeat, SelectiveIapHeartbeat
  <2>4. kinetek # "off"
    BY <1>1, <2>3 DEF OffIsTemporary
  <2> QED
    BY <1>1, <2>1, <2>2, <2>3, <2>4 DEF GoTo, Return, IInv, TypeOK,
       UploadNeedsBootloader, OffIsTemporary
<1>13. CASE SendSelective \/ SelectiveIds
  <2>1. Fault \/ UNCHANGED faults
    BY <1>13 DEF SendSelective, SelectiveIds, UseHandHeldIds, Command
  <2>2. faults' \in 0..FaultBudget
    BY <1>1, <2>1, FaultsCounted DEF TypeOK
  <2> QED
    BY <1>1, <1>13, <2>2 DEF SendSelective, SelectiveIds, UseHandHeldIds, Command, GoTo,
       IInv, TypeOK, UploadNeedsBootloader, OffIsTemporary
<1>14. CASE UploadFirmware \/ SkipUpload
  BY <1>1, <1>14 DEF UploadFirmware, SkipUpload, IInv, TypeOK, UploadNeedsBootloader,
                     OffIsTemporary
<1>15. CASE TransmitError
  BY <1>1, <1>15 DEF TransmitError, IInv, TypeOK, UploadNeedsBootloader, OffIsTemporary
<1> QED
  BY <1>2, <1>3, <1>4, <1>5, <1>6, <1>7, <1>8, <1>9, <1>10, <1>11, <1>12, <1>13, <1>14,
     <1>15 DEF Next, Program

\* An end with the Kinetek off is a transmit error of the forced mode: the steps to the
\* result start where it is not off, and so do the sends outside that mode.
LEMMA EndStep ==
  ASSUME IInv, [Next]_vars, pc \notin Ends, pc' \in Ends, kinetek' = "off"
  PROVE  pc' = "exited" /\ pc \in ForcedSends
<1>1. OffIsTemporary /\ OffIsTemporary'
  BY StepKeeps DEF IInv
<1>2. pc' = "exited"
  BY <1>1 DEF OffIsTemporary, Ends
<1>3. TransmitError
  <2>1. CASE UNCHANGED vars
    BY <2>1 DEF vars, Ends
  <2>2. CASE Settle \/ Done
    BY <2>2 DEF Settle, Done, vars, Ends
  <2>3. CASE Program
    BY <1>2, <2>3 DEF Program, LoopTop, Judge, DisableKinetek, EnableKinetek, WindowHit,
       WindowMissed, ForcedIds, UseHandHeldIds, ForcedIapHeartbeat, ForcedHeartbeat,
       Selective, SelectiveHeartbeat, SendSelective, LcdIapHeartbeat, SelectiveIds,
       SelectiveIapHeartbeat, UploadFirmware, SkipUpload, GoTo, Return
  <2> QED
    BY <2>1, <2>2, <2>3 DEF Next
<1>4. kinetek = "off" /\ SendsHere
  BY <1>3 DEF TransmitError
<1> QED
  BY <1>1, <1>2, <1>4 DEF SendsHere, OffIsTemporary, SelectiveLabels, ForcedSends

\* The invariant holds in every state.
THEOREM Invariance == Spec => []IInv
<1>1. Init => IInv
  BY InitEstablishes
<1>2. IInv /\ [Next]_vars => IInv'
  BY StepKeeps
<1> QED
  BY <1>1, <1>2, PTL DEF Spec

\* The state machine's variables keep their types; no status but the two that end
\* an upload comes out of run_iap in IAP mode (KinetekUtility.cpp:249-280).
THEOREM TypeCorrectness == Spec => []TypeOK
<1>1. IInv => TypeOK
  BY DEF IInv
<1> QED
  BY <1>1, Invariance, PTL

\* Upload frames go only to a Kinetek in IAP mode on the hand held programmer's ids,
\* whichever mode got it there and however many frames were lost (IAP.cpp:135-268).
THEOREM UploadOnlyInIapMode == Spec => []UploadNeedsBootloader
<1>1. IInv => UploadNeedsBootloader
  BY DEF IInv
<1> QED
  BY <1>1, Invariance, PTL

\* A program that ends with the Kinetek off was ended by a frame of the forced mode that
\* could not be transmitted; its own loop never gives up there, however many frames are
\* lost (KinetekUtility.cpp:544-573, IAP.cpp:202-248, SocketCanHelper.cpp:136-140).
THEOREM LeftOffOnlyByExit == Spec => OffOnlyByTransmitError
<1>1. IInv /\ [Next]_vars =>
        [pc \notin Ends /\ pc' \in Ends /\ kinetek' = "off" =>
           pc' = "exited" /\ pc \in ForcedSends]_vars
  BY EndStep
<1> QED
  BY <1>1, Invariance, PTL DEF Spec, OffOnlyByTransmitError
=============================================================================
