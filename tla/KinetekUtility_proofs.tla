------------------------ MODULE KinetekUtility_proofs ------------------------
(***************************************************************************)
(* Theorems about the KinetekUtility object, for all command lines and any *)
(* order and number of library calls.                                      *)
(***************************************************************************)
EXTENDS KinetekUtility, TLAPS

\* The flag tells whether the socket is bound.
FlagIsTrue == can_initialized <=> socket # "none"

\* The options are only parsed with the interface open; what is new to a library's
\* caller has not been used.
InterfaceFirst ==
  /\ pc = "options" => can_initialized
  /\ pc \in {"main", "init_key", "options"} => iap # "new"
  /\ pc = "caller" /\ calls = 0 => iap = "null" /\ tool.name = "none"

IInv ==
  TypeOK /\ FlagIsTrue /\ InterfaceFirst /\ ToolsOnOpenSocket /\ ChecksHold
    /\ CommandLineNeverCrashes

LEMMA InitEstablishes == Init => IInv
<1> SUFFICES ASSUME Init PROVE IInv
  OBVIOUS
<1>1. argv \in Seq(Options)
  <2>1. CASE argv \in CommandLines
    BY <2>1, CommandLinesAssumption
  <2>2. CASE argv = <<>>
    BY <2>2
  <2> QED
    BY <2>1, <2>2 DEF Init
<1>2. can_interface \in Interfaces /\ calls \in 0..CallLimit
  BY InterfacesAssumption, CallLimitAssumption DEF Init
<1>3. tool \in [name : Tools, socket : Interfaces \cup {"none"}]
  BY DEF Init, Tools
<1>4. CL_status \in Statuses /\ can_initialized \in BOOLEAN
  BY DEF Init, Statuses
<1>5. TypeOK
  BY <1>1, <1>2, <1>3, <1>4 DEF Init, TypeOK
<1> QED
  BY <1>5 DEF Init, IInv, FlagIsTrue, InterfaceFirst, ToolsOnOpenSocket, ChecksHold,
              CommandLineNeverCrashes

\* The next option is one of the options, and so are those after it.
LEMMA NextOption ==
  ASSUME argv \in Seq(Options), argv # <<>>
  PROVE  Head(argv) \in Options /\ Tail(argv) \in Seq(Options)
OBVIOUS

\* init_can keeps the flag and the socket together.
LEMMA FlagKept ==
  ASSUME can_initialized \in BOOLEAN, socket \in Interfaces \cup {"none"}, FlagIsTrue,
         NEW n \in Interfaces, init_can(n)
  PROVE  /\ FlagIsTrue'
         /\ can_initialized' \in BOOLEAN /\ socket' \in Interfaces \cup {"none"}
         /\ CL_status' \in {"INIT_CAN_SUCCESS", "INIT_CAN_FAIL"}
         /\ CL_status' = "INIT_CAN_SUCCESS" => can_initialized'
         /\ can_initialized => can_initialized'
BY InterfacesAssumption DEF init_can, FlagIsTrue

\* What a call of a tool, from an option or a library's caller, does to the object.
ToolStep ==
  /\ UNCHANGED <<can_initialized, can_interface, socket, param_num>>
  /\ iap' \in {"null", "new", "loaded"}
  /\ iap' # iap => iap # "new" /\ iap' = (IF can_initialized THEN "loaded" ELSE "new")
  /\ CL_status' \in Statuses
  /\ \/ UNCHANGED tool
     \/ /\ tool' \in [name : Tools, socket : Interfaces \cup {"none"}]
        /\ tool'.name # "none" /\ tool'.socket = socket
        /\ can_initialized \/ tool'.name = "live_data"

LEMMA ToolsStep ==
  ASSUME TypeOK,
         \/ read_stu_to_file \/ write_stu_from_file \/ reset_xt_can \/ toggle_estop
         \/ get_live_data \/ run_iap(IapStatuses) \/ run_iap(AttemptStatuses)
         \/ \E n \in Params : get_stu_param(n)
         \/ \E n, v \in Params \cup {-1} : set_stu_param(n, v)
  PROVE  ToolStep
<1> USE DEF TypeOK, ToolStep, Checked, Used, Kept, NoIap, Statuses, Tools, IapStatuses
<1>1. CASE read_stu_to_file \/ write_stu_from_file
  BY <1>1 DEF read_stu_to_file, write_stu_from_file
<1>2. CASE reset_xt_can \/ toggle_estop \/ get_live_data
  BY <1>2 DEF reset_xt_can, toggle_estop, get_live_data
<1>3. CASE run_iap(IapStatuses) \/ run_iap(AttemptStatuses)
  BY <1>3 DEF run_iap, AttemptStatuses
<1>4. CASE \E n \in Params : get_stu_param(n)
  BY <1>4 DEF get_stu_param
<1>5. CASE \E n, v \in Params \cup {-1} : set_stu_param(n, v)
  BY <1>5 DEF set_stu_param
<1> QED
  BY <1>1, <1>2, <1>3, <1>4, <1>5

\* One option with its tool.
LEMMA ToolOptionKeeps ==
  ASSUME IInv, ToolStep, pc = "options", pc' \in {"options", "report"},
         argv \in Seq(Options), argv # <<>>, argv' = Tail(argv), UNCHANGED <<calls, printed>>
  PROVE  IInv'
<1>1. TypeOK /\ FlagIsTrue /\ InterfaceFirst /\ ToolsOnOpenSocket /\ ChecksHold
  BY DEF IInv
<1>2. argv' \in Seq(Options)
  BY NextOption
<1>3. can_initialized /\ socket # "none"
  BY <1>1 DEF FlagIsTrue, InterfaceFirst
<1>4. TypeOK'
  BY <1>1, <1>2 DEF TypeOK, ToolStep
<1>5. FlagIsTrue' /\ InterfaceFirst'
  BY <1>1, <1>3 DEF FlagIsTrue, InterfaceFirst, ToolStep
<1>6. ToolsOnOpenSocket' /\ ChecksHold' /\ CommandLineNeverCrashes'
  BY <1>1, <1>3 DEF ToolsOnOpenSocket, ChecksHold, CommandLineNeverCrashes, ToolStep
<1> QED
  BY <1>4, <1>5, <1>6 DEF IInv

LEMMA StepKeeps == IInv /\ [Next]_vars => IInv'
<1> SUFFICES ASSUME IInv, [Next]_vars PROVE IInv'
  OBVIOUS
<1>1. /\ TypeOK /\ FlagIsTrue /\ InterfaceFirst
      /\ ToolsOnOpenSocket /\ ChecksHold /\ CommandLineNeverCrashes
  BY DEF IInv
<1>2. CASE UNCHANGED vars \/ Ended
  BY <1>1, <1>2 DEF Ended, vars, IInv, TypeOK, FlagIsTrue, InterfaceFirst, ToolsOnOpenSocket,
                    ChecksHold, CommandLineNeverCrashes
<1>3. CASE MainInitCan \/ InitKey
  <2>1. /\ init_can(can_interface) /\ pc \in {"main", "init_key"}
        /\ pc' \in {"init_key", "options", "report"}
        /\ pc' = "options" => CL_status' = "INIT_CAN_SUCCESS"
        /\ UNCHANGED <<can_interface, argv, calls, printed>>
    BY <1>3 DEF MainInitCan, InitKey
  <2>2. /\ FlagIsTrue' /\ can_initialized' \in BOOLEAN /\ socket' \in Interfaces \cup {"none"}
        /\ CL_status' \in {"INIT_CAN_SUCCESS", "INIT_CAN_FAIL"}
        /\ CL_status' = "INIT_CAN_SUCCESS" => can_initialized'
    BY <1>1, <2>1, FlagKept DEF TypeOK
  <2>3. UNCHANGED <<iap, param_num, tool>>
    BY <2>1 DEF init_can
  <2> QED
    BY <1>1, <2>1, <2>2, <2>3 DEF IInv, TypeOK, Statuses, InterfaceFirst, ToolsOnOpenSocket,
       ChecksHold, CommandLineNeverCrashes
<1>4. CASE ReadParam \/ ReadFile \/ WriteHex \/ WriteStu \/ Value \/ Cycle \/ Estop \/ LiveData
  <2>1. /\ pc = "options" /\ argv # <<>> /\ argv' = Tail(argv)
        /\ pc' \in {"options", "report"} /\ UNCHANGED <<calls, printed>>
    BY <1>4 DEF ReadParam, ReadFile, WriteHex, WriteStu, WriteFile, Value, Cycle, Estop,
       LiveData, Option, More, NoMore, MoreIf
  <2>2. argv \in Seq(Options) /\ Head(argv) \in Options
    BY <1>1, <2>1, NextOption DEF TypeOK
  <2>3. num \in Params \cup {-1} /\ param_num \in Params \cup {-1}
    BY <1>1, <2>2 DEF TypeOK, Options, num
  <2>4. num >= 0 => num \in Params
    BY <2>3
  <2>5. ToolStep
    BY <1>1, <1>4, <2>3, <2>4, ToolsStep DEF ReadParam, ReadFile, WriteHex, WriteStu,
       WriteFile, Value, Cycle, Estop, LiveData
  <2> QED
    BY <2>1, <2>2, <2>5, ToolOptionKeeps
<1>5. CASE NameParam \/ WriteOther \/ ValueOfNothing
  <2>1. /\ pc = "options" /\ argv # <<>> /\ argv' = Tail(argv) /\ NoCall
        /\ pc' \in {"options", "report"} /\ UNCHANGED <<calls, printed>>
    BY <1>5 DEF NameParam, WriteOther, WriteFile, ValueOfNothing, Option, More, NoMore
  <2>2. Head(argv) \in Options /\ argv' \in Seq(Options)
    BY <1>1, <2>1, NextOption DEF TypeOK
  <2>3. param_num' \in Params \cup {-1}
    BY <1>1, <1>5, <2>2 DEF NameParam, WriteOther, ValueOfNothing, TypeOK, Options, num
  <2> QED
    BY <1>1, <2>1, <2>2, <2>3 DEF NoCall, IInv, TypeOK, FlagIsTrue, InterfaceFirst,
       ToolsOnOpenSocket, ChecksHold, CommandLineNeverCrashes
<1>6. CASE Interface
  <2>1. /\ pc = "options" /\ argv # <<>> /\ argv' = Tail(argv) /\ Head(argv).key = "i"
        /\ can_interface' = name /\ init_can(name)
        /\ pc' \in {"options", "report"} /\ UNCHANGED <<calls, printed>>
    BY <1>6 DEF Interface, Option, More, NoMore, MoreIf
  <2>2. Head(argv) \in Options /\ argv' \in Seq(Options)
    BY <1>1, <2>1, NextOption DEF TypeOK
  <2>3. name \in Interfaces
    BY <2>1, <2>2 DEF Options, name
  <2>4. /\ FlagIsTrue' /\ can_initialized' \in BOOLEAN /\ socket' \in Interfaces \cup {"none"}
        /\ CL_status' \in {"INIT_CAN_SUCCESS", "INIT_CAN_FAIL"}
        /\ can_initialized => can_initialized'
    BY <1>1, <2>1, <2>3, FlagKept DEF TypeOK
  <2>5. UNCHANGED <<iap, param_num, tool>>
    BY <2>1 DEF init_can
  <2> QED
    BY <1>1, <2>1, <2>2, <2>3, <2>4, <2>5 DEF IInv, TypeOK, Statuses, InterfaceFirst,
       ToolsOnOpenSocket, ChecksHold, CommandLineNeverCrashes
<1>7. CASE OptionsEnd \/ Exit \/ Report
  <2>1. /\ NoCall /\ UNCHANGED <<param_num, argv, calls>>
        /\ pc' \in {"report", "exited"} /\ printed' \in {"none", "S", "F"}
    BY <1>1, <1>7 DEF OptionsEnd, Exit, Report, NoMore, TypeOK
  <2> QED
    BY <1>1, <2>1 DEF NoCall, IInv, TypeOK, FlagIsTrue, InterfaceFirst,
       ToolsOnOpenSocket, ChecksHold, CommandLineNeverCrashes
<1>8. CASE Call
  <2>1. /\ pc = "caller" /\ calls' = calls + 1 /\ calls' \in 1..CallLimit
        /\ UNCHANGED <<argv, pc, printed>>
    BY <1>1, <1>8, CallLimitAssumption DEF Call, TypeOK
  <2>2. CASE init_can(can_interface) /\ UNCHANGED can_interface
    <3>1. /\ FlagIsTrue' /\ can_initialized' \in BOOLEAN
          /\ socket' \in Interfaces \cup {"none"}
          /\ CL_status' \in {"INIT_CAN_SUCCESS", "INIT_CAN_FAIL"}
      BY <1>1, <2>2, FlagKept DEF TypeOK
    <3>2. UNCHANGED <<iap, param_num, tool>>
      BY <2>2 DEF init_can
    <3> QED
      BY <1>1, <2>1, <2>2, <3>1, <3>2 DEF IInv, TypeOK, Statuses, InterfaceFirst,
         ToolsOnOpenSocket, ChecksHold, CommandLineNeverCrashes
  <2>3. CASE \E n \in Interfaces : set_can_interface(n)
    BY <1>1, <2>1, <2>3 DEF set_can_interface, IInv, TypeOK, FlagIsTrue, InterfaceFirst,
       ToolsOnOpenSocket, ChecksHold, CommandLineNeverCrashes
  <2>4. CASE ToolStep
    BY <1>1, <2>1, <2>4 DEF ToolStep, IInv, TypeOK, FlagIsTrue, InterfaceFirst,
       ToolsOnOpenSocket, ChecksHold, CommandLineNeverCrashes
  <2> QED
    <3>1. CASE \E n \in Params : get_stu_param(n)
      BY <1>1, <2>4, <3>1, ToolsStep
    <3>2. CASE \E n \in Params : set_stu_param(n, n)
      BY <1>1, <2>4, <3>2, ToolsStep
    <3>3. CASE \/ read_stu_to_file \/ write_stu_from_file \/ reset_xt_can \/ toggle_estop
               \/ get_live_data \/ run_iap(IapStatuses)
      BY <1>1, <2>4, <3>3, ToolsStep
    <3> QED
      BY <1>8, <2>2, <2>3, <3>1, <3>2, <3>3 DEF Call
<1>9. CASE Crash
  <2>1. /\ iap = "new" /\ pc \in {"caller", "options"} /\ pc' = "crashed"
        /\ NoCall /\ UNCHANGED <<param_num, argv, calls, printed>>
    BY <1>9 DEF Crash, CallsRunIap
  <2> QED
    BY <1>1, <2>1 DEF NoCall, IInv, TypeOK, FlagIsTrue, InterfaceFirst,
       ToolsOnOpenSocket, ChecksHold, CommandLineNeverCrashes
<1> QED
  BY <1>2, <1>3, <1>4, <1>5, <1>6, <1>7, <1>8, <1>9 DEF Next, CommandLine

\* The invariant holds in every state.
THEOREM Invariance == Spec => []IInv
<1>1. Init => IInv
  BY InitEstablishes
<1>2. IInv /\ [Next]_vars => IInv'
  BY StepKeeps
<1> QED
  BY <1>1, <1>2, PTL DEF Spec

\* The variables keep their types: in particular every status the layers below return
\* is one the object knows (KinetekUtility.cpp:78-600).
THEOREM TypeCorrectness == Spec => []TypeOK
<1>1. IInv => TypeOK
  BY DEF IInv
<1> QED
  BY <1>1, Invariance, PTL

\* From the command line no tool runs on a socket that was not opened, for all command
\* lines and whatever interfaces come up or go down (KinetekUtility.cpp:501-511).
THEOREM CommandLineOpensFirst == Spec => []ToolsOnOpenSocket
<1>1. IInv => ToolsOnOpenSocket
  BY DEF IInv
<1> QED
  BY <1>1, Invariance, PTL

\* In the library no tool but the live data does, in any order of calls
\* (KinetekUtility.cpp:51-65, 238-243).
THEOREM ToolsCheckTheFlag == Spec => []ChecksHold
<1>1. IInv => ChecksHold
  BY DEF IInv
<1> QED
  BY <1>1, Invariance, PTL

\* The command line never clears an IAP object that has no reader
\* (KinetekUtility.cpp:229-236).
THEOREM NoNullReader == Spec => []CommandLineNeverCrashes
<1>1. IInv => CommandLineNeverCrashes
  BY DEF IInv
<1> QED
  BY <1>1, Invariance, PTL

-----------------------------------------------------------------------------
(* The verdict: the status is an upload's as long as the last tool was one. *)

StatusOfTheLast ==
  /\ CL_status = "UPLOAD_COMPLETE" => tool.name = "iap"
  /\ printed # "none" => pc = "exited"
  /\ SuccessIsTheUpload

LEMMA ToolLeavesItsStatus ==
  ASSUME NEW t, NEW statuses, "UPLOAD_COMPLETE" \in statuses => t = "iap",
         Checked(t, statuses) \/ Used(t, statuses)
  PROVE  CL_status' = "UPLOAD_COMPLETE" => tool'.name = "iap"
BY DEF Checked, Used

LEMMA StatusStep == StatusOfTheLast /\ [Next]_vars => StatusOfTheLast'
<1> SUFFICES ASSUME StatusOfTheLast, [Next]_vars PROVE StatusOfTheLast'
  OBVIOUS
<1>1. CASE UNCHANGED <<CL_status, tool, printed>> /\ (pc' = pc \/ pc # "exited")
  BY <1>1 DEF StatusOfTheLast, SuccessIsTheUpload
<1>2. CASE /\ pc # "exited" /\ UNCHANGED printed
           /\ CL_status' = "UPLOAD_COMPLETE" => tool'.name = "iap"
  BY <1>2 DEF StatusOfTheLast, SuccessIsTheUpload
<1>3. CASE UNCHANGED vars \/ Ended
  BY <1>1, <1>3 DEF Ended, vars
<1>4. CASE Report
  BY <1>4 DEF Report, NoCall, StatusOfTheLast, SuccessIsTheUpload
<1>5. CASE OptionsEnd \/ Exit \/ Crash \/ NameParam \/ WriteOther \/ ValueOfNothing
  BY <1>1, <1>5 DEF OptionsEnd, Exit, Crash, CallsRunIap, NameParam, WriteOther, WriteFile,
                    ValueOfNothing, Option, NoCall, More, NoMore
<1>6. CASE MainInitCan \/ InitKey \/ Interface
  BY <1>2, <1>6 DEF MainInitCan, InitKey, Interface, init_can, Option
<1>7. CASE ReadParam \/ ReadFile \/ WriteStu \/ Value \/ Cycle \/ Estop \/ LiveData
  BY <1>2, <1>7, ToolLeavesItsStatus
  DEF ReadParam, ReadFile, WriteStu, WriteFile, Value, Cycle, Estop, LiveData, Option,
      get_stu_param, read_stu_to_file, write_stu_from_file, set_stu_param, reset_xt_can,
      toggle_estop, get_live_data
<1>8. CASE WriteHex
  BY <1>2, <1>8, ToolLeavesItsStatus DEF WriteHex, WriteFile, Option, run_iap
<1>9. CASE Call
  <2>1. pc # "exited" /\ UNCHANGED printed
    BY <1>9 DEF Call
  <2>2. CASE \E n \in Interfaces : set_can_interface(n)
    BY <1>1, <2>1, <2>2 DEF set_can_interface
  <2>3. CASE init_can(can_interface)
    BY <1>2, <2>1, <2>3 DEF init_can
  <2>4. CASE (\E n \in Params : get_stu_param(n) \/ set_stu_param(n, n))
              \/ read_stu_to_file \/ write_stu_from_file \/ reset_xt_can \/ toggle_estop
              \/ get_live_data \/ run_iap(IapStatuses)
    BY <1>2, <2>1, <2>4, ToolLeavesItsStatus
    DEF get_stu_param, set_stu_param, read_stu_to_file, write_stu_from_file, reset_xt_can,
        toggle_estop, get_live_data, run_iap
  <2> QED
    BY <1>9, <2>2, <2>3, <2>4 DEF Call
<1> QED
  BY <1>3, <1>4, <1>5, <1>6, <1>7, <1>8, <1>9 DEF Next, CommandLine

\* The verdict S is always about an upload that was the last thing to run, for all
\* command lines (main.cpp:42-49).
THEOREM VerdictIsTheUpload == Spec => []SuccessIsTheUpload
<1>1. Init => StatusOfTheLast
  BY DEF Init, StatusOfTheLast, SuccessIsTheUpload
<1>2. StatusOfTheLast => SuccessIsTheUpload
  BY DEF StatusOfTheLast
<1> QED
  BY <1>1, <1>2, StatusStep, PTL DEF Spec
=============================================================================
