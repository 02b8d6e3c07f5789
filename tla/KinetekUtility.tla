--------------------------- MODULE KinetekUtility ---------------------------
(***************************************************************************)
(* The KinetekUtility object in its two uses (KinetekUtility.h:34-41):     *)
(*   - the command line: main opens the interface, parse_args runs a tool  *)
(*     per option, main prints the result;                                 *)
(*   - a library, whose caller calls init_can and the tools in any order.  *)
(* What a tool does on the bus is left to the other modules: here it uses  *)
(* the socket it finds, and returns one of its statuses.                   *)
(***************************************************************************)
EXTENDS Integers, Sequences

CONSTANTS
  Uses,          \* the uses: "command_line", "library"
  CommandLines,  \* the sequences of options that may be given
  Interfaces,    \* the names of CAN interfaces
  Params,        \* the numbers a user may give for a parameter's
  CallLimit      \* bound: the calls of a library's caller

\* An option is its key, the number that is_number makes of its argument (-1: none),
\* and the name of a file or an interface.
Options ==
  [key : {"r", "w", "v", "c", "h", "e"}, num : Params \cup {-1}, name : {"hex", "stu", "other"}]
    \cup [key : {"i"}, num : Params \cup {-1}, name : Interfaces]

ASSUME UsesAssumption == Uses \subseteq {"command_line", "library"}
ASSUME CommandLinesAssumption == CommandLines \subseteq Seq(Options)
ASSUME InterfacesAssumption == "none" \notin Interfaces /\ "can0" \in Interfaces
ASSUME ParamsAssumption == Params \subseteq Nat
ASSUME CallLimitAssumption == CallLimit \in Nat

VARIABLES
  can_initialized, can_interface,
  socket,      \* the interface the socket is bound to, or "none"
  iap,         \* the IAP object: "null", "new" (without a hex reader) or "loaded"
  param_num,
  CL_status,   \* the status of the last call, also in the library
  argv,        \* the options not yet parsed
  pc, calls,
  tool,        \* the last tool that used the socket, and the interface that was
  printed      \* main's verdict

vars == <<can_initialized, can_interface, socket, iap, param_num, CL_status, argv, pc,
          calls, tool, printed>>

Init ==
  /\ can_initialized = FALSE
  /\ can_interface = "can0"
  /\ socket = "none"
  /\ iap = "null"
  /\ param_num = -1
  /\ CL_status = "none"
  /\ \/ "command_line" \in Uses /\ pc = "main" /\ argv \in CommandLines
     \/ "library" \in Uses /\ pc = "caller" /\ argv = <<>>
  /\ calls = 0
  /\ tool = [name |-> "none", socket |-> "none"]
  /\ printed = "none"

-----------------------------------------------------------------------------
(* The object's operations. *)

\* Opens the interface, which may be down, once: later calls succeed and change nothing.
init_can(n) ==
  /\ \/ ~can_initialized /\ can_initialized' = TRUE /\ socket' = n
     \/ UNCHANGED <<can_initialized, socket>>
  /\ CL_status' = IF can_initialized' THEN "INIT_CAN_SUCCESS" ELSE "INIT_CAN_FAIL"
  /\ UNCHANGED <<iap, param_num, tool>>

Used(t, statuses) ==
  /\ tool' = [name |-> t, socket |-> socket]
  /\ CL_status' \in statuses

\* Most tools return at once unless the interface was opened.
Checked(t, statuses) ==
  \/ can_initialized /\ Used(t, statuses)
  \/ ~can_initialized /\ CL_status' = "INIT_CAN_FAIL" /\ UNCHANGED tool

Kept == UNCHANGED <<can_initialized, can_interface, socket, param_num>>
NoIap == Kept /\ UNCHANGED iap

\* A mutant: the case of -c does not store the status.
M_reset_xt_can ==
  /\ tool' = [name |-> "reset", socket |-> socket]
  /\ NoIap /\ UNCHANGED CL_status

read_stu_to_file == Checked("read_stu", {"READ_SUCCESS", "READ_FAIL"}) /\ NoIap
write_stu_from_file == Checked("write_stu", {"WRITE_SUCCESS", "WRITE_FAIL"}) /\ NoIap
reset_xt_can == Checked("reset", {"NO_ERROR"}) /\ NoIap
toggle_estop == Checked("estop", {"NO_ERROR"}) /\ NoIap

\* It runs until a heartbeat is missing, or for ever, and checks nothing.
get_live_data == Used("live_data", {"NO_HEARTBEAT_DETECTED"}) /\ NoIap

\* The numbers that are accepted: others end the whole program (Exit).
Valid(n) == 0 <= n /\ n <= 254

get_stu_param(n) ==
  /\ can_initialized => Valid(n)
  /\ Checked("get_param", {"READ_SUCCESS", "READ_FAIL"})
  /\ NoIap

set_stu_param(n, value) ==
  /\ can_initialized => Valid(n) /\ Valid(value)
  /\ Checked("set_param", {"WRITE_SUCCESS", "WRITE_FAIL", "NO_ERROR"})
  /\ NoIap

\* The first call makes the IAP object, the first with an open interface its reader;
\* every later call begins by clearing both (Crash).
run_iap(statuses) ==
  /\ iap # "new"
  /\ iap' = IF can_initialized THEN "loaded" ELSE "new"
  /\ Checked("iap", statuses)
  /\ Kept

\* What one call returns, and what the attempts of -w FILE.hex end with (IapMode).
IapStatuses ==
  {"UPLOAD_COMPLETE", "UPLOAD_ERROR", "IAP_HEARTBEAT_TIMEOUT", "HEARTBEAT_DETECTED",
   "NO_HEARTBEAT_DETECTED"}
AttemptStatuses == IapStatuses \ {"HEARTBEAT_DETECTED"}

-----------------------------------------------------------------------------
(* The command line. *)

\* main opens the default interface.
MainInitCan ==
  /\ pc = "main"
  /\ init_can(can_interface)
  /\ pc' = "init_key"
  /\ UNCHANGED <<can_interface, argv, calls, printed>>

\* A mutant: the options are parsed without an interface, too.
M_InitKey ==
  /\ pc = "init_key"
  /\ init_can(can_interface)
  /\ pc' = "options"
  /\ UNCHANGED <<can_interface, argv, calls, printed>>

\* argp's first call of parse_opt is with its own key ARGP_KEY_INIT: this is the first
\* call, which is not `i', so the default interface is opened, or the parsing ends.
InitKey ==
  /\ pc = "init_key"
  /\ init_can(can_interface)
  /\ pc' = IF CL_status' = "INIT_CAN_SUCCESS" THEN "options" ELSE "report"
  /\ UNCHANGED <<can_interface, argv, calls, printed>>

\* The next option; its case returns 0 for more of them or -1 for no more.
Option(key) ==
  /\ pc = "options" /\ argv # <<>>
  /\ Head(argv).key = key
  /\ argv' = Tail(argv)
  /\ UNCHANGED <<calls, printed>>

More == pc' = "options"
NoMore == pc' = "report"
num == Head(argv).num
name == Head(argv).name

\* A case that calls no tool.
NoCall == UNCHANGED <<can_initialized, can_interface, socket, iap, CL_status, tool>>

ReadParam == Option("r") /\ num >= 0 /\ get_stu_param(num) /\ More
ReadFile == Option("r") /\ num < 0 /\ read_stu_to_file /\ More
NameParam == Option("w") /\ num >= 0 /\ param_num' = num /\ NoCall /\ More
WriteFile(file) == Option("w") /\ num < 0 /\ name = file
WriteHex == WriteFile("hex") /\ run_iap(AttemptStatuses) /\ More
WriteStu == WriteFile("stu") /\ write_stu_from_file /\ More
WriteOther == WriteFile("other") /\ NoCall /\ UNCHANGED param_num /\ NoMore
Value == Option("v") /\ param_num # -1 /\ set_stu_param(param_num, num) /\ More
ValueOfNothing == Option("v") /\ param_num = -1 /\ NoCall /\ UNCHANGED param_num /\ NoMore
MoreIf(status) == IF CL_status' = status THEN More ELSE NoMore
Cycle == Option("c") /\ reset_xt_can /\ MoreIf("NO_ERROR")
Estop == Option("e") /\ toggle_estop /\ MoreIf("NO_ERROR")
LiveData == Option("h") /\ get_live_data /\ NoMore
Interface ==
  /\ Option("i")
  /\ can_interface' = name
  /\ init_can(name)
  /\ MoreIf("INIT_CAN_SUCCESS")

OptionsEnd ==
  /\ pc = "options" /\ argv = <<>>
  /\ NoCall /\ NoMore
  /\ UNCHANGED <<param_num, argv, calls, printed>>

\* A number out of range, a file that cannot be loaded, or a user who quits the live
\* data ends the program without a verdict.
ExitsInATool ==
  CASE Head(argv).key = "r" -> can_initialized /\ num > 254
    [] Head(argv).key = "v" ->
         can_initialized /\ param_num # -1 /\ ~(Valid(param_num) /\ Valid(num))
    [] Head(argv).key = "w" -> can_initialized /\ num < 0 /\ name = "hex" /\ iap # "new"
    [] Head(argv).key = "h" -> TRUE
    [] OTHER -> FALSE

Exit ==
  /\ \/ pc = "caller" /\ calls < CallLimit
     \/ pc = "options" /\ argv # <<>> /\ ExitsInATool
  /\ pc' = "exited"
  /\ NoCall /\ UNCHANGED <<param_num, argv, calls, printed>>

Report ==
  /\ pc = "report"
  /\ printed' = IF CL_status = "UPLOAD_COMPLETE" THEN "S" ELSE "F"
  /\ pc' = "exited"
  /\ NoCall /\ UNCHANGED <<param_num, argv, calls>>

CommandLine ==
  \/ MainInitCan \/ InitKey \/ OptionsEnd \/ Exit \/ Report
  \/ ReadParam \/ ReadFile \/ NameParam \/ WriteHex \/ WriteStu \/ WriteOther
  \/ Value \/ ValueOfNothing \/ Cycle \/ Estop \/ LiveData \/ Interface

-----------------------------------------------------------------------------
(* The library. *)

set_can_interface(n) ==
  /\ can_interface' = n
  /\ UNCHANGED <<can_initialized, socket, iap, param_num, CL_status, tool>>

Call ==
  /\ pc = "caller" /\ calls < CallLimit
  /\ calls' = calls + 1
  /\ \/ init_can(can_interface) /\ UNCHANGED can_interface
     \/ \E n \in Interfaces : set_can_interface(n)
     \/ \E n \in Params : get_stu_param(n) \/ set_stu_param(n, n)
     \/ read_stu_to_file \/ write_stu_from_file \/ reset_xt_can \/ toggle_estop
     \/ get_live_data
     \/ run_iap(IapStatuses)
  /\ UNCHANGED <<argv, pc, printed>>

CallsRunIap ==
  \/ pc = "caller" /\ calls < CallLimit
  \/ pc = "options" /\ argv # <<>> /\ Head(argv).key = "w" /\ num < 0 /\ name = "hex"

\* A run_iap on an object without a reader dereferences a null pointer.
Crash ==
  /\ iap = "new" /\ CallsRunIap
  /\ pc' = "crashed"
  /\ NoCall /\ UNCHANGED <<param_num, argv, calls, printed>>

Ended ==
  /\ \/ pc \in {"exited", "crashed"}
     \/ pc = "caller" /\ calls = CallLimit
  /\ UNCHANGED vars

Next == CommandLine \/ Call \/ Crash \/ Ended

Spec == Init /\ [][Next]_vars

-----------------------------------------------------------------------------
Statuses ==
  {"none", "INIT_CAN_SUCCESS", "INIT_CAN_FAIL", "READ_SUCCESS", "READ_FAIL",
   "WRITE_SUCCESS", "WRITE_FAIL", "NO_ERROR"} \cup IapStatuses

Tools ==
  {"none", "read_stu", "write_stu", "reset", "estop", "live_data", "get_param",
   "set_param", "iap"}

TypeOK ==
  /\ can_initialized \in BOOLEAN
  /\ can_interface \in Interfaces
  /\ socket \in Interfaces \cup {"none"}
  /\ iap \in {"null", "new", "loaded"}
  /\ param_num \in Params \cup {-1}
  /\ CL_status \in Statuses
  /\ argv \in Seq(Options)
  /\ pc \in {"main", "init_key", "options", "report", "exited", "crashed", "caller"}
  /\ calls \in 0..CallLimit
  /\ tool \in [name : Tools, socket : Interfaces \cup {"none"}]
  /\ printed \in {"none", "S", "F"}

\* Whatever the options and whichever interfaces exist, the command line runs no tool on
\* a socket that was not opened (KinetekUtility.cpp:501-511, main.cpp:37).
ToolsOnOpenSocket == calls = 0 /\ tool.name # "none" => tool.socket # "none"

\* The same for a library's caller, in any order of calls, for every tool that begins
\* with the check (KinetekUtility.cpp:238, 291, 320, 348, 385, 416, 429).
ChecksHold == tool.name \notin {"none", "live_data"} => tool.socket # "none"

\* The verdict S is about the last tool that ran, and that was an upload: no status of
\* an earlier one is left over (main.cpp:42-49).
SuccessIsTheUpload == printed = "S" => tool.name = "iap"

\* The program never comes to the null reader of an IAP object: from the command line
\* the interface is open before the first run_iap (KinetekUtility.cpp:229-236, 501-511).
CommandLineNeverCrashes == calls = 0 => pc # "crashed"

\* A caller who is told "Call init_can" and does so may use the tool then
\* (KinetekUtility.cpp:241).
SecondCallSafe == can_initialized => pc # "crashed"
=============================================================================
