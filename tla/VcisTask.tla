------------------------------ MODULE VcisTask ------------------------------
(***************************************************************************)
(* vcis-util from its command line to its exit: CU_COMMAND.c, the          *)
(* scheduler of CU_TASK.c, main.c, and the six tasks.  A step of the main  *)
(* loop is one call of CU_TASK_update; the bus and the node of VcisSdo act *)
(* between two of them.                                                    *)
(*                                                                         *)
(* task_details is a local of main that nothing clears: what parseArgs and *)
(* the tasks do not set is whatever the stack holds.  -i and -p only say   *)
(* which interface and which sub-index and are left out.                   *)
(***************************************************************************)
EXTENDS VcisSdo, Sequences

CONSTANT CommandLines   \* sequences of options: key, numeric argument, file

VARIABLES
  argv, optind,    \* the command line, and the option parsed next
  pc, exit_code,
  taskEntriesRequested,
  nodeID, options, programData, step, index, timeoutSec,   \* of task_details
  programFilename,
  printed,         \* what the user was told: info entries, the verdict on the program
  sent             \* commands sent besides the SDO transfers

details == <<nodeID, options, programData, step, index, timeoutSec, programFilename>>
told == <<printed, sent>>
sdoVars == <<sdo_process, clientVars, nodeVars>>
vars == <<argv, optind, pc, exit_code, taskEntriesRequested, details, told, sdoVars>>

taskEntries == <<"info", "program", "reset", "state", "test", "estop">>
Tasks == {taskEntries[i] : i \in 1..Len(taskEntries)}
DEFAULT_SERVER_NODE_ID == 73
BYTE == 256

\* A file's worth for the program task.
Files == {"missing", "large", "good"}
Keys == {"f", "n", "d", "r", "s", "t", "e", "v"}

ASSUME CommandLinesAssumption ==
  CommandLines \subseteq Seq([key : Keys, arg : Nat, file : Files])

Init ==
  /\ SdoInit
  /\ argv \in CommandLines
  /\ optind = 1
  /\ pc = "parse"
  /\ exit_code = "none"
  /\ taskEntriesRequested = [t \in Tasks |-> "NO_ERROR"]
  /\ nodeID = DEFAULT_SERVER_NODE_ID
  /\ options = 0
  /\ programData \in {"junk", "null"}
  /\ step = "junk"
  /\ index = 0
  /\ timeoutSec \in {"past", "soon", "never"}
  /\ programFilename = "missing"
  /\ printed = <<>>
  /\ sent = <<>>

-----------------------------------------------------------------------------
(* CU_COMMAND.c *)

Exit(code) == pc' = "exited" /\ exit_code' = code
Stay == UNCHANGED <<pc, exit_code>>

addTask(t) ==
  taskEntriesRequested' = [taskEntriesRequested EXCEPT ![t] = "PENDING"]

TaskOf == [f |-> "program", d |-> "info", r |-> "reset", s |-> "state", t |-> "test", e |-> "estop"]

Opt == argv[optind]

ParseOption(keys) ==
  /\ pc = "parse" /\ optind <= Len(argv)
  /\ Opt.key \in keys
  /\ optind' = optind + 1
  /\ UNCHANGED <<argv, programData, step, index, timeoutSec, told, sdoVars>>

ParseTask ==
  /\ ParseOption({"d", "r"})
  /\ addTask(TaskOf[Opt.key])
  /\ Stay /\ UNCHANGED <<nodeID, options, programFilename>>

ParseFile ==
  /\ ParseOption({"f"})
  /\ programFilename' = Opt.file
  /\ addTask("program")
  /\ Stay /\ UNCHANGED <<nodeID, options>>

M_ParseCommand ==
  /\ ParseOption({"s", "t", "e"})
  /\ options' = IF taskEntriesRequested[TaskOf[Opt.key]] = "PENDING" THEN options ELSE Opt.arg
  /\ addTask(TaskOf[Opt.key])
  /\ Stay /\ UNCHANGED <<nodeID, programFilename>>

\* The three commands keep their argument in the same place.
ParseCommand ==
  /\ ParseOption({"s", "t", "e"})
  /\ options' = Opt.arg
  /\ addTask(TaskOf[Opt.key])
  /\ Stay /\ UNCHANGED <<nodeID, programFilename>>

ParseNode ==
  /\ ParseOption({"n"})
  /\ nodeID' = Opt.arg % BYTE
  /\ Stay /\ UNCHANGED <<options, programFilename, taskEntriesRequested>>

ParseVersion ==
  /\ ParseOption({"v"})
  /\ Exit("success")
  /\ UNCHANGED <<nodeID, options, programFilename, taskEntriesRequested>>

\* canopen_init: the interface opens, or the program exits.
canopen_init ==
  /\ pc = "parse" /\ optind > Len(argv)
  /\ (pc' = "loop" /\ UNCHANGED exit_code) \/ Exit("failure")
  /\ UNCHANGED <<argv, optind, taskEntriesRequested, details, told, sdoVars>>

-----------------------------------------------------------------------------
(* CU_TASK_update, and what main makes of what it returns *)

\* The first entry that is requested and not finished: the order indicates priority.
Executes(t) ==
  /\ pc = "loop"
  /\ \E i \in 1..Len(taskEntries) :
       /\ t = taskEntries[i]
       /\ taskEntriesRequested[t] \in {"PENDING", "CONTINUE"}
       /\ \A j \in 1..(i - 1) :
            taskEntriesRequested[taskEntries[j]] \notin {"PENDING", "CONTINUE"}
  /\ UNCHANGED <<argv, optind>>

Prepares(t) == Executes(t) /\ taskEntriesRequested[t] = "PENDING"
Updates(t) == Executes(t) /\ taskEntriesRequested[t] = "CONTINUE"

Becomes(t, state) == taskEntriesRequested' = [taskEntriesRequested EXCEPT ![t] = state]

Returns(t, status) ==
  CASE status = "CONTINUE" -> Stay /\ UNCHANGED taskEntriesRequested
    [] status = "DONE" -> Becomes(t, "DONE") /\ Exit("success")
    [] OTHER -> Becomes(t, "ERROR") /\ Exit("failure")

\* Nothing was requested.
NothingToDo ==
  /\ pc = "loop"
  /\ \A t \in Tasks : taskEntriesRequested[t] \notin {"PENDING", "CONTINUE"}
  /\ Exit("success")
  /\ UNCHANGED <<argv, optind, taskEntriesRequested, details, told, sdoVars>>

\* A task without a prepare function.
PrepareCommand ==
  \E t \in {"reset", "state", "test", "estop"} :
    /\ Prepares(t)
    /\ Becomes(t, "CONTINUE")
    /\ Stay /\ UNCHANGED <<details, told, sdoVars>>

-----------------------------------------------------------------------------
(* CU_TASK_INFO.c *)

scan_entries == <<"1000", "1001", "1018", "4E46", "402F", "4555">>

Entry(i) == [dir |-> "upload", node |-> nodeID, object |-> scan_entries[i + 1], value |-> "none"]

PrepareInfo ==
  /\ Prepares("info")
  /\ step' = "request" /\ index' = 0
  /\ Becomes("info", "CONTINUE")
  /\ Stay
  /\ UNCHANGED <<nodeID, options, programData, timeoutSec, programFilename, told, sdoVars>>

InfoDone ==
  /\ Updates("info")
  /\ index >= Len(scan_entries)
  /\ Returns("info", "DONE")
  /\ UNCHANGED <<details, told, sdoVars>>

\* Whether the request could be made is not looked at.
InfoRequest ==
  /\ Updates("info")
  /\ index < Len(scan_entries) /\ step = "request"
  /\ (~Refused(Entry(index)) /\ Begin(Entry(index))) \/ BeginFails
  /\ step' = "wait"
  /\ Returns("info", "CONTINUE")
  /\ UNCHANGED <<nodeID, options, programData, index, timeoutSec, programFilename,
                 sdo_process, told>>

\* Mutant: an entry that the node has not is passed over.
M_InfoWait ==
  /\ Updates("info")
  /\ index < Len(scan_entries) /\ step = "wait"
  /\ \E status \in Statuses :
       /\ Update("upload", status)
       /\ \/ /\ status \in {"DONE", "ABORT"}
             /\ printed' = IF status = "DONE" THEN Append(printed, transfer.object) ELSE printed
             /\ index' = index + 1 /\ step' = "request"
             /\ Returns("info", "CONTINUE")
          \/ /\ status \notin {"DONE", "ABORT"}
             /\ Returns("info", status)
             /\ UNCHANGED <<printed, index, step>>
  /\ UNCHANGED <<nodeID, options, programData, timeoutSec, programFilename, sdo_process, sent>>

InfoWait ==
  /\ Updates("info")
  /\ index < Len(scan_entries) /\ step = "wait"
  /\ \E status \in Statuses :
       /\ Update("upload", status)
       /\ \/ /\ status = "DONE"
             /\ printed' = Append(printed, transfer.object)
             /\ index' = index + 1 /\ step' = "request"
             /\ Returns("info", "CONTINUE")
          \/ /\ status # "DONE"
             /\ Returns("info", status)
             /\ UNCHANGED <<printed, index, step>>
  /\ UNCHANGED <<nodeID, options, programData, timeoutSec, programFilename, sdo_process, sent>>

-----------------------------------------------------------------------------
(* CU_TASK_PROGRAM.c *)

Step(dir, object, value) == [dir |-> dir, node |-> nodeID, object |-> object, value |-> value]

\* What each step transfers.
Transfer(s) ==
  CASE s = "REQ_SW_VERSION" -> Step("upload", "1F56", "none")
    [] s = "STOP_PROGRAM" -> Step("download", "1F51", "stop")
    [] s = "CLEAR_PROGRAM" -> Step("download", "1F51", "clear")
    [] s = "DOWNLOAD_PROGRAM" -> Step("download", "1F50", programData)
    [] s = "FLASH_SUCCESSFUL" -> Step("upload", "1F57", "none")
    [] s = "START_PROGRAM" -> Step("download", "1F51", "start")

M_NextStep ==
  [REQ_SW_VERSION |-> "CLEAR_PROGRAM", STOP_PROGRAM |-> "CLEAR_PROGRAM",
   CLEAR_PROGRAM |-> "DOWNLOAD_PROGRAM", DOWNLOAD_PROGRAM |-> "FLASH_SUCCESSFUL",
   FLASH_SUCCESSFUL |-> "START_PROGRAM"]

NextStep ==
  [REQ_SW_VERSION |-> "STOP_PROGRAM", STOP_PROGRAM |-> "CLEAR_PROGRAM",
   CLEAR_PROGRAM |-> "DOWNLOAD_PROGRAM", DOWNLOAD_PROGRAM |-> "FLASH_SUCCESSFUL",
   FLASH_SUCCESSFUL |-> "START_PROGRAM"]

Steps == DOMAIN NextStep \union {"START_PROGRAM"}

FileMissing ==
  /\ Prepares("program")
  /\ programFilename = "missing"
  /\ step' = "REQ_SW_VERSION" /\ index' = 0
  /\ Exit("failure")
  /\ UNCHANGED <<nodeID, options, programData, timeoutSec, programFilename,
                 taskEntriesRequested, told, sdoVars>>

FileTooLarge ==
  /\ Prepares("program")
  /\ programFilename = "large"
  /\ step' = "OPERATION_ERROR" /\ index' = 0
  /\ Becomes("program", "CONTINUE") /\ Stay
  /\ UNCHANGED <<nodeID, options, programData, timeoutSec, programFilename, told, sdoVars>>

\* Neither what fread has read nor the lack of memory keeps the task from going on.
FileRead ==
  /\ Prepares("program")
  /\ programFilename = "good"
  /\ step' = "REQ_SW_VERSION" /\ index' = 0
  /\ programData' \in {"image", "truncated", "null"}
  /\ Becomes("program", "CONTINUE") /\ Stay
  /\ UNCHANGED <<nodeID, options, timeoutSec, programFilename, told, sdoVars>>

ProgramStep ==
  /\ Updates("program")
  /\ timeoutSec = "past"
  /\ step \in DOMAIN NextStep
  /\ \E status \in {"CONTINUE", "DONE"} :
       /\ SdoTask(Transfer(step), status)
       /\ \/ status = "DONE" /\ step' = NextStep[step] /\ timeoutSec' = "soon"
          \/ status = "CONTINUE" /\ UNCHANGED <<step, timeoutSec>>
  /\ Returns("program", "CONTINUE")
  /\ UNCHANGED <<nodeID, options, programData, index, programFilename, told>>

\* The memory is given back with the verdict.
Verdict(v) == printed' = Append(printed, v) /\ programData' = "null"

ProgramStart ==
  /\ Updates("program")
  /\ timeoutSec = "past"
  /\ step = "START_PROGRAM"
  /\ \E status \in {"CONTINUE", "DONE"} :
       /\ SdoTask(Transfer(step), status)
       /\ \/ status = "DONE" /\ step' = "CLEAR_PROGRAM" /\ Verdict("flashed")
          \/ status = "CONTINUE" /\ UNCHANGED <<step, printed, programData>>
       /\ Returns("program", status)
  /\ UNCHANGED <<nodeID, options, index, timeoutSec, programFilename, sent>>

M_ProgramFails ==
  /\ Updates("program")
  /\ timeoutSec = "past"
  /\ step \in Steps
  /\ \E status \in Statuses \ {"CONTINUE", "DONE"} :
       /\ SdoTask(Transfer(step), status)
       /\ \/ /\ status = "CO_SDOcli_endedWithTimeout" /\ step \in DOMAIN NextStep
             /\ step' = NextStep[step] /\ UNCHANGED <<printed, programData>>
             /\ Returns("program", "CONTINUE")
          \/ /\ status # "CO_SDOcli_endedWithTimeout"
             /\ Verdict("failed") /\ Returns("program", status) /\ UNCHANGED step
  /\ UNCHANGED <<nodeID, options, index, timeoutSec, programFilename, sent>>

\* Any other status ends the task, and leaves the node as it is.
ProgramFails ==
  /\ Updates("program")
  /\ timeoutSec = "past"
  /\ step \in Steps
  /\ \E status \in Statuses \ {"CONTINUE", "DONE"} :
       SdoTask(Transfer(step), status) /\ Returns("program", status)
  /\ Verdict("failed")
  /\ UNCHANGED <<nodeID, options, step, index, timeoutSec, programFilename, sent>>

\* A file too large: what is freed was never allocated.
ProgramRefused ==
  /\ Updates("program")
  /\ timeoutSec = "past"
  /\ step = "OPERATION_ERROR"
  /\ Verdict("failed")
  /\ \/ Returns("program", "ERROR")
     \/ programData = "junk" /\ Exit("crash") /\ UNCHANGED taskEntriesRequested
  /\ UNCHANGED <<nodeID, options, step, index, timeoutSec, programFilename, sent, sdoVars>>

-----------------------------------------------------------------------------
(* CU_TASK_RESET.c *)

Send(what, arg) == sent' = Append(sent, [what |-> what, arg |-> arg])

\* Sent as a CAN frame, if the driver takes it.
SendCommand ==
  \E t \in {"reset", "test", "estop"} :
    /\ Updates(t)
    /\ \/ Send(t, IF t = "reset" THEN 1 ELSE options % BYTE) /\ Returns(t, "DONE")
       \/ UNCHANGED sent /\ Returns(t, "ERROR")
    /\ UNCHANGED <<details, printed, sdoVars>>

SendState ==
  /\ Updates("state")
  /\ Send("state", options % BYTE)
  /\ Returns("state", "DONE")
  /\ UNCHANGED <<details, printed, sdoVars>>

-----------------------------------------------------------------------------
\* A delay between two steps of the program task ends.
Elapse ==
  /\ pc = "loop" /\ timeoutSec = "soon"
  /\ timeoutSec' = "past"
  /\ UNCHANGED <<argv, optind, pc, exit_code, taskEntriesRequested, nodeID, options,
                 programData, step, index, programFilename, told, sdoVars>>

\* The bus and the node, and the timer of the SDO client.
programVars == <<argv, optind, pc, exit_code, taskEntriesRequested, details, told>>
Bus == Environment /\ UNCHANGED programVars
Timer == pc = "loop" /\ TimerExpires /\ UNCHANGED programVars

Exited == pc = "exited" /\ UNCHANGED vars

Parse == ParseTask \/ ParseFile \/ ParseCommand \/ ParseNode \/ ParseVersion \/ canopen_init
Info == PrepareInfo \/ InfoDone \/ InfoRequest \/ InfoWait
Program ==
  \/ FileMissing \/ FileTooLarge \/ FileRead
  \/ ProgramStep \/ ProgramStart \/ ProgramFails \/ ProgramRefused
Command == NothingToDo \/ PrepareCommand \/ SendCommand \/ SendState
Main == Parse \/ Info \/ Program \/ Command

\* While a delay of the program task lasts, CU_TASK_update changes nothing.
Delayed ==
  /\ Updates("program")
  /\ timeoutSec # "past"
  /\ UNCHANGED vars

Next == Main \/ Delayed \/ Elapse \/ Bus \/ Timer \/ Exited

Spec == Init /\ [][Next]_vars

\* The main loop goes round every millisecond, and clock and timers run.
FairSpec == Spec /\ WF_vars(Main) /\ WF_vars(Elapse) /\ WF_vars(Timer)
-----------------------------------------------------------------------------
Args == {argv[i].arg : i \in 1..Len(argv)}

TypeOK ==
  /\ argv \in CommandLines /\ optind \in 1..(Len(argv) + 1)
  /\ pc \in {"parse", "loop", "exited"}
  /\ exit_code \in {"none", "success", "failure", "crash"}
  /\ taskEntriesRequested \in [Tasks -> {"NO_ERROR", "PENDING", "CONTINUE", "DONE", "ERROR"}]
  /\ nodeID \in 0..(BYTE - 1)
  /\ options \in Args \union {0}
  /\ programData \in {"junk", "null", "image", "truncated"}
  /\ step \in Steps \union {"junk", "request", "wait", "OPERATION_ERROR"}
  /\ index \in 0..Len(scan_entries)
  /\ timeoutSec \in {"past", "soon", "never"}
  /\ programFilename \in Files
  /\ sdo_process \in Processes
  /\ answer \in {"none", "ok", "abort", "malformed"} /\ timer \in {"running", "expired"}
  /\ program \in Node!Programs /\ running \in BOOLEAN

Given(key) == \E i \in 1..Len(argv) : argv[i].key = key

\* Exit status 0 means that all the tasks of the command line are done ("will move to next
\* on the list next time the function is executed", CU_TASK.c:111; "--program 1 --info
\* --reset" on one line, CU.h:28), but for -v, which ends the program while it parses.
RequestedTasksRun ==
  exit_code = "success" /\ ~Given("v") =>
    \A t \in Tasks : taskEntriesRequested[t] \in {"NO_ERROR", "DONE"}

\* A command carries the argument that was given for it, the last one if there are more,
\* unless the command line has another command whose argument took its place
\* (CU_COMMAND.c:108-127).
ArgumentIsOwn ==
  \A n \in 1..Len(sent) : \A i \in 1..Len(argv) :
    LET last == /\ argv[i].key \in {"s", "t", "e"} /\ TaskOf[argv[i].key] = sent[n].what
                /\ \A j \in (i + 1)..Len(argv) : argv[j].key \notin {"s", "t", "e"}
    IN  last => sent[n].arg = argv[i].arg % BYTE

\* The SDO client, the process and the task that polls them stay in step: an open transfer
\* is that of the entry or of the step at hand, and of the data that is still held
\* (CU_TASK_SDO.c:147-245, CU_TASK_PROGRAM.c:113-219).
TransferInStep ==
  transfer # NoTransfer =>
    \/ taskEntriesRequested["info"] = "CONTINUE" /\ step = "wait" /\ transfer = Entry(index)
    \/ /\ taskEntriesRequested["program"] = "CONTINUE"
       /\ step \in Steps /\ transfer = Transfer(step)
       /\ sdo_process = WaitFor(transfer.dir)

\* What has been printed of the node's entries is what was read, in the order of the table,
\* and it is all of them when the task ends well (CU_TASK_INFO.c:63-116).
InfoIsWhole ==
  taskEntriesRequested["info"] \in {"CONTINUE", "DONE"} =>
    /\ printed = SubSeq(scan_entries, 1, index)
    /\ exit_code = "success" => index = Len(scan_entries)

\* Exit status 0 of a command line whose first task is the program means that the node runs
\* what was received of it to its end.  The code looks neither at what fread has read nor
\* at the value of 1F57, and so cannot tell the images of Node!Images apart
\* (CU_TASK_PROGRAM.c:94, 174, 202-207).
SuccessMeansFlashed ==
  exit_code = "success" /\ Given("f") /\ ~Given("d") /\ ~Given("v") =>
    printed = <<"flashed">> /\ running /\ program \in Node!Images

\* When the program task fails, the step it failed at tells what is left of the node: the old
\* program before CLEAR, nothing usable while downloading, a complete one that stands still
\* afterwards; only the last request may or may not have been carried out
\* (CU_TASK_PROGRAM.c:113-212).
WhatIsLeft ==
  printed = <<"failed">> =>
    CASE step \in {"OPERATION_ERROR", "REQ_SW_VERSION", "STOP_PROGRAM"} -> program = "old"
      [] step = "CLEAR_PROGRAM" -> ~running /\ program \in {"old", "none"}
      [] step = "DOWNLOAD_PROGRAM" -> ~running /\ program # "old"
      [] step = "FLASH_SUCCESSFUL" -> ~running /\ program \in Node!Images
      [] step = "START_PROGRAM" -> program \in Node!Images

\* The node's program is replaced as NodeProgram allows it, through losses, late requests and
\* failures (CU_TASK_PROGRAM.c:129-196).
ProgramsNode == Node!Spec

\* The program ends, unless the time-out that nobody has set lies in a future that never
\* comes (CU_TASK_PROGRAM.c:108, main.c:109): every transfer has a timer.
Ends == timeoutSec # "never" => <>(pc = "exited")
=============================================================================
