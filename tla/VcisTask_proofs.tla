-------------------------- MODULE VcisTask_proofs --------------------------
(***************************************************************************)
(* Theorems about vcis-util, for every set of command lines and every node *)
(* id: its types, that only one task is ever begun, that transfers and     *)
(* tasks stay in step, what may happen to the node's program, what a       *)
(* command carries and what is printed.                                    *)
(***************************************************************************)
EXTENDS VcisTask, SequenceTheorems, TLAPS

info == taskEntriesRequested["info"]
prog == taskEntriesRequested["program"]

Requested == {"NO_ERROR", "PENDING"}
TaskStates == {"NO_ERROR", "PENDING", "CONTINUE", "DONE", "ERROR"}

\* A task that has ended has ended the main loop.
NoneEnded ==
  /\ pc = "parse" => \A t \in Tasks : taskEntriesRequested[t] \in Requested
  /\ pc = "loop" => \A t \in Tasks : taskEntriesRequested[t] \notin {"DONE", "ERROR"}

\* What a task has begun with; data that was never read is not sent.
Prepared ==
  /\ info = "CONTINUE" => step \in {"request", "wait"}
  /\ info = "CONTINUE" /\ step = "wait" => index < Len(scan_entries)
  /\ prog \in {"CONTINUE", "ERROR"} => step \in Steps \union {"OPERATION_ERROR"}
  /\ prog = "CONTINUE" /\ step \in Steps => programData # "junk"

\* What is on its way to the node changes its program only as the step at hand says, also
\* when the task has given up.
Asked ==
  request # NoTransfer =>
    \/ request.object \notin {"1F50", "1F51"}
    \/ /\ prog \in {"CONTINUE", "ERROR"}
       /\ \/ step = "STOP_PROGRAM" /\ request.object = "1F51" /\ request.value = "stop"
          \/ step = "CLEAR_PROGRAM" /\ request.object = "1F51" /\ request.value = "clear"
          \/ /\ step = "DOWNLOAD_PROGRAM" /\ request.object = "1F50"
             /\ request.value \in {"image", "truncated"} /\ program \in {"none", "part"}
          \/ step = "START_PROGRAM" /\ request.object = "1F51" /\ request.value = "start"

\* An answered request is no longer on its way, and what was confirmed is done.
Answered ==
  /\ answer # "none" => request = NoTransfer
  /\ answer = "ok" /\ prog = "CONTINUE" =>
       /\ step = "STOP_PROGRAM" => ~running
       /\ step = "CLEAR_PROGRAM" => program = "none"
       /\ step = "DOWNLOAD_PROGRAM" => program \in Node!Images
       /\ step = "START_PROGRAM" => running

\* Every request belongs to a transfer while the task that made it goes on, and the
\* download finds nothing left of the old program.
Opened ==
  /\ info \in Requested /\ prog \in Requested => request = NoTransfer
  /\ prog = "CONTINUE" /\ request # NoTransfer => transfer # NoTransfer
  /\ prog = "CONTINUE" /\ step = "DOWNLOAD_PROGRAM" /\ transfer = NoTransfer =>
       program = "none"

\* What the node holds at each step.
AtStep ==
  /\ prog \in Requested => program = "old"
  /\ prog \in {"CONTINUE", "ERROR"} =>
       CASE step \in {"OPERATION_ERROR", "REQ_SW_VERSION", "STOP_PROGRAM"} -> program = "old"
         [] step = "CLEAR_PROGRAM" -> ~running /\ program \in {"old", "none"}
         [] step = "DOWNLOAD_PROGRAM" -> ~running /\ program # "old"
         [] step = "FLASH_SUCCESSFUL" -> ~running /\ program \in Node!Images
         [] step = "START_PROGRAM" -> program \in Node!Images
  /\ prog = "DONE" => running /\ program \in Node!Images /\ request = NoTransfer

Reports == {"1000", "1001", "1018", "4E46", "402F", "4555", "none", "flashed", "failed"}

\* What has been told: entries of the node, or a verdict.
Told ==
  /\ printed \in Seq(Reports)
  /\ info \in Requested /\ prog \in Requested => printed = <<>>
  /\ prog = "CONTINUE" /\ pc = "loop" => printed = <<>>
  /\ prog = "DONE" => printed = <<"flashed">>
  /\ prog \in Requested => \A i \in 1..Len(printed) : printed[i] # "failed"

\* The task, its transfer and the node together.
NodeInv ==
  /\ Prepared /\ TransferInStep
  /\ Asked /\ Opened /\ Answered /\ AtStep /\ Told

\* A command line that names a file, no node's entries and no version ends well only with
\* the program task.
FileFirst ==
  Given("f") /\ ~Given("d") /\ ~Given("v") =>
    /\ info = "NO_ERROR"
    /\ \A i \in 1..Len(argv) : i < optind /\ argv[i].key = "f" => prog # "NO_ERROR"
    /\ pc = "loop" => optind > Len(argv)
    /\ exit_code = "success" => prog = "DONE"

\* What the scheduler does, whatever its comments say: main leaves at the first result, and
\* so only the first of the requested tasks, in the order of the table, is ever begun.
OnlyTheFirst ==
  \A i \in 1..Len(taskEntries) :
    taskEntriesRequested[taskEntries[i]] \notin {"NO_ERROR", "PENDING"} =>
      \A j \in 1..Len(taskEntries) :
        j # i => taskEntriesRequested[taskEntries[j]] \in
                   (IF j < i THEN {"NO_ERROR"} ELSE {"NO_ERROR", "PENDING"})

IInv == TypeOK /\ NoneEnded /\ OnlyTheFirst /\ NodeInv /\ FileFirst

-----------------------------------------------------------------------------
(* The table of tasks, and the entries that are scanned. *)

LEMMA TaskTable ==
  /\ Len(taskEntries) = 6
  /\ \A i \in 1..6 : taskEntries[i] \in Tasks
  /\ \A i, j \in 1..6 : taskEntries[i] = taskEntries[j] => i = j
  /\ taskEntries[1] = "info" /\ taskEntries[2] = "program"
  /\ Tasks = {"info", "program", "reset", "state", "test", "estop"}
<1>1. /\ Len(taskEntries) = 6
      /\ taskEntries[1] = "info" /\ taskEntries[2] = "program" /\ taskEntries[3] = "reset"
      /\ taskEntries[4] = "state" /\ taskEntries[5] = "test" /\ taskEntries[6] = "estop"
  BY DEF taskEntries
<1>2. \A i \in 1..6 : i = 1 \/ i = 2 \/ i = 3 \/ i = 4 \/ i = 5 \/ i = 6
  OBVIOUS
<1>3. \A i \in 1..6 : taskEntries[i] \in Tasks
  BY <1>1 DEF Tasks
<1>4. \A i, j \in 1..6 : taskEntries[i] = taskEntries[j] => i = j
  BY <1>1, <1>2
<1>5. Tasks = {"info", "program", "reset", "state", "test", "estop"}
  BY <1>1, <1>2, <1>3 DEF Tasks
<1> QED
  BY <1>1, <1>3, <1>4, <1>5

LEMMA ScanTable ==
  /\ Len(scan_entries) = 6
  /\ \A i \in 0..5 : /\ scan_entries[i + 1] \notin {"1F50", "1F51"}
                     /\ scan_entries[i + 1] \in Reports /\ scan_entries[i + 1] # "failed"
<1>1. /\ Len(scan_entries) = 6
      /\ scan_entries[1] = "1000" /\ scan_entries[2] = "1001" /\ scan_entries[3] = "1018"
      /\ scan_entries[4] = "4E46" /\ scan_entries[5] = "402F" /\ scan_entries[6] = "4555"
  BY DEF scan_entries
<1>2. \A i \in 0..5 : i + 1 = 1 \/ i + 1 = 2 \/ i + 1 = 3 \/ i + 1 = 4 \/ i + 1 = 5 \/ i + 1 = 6
  OBVIOUS
<1> QED
  BY <1>1, <1>2 DEF Reports

-----------------------------------------------------------------------------
(* The scheduler. *)

\* The task that is executed is the only one begun, and none before it was asked for.
LEMMA OthersWait ==
  ASSUME TypeOK, NoneEnded, OnlyTheFirst, NEW t, Executes(t)
  PROVE  /\ t \in Tasks /\ pc = "loop" /\ taskEntriesRequested[t] \in {"PENDING", "CONTINUE"}
         /\ \A u \in Tasks \ {t} : taskEntriesRequested[u] \in Requested
         /\ \E i \in 1..6 :
              /\ t = taskEntries[i]
              /\ \A j \in 1..(i - 1) : taskEntriesRequested[taskEntries[j]] = "NO_ERROR"
<1>1. PICK i \in 1..6 :
        /\ t = taskEntries[i]
        /\ taskEntriesRequested[t] \in {"PENDING", "CONTINUE"}
        /\ \A j \in 1..(i - 1) :
             taskEntriesRequested[taskEntries[j]] \notin {"PENDING", "CONTINUE"}
  BY TaskTable DEF Executes
<1>2. pc = "loop" /\ t \in Tasks
  BY <1>1, TaskTable DEF Executes
<1>3. \A u \in Tasks : taskEntriesRequested[u] \in {"NO_ERROR", "PENDING", "CONTINUE"}
  BY <1>2 DEF TypeOK, NoneEnded
<1>4. \A j \in 1..(i - 1) : taskEntriesRequested[taskEntries[j]] = "NO_ERROR"
  BY <1>1, <1>3, TaskTable
<1>5. ASSUME NEW j \in 1..6, j # i, taskEntriesRequested[taskEntries[j]] \notin Requested
      PROVE  FALSE
  <2>1. taskEntriesRequested[t] = "NO_ERROR" \/ (i > j /\ taskEntriesRequested[t] = "PENDING")
    BY <1>1, <1>5, TaskTable DEF OnlyTheFirst, Requested
  <2>2. i > j
    BY <1>1, <2>1
  <2>3. taskEntriesRequested[taskEntries[j]] = "NO_ERROR"
    BY <1>4, <2>2
  <2> QED
    BY <1>5, <2>3 DEF Requested
<1>6. \A u \in Tasks \ {t} : \E j \in 1..6 : u = taskEntries[j] /\ j # i
  BY <1>1, TaskTable DEF Tasks
<1>7. \A u \in Tasks \ {t} : taskEntriesRequested[u] \in Requested
  BY <1>5, <1>6
<1> QED
  BY <1>1, <1>2, <1>4, <1>7

\* However it goes on, it stays the only one.
LEMMA StaysFirst ==
  ASSUME TypeOK, NoneEnded, OnlyTheFirst, NEW t, Executes(t),
         NEW s \in {"CONTINUE", "DONE", "ERROR"}, Becomes(t, s),
         pc' = "loop" => s = "CONTINUE", pc' # "parse"
  PROVE  /\ OnlyTheFirst' /\ NoneEnded'
         /\ taskEntriesRequested' \in [Tasks -> TaskStates]
<1>1. /\ t \in Tasks /\ \A u \in Tasks \ {t} : taskEntriesRequested[u] \in Requested
      /\ taskEntriesRequested \in [Tasks -> TaskStates]
  BY OthersWait DEF TypeOK, TaskStates
<1>2. PICK i \in 1..6 :
        /\ t = taskEntries[i]
        /\ \A j \in 1..(i - 1) : taskEntriesRequested[taskEntries[j]] = "NO_ERROR"
  BY OthersWait
<1>3. /\ taskEntriesRequested' \in [Tasks -> TaskStates]
      /\ taskEntriesRequested'[t] = s
      /\ \A u \in Tasks \ {t} : taskEntriesRequested'[u] = taskEntriesRequested[u]
  BY <1>1 DEF Becomes, TaskStates
<1>4. NoneEnded'
  BY <1>1, <1>3 DEF NoneEnded, Requested
<1>5. ASSUME NEW k \in 1..6, NEW j \in 1..6, j # k,
             taskEntriesRequested'[taskEntries[k]] \notin Requested
      PROVE  taskEntriesRequested'[taskEntries[j]] \in
               (IF j < k THEN {"NO_ERROR"} ELSE {"NO_ERROR", "PENDING"})
  <2>1. taskEntries[k] = t
    BY <1>1, <1>3, <1>5, TaskTable
  <2>2. k = i
    BY <1>2, <2>1, TaskTable
  <2>3. taskEntries[j] \in Tasks \ {t}
    BY <1>2, <1>5, <2>2, TaskTable
  <2>4. taskEntriesRequested'[taskEntries[j]] \in Requested
    BY <1>1, <1>3, <2>3
  <2>5. j < k => taskEntriesRequested'[taskEntries[j]] = "NO_ERROR"
    BY <1>2, <1>3, <2>2, <2>3
  <2> QED
    BY <2>4, <2>5 DEF Requested
<1> QED
  BY <1>3, <1>4, <1>5, TaskTable DEF OnlyTheFirst, Requested

\* A task returns: its entry is as the status says, the others are as they were, and the
\* main loop goes on or is left.
LEMMA AfterReturn ==
  ASSUME TypeOK, NoneEnded, OnlyTheFirst, NEW t, Updates(t), NEW s, Returns(t, s)
  PROVE  /\ OnlyTheFirst' /\ NoneEnded'
         /\ taskEntriesRequested' \in [Tasks -> TaskStates]
         /\ exit_code' \in {"none", "success", "failure", "crash"}
         /\ \A u \in Tasks \ {t} : taskEntriesRequested'[u] = taskEntriesRequested[u]
         /\ s = "CONTINUE" => taskEntriesRequested'[t] = "CONTINUE" /\ pc' = "loop"
         /\ s = "DONE" => taskEntriesRequested'[t] = "DONE" /\ pc' = "exited"
         /\ s \notin {"CONTINUE", "DONE"} => taskEntriesRequested'[t] = "ERROR" /\ pc' = "exited"
<1>1. /\ t \in Tasks /\ pc = "loop" /\ Executes(t) /\ taskEntriesRequested[t] = "CONTINUE"
      /\ taskEntriesRequested \in [Tasks -> TaskStates]
      /\ exit_code \in {"none", "success", "failure", "crash"}
  BY OthersWait DEF Updates, TypeOK, TaskStates
<1>2. CASE s = "CONTINUE"
  <2>1. UNCHANGED <<pc, exit_code, taskEntriesRequested>>
    BY <1>2 DEF Returns, Stay
  <2> QED
    BY <1>1, <1>2, <2>1 DEF OnlyTheFirst, NoneEnded
<1>3. CASE s = "DONE"
  <2>1. Becomes(t, "DONE") /\ pc' = "exited" /\ exit_code' = "success"
    BY <1>3 DEF Returns, Exit
  <2> QED
    BY <1>1, <1>3, <2>1, StaysFirst DEF Becomes
<1>4. CASE s \notin {"CONTINUE", "DONE"}
  <2>1. Becomes(t, "ERROR") /\ pc' = "exited" /\ exit_code' = "failure"
    BY <1>4 DEF Returns, Exit
  <2> QED
    BY <1>1, <1>4, <2>1, StaysFirst DEF Becomes
<1> QED
  BY <1>2, <1>3, <1>4

\* The same when it is prepared.
LEMMA AfterPrepare ==
  ASSUME TypeOK, NoneEnded, OnlyTheFirst, NEW t, Prepares(t), Becomes(t, "CONTINUE"), Stay
  PROVE  /\ OnlyTheFirst' /\ NoneEnded'
         /\ taskEntriesRequested' \in [Tasks -> TaskStates]
         /\ \A u \in Tasks \ {t} : taskEntriesRequested'[u] = taskEntriesRequested[u]
         /\ taskEntriesRequested'[t] = "CONTINUE" /\ pc' = "loop"
<1>1. /\ t \in Tasks /\ pc = "loop" /\ Executes(t)
      /\ taskEntriesRequested \in [Tasks -> TaskStates]
  BY OthersWait DEF Prepares, TypeOK, TaskStates
<1>2. pc' = "loop"
  BY <1>1 DEF Stay
<1> QED
  BY <1>1, <1>2, StaysFirst DEF Becomes

-----------------------------------------------------------------------------
(* The command line. *)

LEMMA ByteFits ==
  ASSUME NEW n \in Nat
  PROVE  n % BYTE \in 0..(BYTE - 1)
BY DEF BYTE

LEMMA ParseStep ==
  ASSUME TypeOK, NoneEnded, OnlyTheFirst, Parse
  PROVE  /\ TypeOK' /\ NoneEnded' /\ OnlyTheFirst'
         /\ \A t \in Tasks : taskEntriesRequested[t] \in Requested /\ taskEntriesRequested'[t] \in Requested
         /\ UNCHANGED <<programData, step, index, printed, sdoVars>>
<1>1. pc = "parse" /\ \A t \in Tasks : taskEntriesRequested[t] \in Requested
  BY DEF Parse, ParseTask, ParseFile, ParseCommand, ParseNode, ParseVersion, ParseOption,
         canopen_init, NoneEnded
<1>2. UNCHANGED <<argv, programData, step, index, timeoutSec, printed, sdoVars>>
  BY DEF Parse, ParseTask, ParseFile, ParseCommand, ParseNode, ParseVersion, ParseOption,
         canopen_init, details, told
<1>3. /\ argv \in Seq([key : Keys, arg : Nat, file : Files]) /\ optind \in 1..(Len(argv) + 1)
      /\ taskEntriesRequested \in [Tasks -> TaskStates]
  BY CommandLinesAssumption DEF TypeOK, TaskStates
<1>4. \A i \in 1..Len(argv) : argv[i].arg \in Nat /\ argv[i].file \in Files
  <2> SUFFICES ASSUME NEW i \in 1..Len(argv)
               PROVE  argv[i].arg \in Nat /\ argv[i].file \in Files
    OBVIOUS
  <2>1. argv[i] \in [key : Keys, arg : Nat, file : Files]
    BY <1>3, ElementOfSeq
  <2> QED
    BY <2>1
<1>5. CASE \E keys : ParseOption(keys) /\ keys \subseteq {"f", "d", "r", "s", "t", "e"}
               /\ addTask(TaskOf[Opt.key]) /\ Stay /\ UNCHANGED nodeID
               /\ programFilename' \in Files /\ options' \in {options, Opt.arg}
  <2>1. /\ optind <= Len(argv) /\ optind' = optind + 1 /\ UNCHANGED <<pc, exit_code>>
        /\ Opt.key \in {"f", "d", "r", "s", "t", "e"} /\ UNCHANGED nodeID
        /\ programFilename' \in Files /\ options' \in {options, Opt.arg}
        /\ taskEntriesRequested' =
             [taskEntriesRequested EXCEPT ![TaskOf[Opt.key]] = "PENDING"]
    BY <1>5 DEF ParseOption, addTask, Stay
  <2>2. TaskOf[Opt.key] \in Tasks
    BY <2>1, TaskTable DEF TaskOf
  <2>3. /\ taskEntriesRequested' \in [Tasks -> TaskStates]
        /\ \A t \in Tasks : taskEntriesRequested'[t] \in Requested
    BY <1>1, <1>3, <2>1, <2>2 DEF Requested, TaskStates
  <2>4. options' \in Args \union {0}
    BY <1>3, <2>1 DEF TypeOK, Args, Opt
  <2>5. Args' = Args
    BY <1>2 DEF Args
  <2>6. TypeOK'
    BY <1>2, <1>3, <2>1, <2>3, <2>4, <2>5 DEF TypeOK, TaskStates, sdoVars, clientVars, nodeVars
  <2>7. NoneEnded' /\ OnlyTheFirst'
    BY <1>1, <2>1, <2>3, TaskTable DEF NoneEnded, OnlyTheFirst, Requested
  <2> QED
    BY <1>1, <1>2, <2>3, <2>6, <2>7
<1>6. CASE ParseNode \/ ParseVersion \/ canopen_init
  <2>1. /\ UNCHANGED taskEntriesRequested /\ optind' \in 1..(Len(argv) + 1)
        /\ UNCHANGED <<options, programFilename>>
        /\ pc' \in {"parse", "loop", "exited"}
        /\ exit_code' \in {"none", "success", "failure", "crash"}
    BY <1>1, <1>3, <1>6 DEF ParseNode, ParseVersion, canopen_init, ParseOption, Stay, Exit,
                            details, TypeOK
  <2>2. nodeID' \in 0..(BYTE - 1)
    <3>1. CASE ParseNode
      <4>1. optind \in 1..Len(argv) /\ nodeID' = Opt.arg % BYTE
        BY <1>3, <3>1 DEF ParseNode, ParseOption
      <4>2. Opt.arg \in Nat
        BY <1>4, <4>1 DEF Opt
      <4> QED
        BY <4>1, <4>2, ByteFits
    <3>2. CASE ParseVersion \/ canopen_init
      BY <3>2 DEF ParseVersion, canopen_init, details, TypeOK
    <3> QED
      BY <1>6, <3>1, <3>2
  <2>3. Args' = Args
    BY <1>2 DEF Args
  <2>4. TypeOK'
    BY <1>2, <1>3, <2>1, <2>2, <2>3 DEF TypeOK, sdoVars, clientVars, nodeVars
  <2>5. NoneEnded' /\ OnlyTheFirst'
    BY <1>1, <2>1, TaskTable DEF NoneEnded, OnlyTheFirst, Requested
  <2> QED
    BY <1>1, <1>2, <2>1, <2>4, <2>5
<1>7. CASE ParseTask \/ ParseFile \/ ParseCommand
  <2>1. optind \in 1..Len(argv) /\ argv[optind].file \in Files
    BY <1>3, <1>7, <1>4 DEF ParseTask, ParseFile, ParseCommand, ParseOption
  <2>2. options \in Args \union {0} /\ programFilename \in Files
    BY DEF TypeOK
  <2>3. Opt.key = "f" => TaskOf[Opt.key] = "program"
    BY DEF TaskOf
  <2>4. ParseFile => Opt.key = "f"
    BY DEF ParseFile, ParseOption
  <2> QED
    BY <1>5, <1>7, <2>1, <2>2, <2>3, <2>4 DEF ParseTask, ParseFile, ParseCommand, Opt
<1> QED
  BY <1>6, <1>7 DEF Parse

-----------------------------------------------------------------------------
(* The steps that say nothing to the node. *)

Quiet ==
  NothingToDo \/ PrepareCommand \/ InfoDone \/ SendCommand \/ SendState \/ Delayed \/ Elapse
    \/ Exited \/ UNCHANGED vars

LEMMA QuietStep ==
  ASSUME TypeOK, NoneEnded, OnlyTheFirst, Quiet
  PROVE  /\ TypeOK' /\ NoneEnded' /\ OnlyTheFirst'
         /\ UNCHANGED <<nodeID, programData, step, index, printed, sdoVars>>
         /\ prog' = prog
         /\ info' = info \/ (InfoDone /\ info' = "DONE")
         /\ pc' = "loop" => pc = "loop"
<1>1. UNCHANGED <<argv, optind, nodeID, options, programData, step, index, programFilename,
                  printed, sdoVars>>
  BY DEF Quiet, NothingToDo, PrepareCommand, InfoDone, SendCommand, SendState, Delayed, Elapse,
         Exited, vars, details, told, Executes, Prepares, Updates
<1>2. taskEntriesRequested \in [Tasks -> TaskStates] /\ Args' = Args
  BY <1>1 DEF TypeOK, TaskStates, Args
<1>3. CASE NothingToDo \/ Delayed \/ Elapse \/ Exited \/ UNCHANGED vars
  <2>1. /\ UNCHANGED taskEntriesRequested /\ pc' \in {pc, "exited"}
        /\ exit_code' \in {exit_code, "success"} /\ timeoutSec' \in {timeoutSec, "past"}
    BY <1>3 DEF NothingToDo, Delayed, Elapse, Exited, vars, Exit, details
  <2>2. TypeOK'
    BY <1>1, <1>2, <2>1 DEF TypeOK, sdoVars, clientVars, nodeVars
  <2>3. NoneEnded' /\ OnlyTheFirst'
    BY <2>1 DEF NoneEnded, OnlyTheFirst
  <2> QED
    BY <1>1, <2>1, <2>2, <2>3 DEF info, prog, TypeOK
<1>4. ASSUME NEW t \in Tasks \ {"info", "program"}, Prepares(t), Becomes(t, "CONTINUE"), Stay,
             UNCHANGED <<details, exit_code>>
      PROVE  /\ TypeOK' /\ NoneEnded' /\ OnlyTheFirst' /\ prog' = prog /\ info' = info
             /\ pc' = "loop" => pc = "loop"
  <2>1. /\ NoneEnded' /\ OnlyTheFirst' /\ taskEntriesRequested' \in [Tasks -> TaskStates]
        /\ prog' = prog /\ info' = info /\ pc' = "loop" /\ pc = "loop"
    BY <1>4, AfterPrepare, OthersWait, TaskTable DEF info, prog, Prepares
  <2>2. TypeOK'
    BY <1>1, <1>2, <1>4, <2>1 DEF TypeOK, TaskStates, sdoVars, clientVars, nodeVars, details
  <2> QED
    BY <2>1, <2>2
<1>5. ASSUME NEW t \in Tasks \ {"program"}, Updates(t), NEW s \in {"DONE", "ERROR"}, Returns(t, s),
             UNCHANGED details
      PROVE  /\ TypeOK' /\ NoneEnded' /\ OnlyTheFirst' /\ prog' = prog
             /\ t # "info" => info' = info
             /\ t = "info" /\ s = "DONE" => info' = "DONE"
             /\ pc' = "exited"
  <2>1. /\ NoneEnded' /\ OnlyTheFirst' /\ taskEntriesRequested' \in [Tasks -> TaskStates]
        /\ exit_code' \in {"none", "success", "failure", "crash"}
        /\ prog' = prog /\ pc' = "exited"
        /\ t # "info" => info' = info
        /\ t = "info" /\ s = "DONE" => info' = "DONE"
    BY <1>5, AfterReturn, TaskTable DEF info, prog
  <2>2. TypeOK'
    BY <1>1, <1>2, <1>5, <2>1 DEF TypeOK, TaskStates, sdoVars, clientVars, nodeVars, details
  <2> QED
    BY <2>1, <2>2
<1>6. CASE PrepareCommand
  <2>1. PICK t \in {"reset", "state", "test", "estop"} :
          Prepares(t) /\ Becomes(t, "CONTINUE") /\ Stay /\ UNCHANGED details
    BY <1>6 DEF PrepareCommand
  <2> QED
    BY <1>1, <1>4, <2>1, TaskTable DEF Stay
<1>7. CASE InfoDone
  <2>1. Updates("info") /\ Returns("info", "DONE") /\ UNCHANGED details
    BY <1>7 DEF InfoDone
  <2> QED
    BY <1>1, <1>5, <1>7, <2>1, TaskTable
<1>8. CASE SendCommand \/ SendState
  <2>1. PICK t \in {"reset", "state", "test", "estop"}, s \in {"DONE", "ERROR"} :
          Updates(t) /\ Returns(t, s) /\ UNCHANGED details
    BY <1>8 DEF SendCommand, SendState
  <2> QED
    BY <1>1, <1>5, <2>1, TaskTable
<1> QED
  BY <1>3, <1>6, <1>7, <1>8 DEF Quiet

-----------------------------------------------------------------------------
(* The bus and the node. *)

\* The info task and the program task are never both begun.
LEMMA NotBoth ==
  ASSUME OnlyTheFirst
  PROVE  /\ prog \notin Requested => info = "NO_ERROR"
         /\ info \notin Requested => prog \in Requested
BY TaskTable DEF OnlyTheFirst, Requested, info, prog

LEMMA TransferSays ==
  /\ \A s \in {"REQ_SW_VERSION", "FLASH_SUCCESSFUL"} :
       Transfer(s).dir = "upload" /\ Transfer(s).object \notin {"1F50", "1F51"}
  /\ Transfer("STOP_PROGRAM").object = "1F51" /\ Transfer("STOP_PROGRAM").value = "stop"
  /\ Transfer("CLEAR_PROGRAM").object = "1F51" /\ Transfer("CLEAR_PROGRAM").value = "clear"
  /\ Transfer("DOWNLOAD_PROGRAM").object = "1F50"
  /\ Transfer("DOWNLOAD_PROGRAM").value = programData
  /\ Transfer("START_PROGRAM").object = "1F51" /\ Transfer("START_PROGRAM").value = "start"
  /\ \A s \in {"STOP_PROGRAM", "CLEAR_PROGRAM", "DOWNLOAD_PROGRAM", "START_PROGRAM"} :
       Transfer(s).dir = "download"
BY DEF Transfer, Step

LEMMA StepNames ==
  Steps = {"REQ_SW_VERSION", "STOP_PROGRAM", "CLEAR_PROGRAM", "DOWNLOAD_PROGRAM",
           "FLASH_SUCCESSFUL", "START_PROGRAM"}
BY DEF Steps, NextStep

\* What the node and the bus may do to a request.
LEMMA BusStep ==
  ASSUME TypeOK, OnlyTheFirst, NodeInv, Bus \/ Timer
  PROVE  TypeOK' /\ NodeInv'
<1> USE DEF NodeInv
<1>1. UNCHANGED <<argv, optind, pc, exit_code, taskEntriesRequested, details, printed>>
  BY DEF Bus, Timer, programVars, told
<1>2. UNCHANGED <<info, prog>> /\ Entry(index)' = Entry(index) /\ Transfer(step)' = Transfer(step)
  BY <1>1 DEF info, prog, details, Entry, Transfer, Step
<1>3. UNCHANGED <<sdo_process, transfer>>
  BY DEF Bus, Timer, Environment, Controlled, Receives, ReceivesAll, Reads, NotDone, Confirms,
         TimerExpires, clientVars
<1>4. Prepared' /\ TransferInStep' /\ Told'
  BY <1>1, <1>2, <1>3 DEF Prepared, TransferInStep, Told, details, info, prog
<1>5. ASSUME program' \in Node!Programs, running' \in BOOLEAN,
             answer' \in {"none", "ok", "abort", "malformed"}, timer' \in {"running", "expired"}
      PROVE  TypeOK'
  BY <1>1, <1>3, <1>5 DEF TypeOK, details, Args
<1>6. prog \notin Requested => info = "NO_ERROR"
  BY NotBoth
<1>7. prog \in TaskStates
  BY TaskTable DEF TypeOK, TaskStates, prog
<1>8. CASE Timer
  <2>1. UNCHANGED <<answer, request, program, running>> /\ timer' = "expired"
    BY <1>8 DEF Timer, TimerExpires, nodeVars
  <2> QED
    BY <1>1, <1>2, <1>3, <1>4, <1>5, <2>1 DEF TypeOK, Asked, Opened, Answered, AtStep, details
<1>9. CASE Bus /\ Controlled
  <2>1. /\ request # NoTransfer /\ request.object = "1F51" /\ request' = NoTransfer
        /\ answer' = answer \/ (transfer = request /\ answer' = "ok")
        /\ UNCHANGED timer
        /\ running' = (IF request.value = "start" THEN TRUE
                       ELSE IF request.value = "stop" THEN FALSE ELSE running)
        /\ program' = (IF request.value = "clear" THEN "none" ELSE program)
    BY <1>9 DEF Controlled, Addressed, Confirms
  <2>2. answer = "none"
    BY <2>1 DEF Answered
  <2>3. /\ prog \in {"CONTINUE", "ERROR"}
        /\ \/ step = "STOP_PROGRAM" /\ request.value = "stop"
           \/ step = "CLEAR_PROGRAM" /\ request.value = "clear"
           \/ step = "START_PROGRAM" /\ request.value = "start"
    BY <2>1 DEF Asked
  <2>4. TypeOK'
    BY <1>5, <2>1, <2>2 DEF TypeOK, Node!Programs
  <2>5. Asked' /\ Opened'
    BY <1>1, <1>2, <1>3, <2>1, <2>3 DEF Asked, Opened, details, Requested
  <2>6. AtStep'
    BY <1>1, <1>2, <2>1, <2>3 DEF AtStep, details, Requested, Node!Images
  <2>7. Answered'
    BY <1>1, <1>2, <2>1, <2>2, <2>3 DEF Answered, details
  <2> QED
    BY <1>4, <2>4, <2>5, <2>6, <2>7
<1>10. CASE Bus /\ (Receives \/ ReceivesAll)
  <2>1. request # NoTransfer /\ request.object = "1F50" /\ UNCHANGED <<running, timer>>
    BY <1>10 DEF Receives, ReceivesAll, Addressed, Confirms, clientVars
  <2>2. answer = "none"
    BY <2>1 DEF Answered
  <2>3. /\ prog \in {"CONTINUE", "ERROR"} /\ step = "DOWNLOAD_PROGRAM"
        /\ request.value \in {"image", "truncated"} /\ program \in {"none", "part"}
    BY <2>1 DEF Asked
  <2>4. \/ request' = request /\ answer' = answer /\ program' = "part"
        \/ /\ request' = NoTransfer /\ program' \in Node!Images
           /\ answer' = answer \/ (transfer = request /\ answer' = "ok")
    BY <1>10, <2>1, <2>3 DEF Receives, ReceivesAll, Confirms, clientVars, Node!Images
  <2>5. TypeOK'
    BY <1>5, <2>1, <2>2, <2>4 DEF TypeOK, Node!Programs, Node!Images
  <2>6. Asked'
    BY <1>1, <1>2, <2>1, <2>3, <2>4 DEF Asked, details
  <2>7. Opened'
    BY <1>1, <1>2, <1>3, <2>1, <2>3, <2>4 DEF Opened, details, Requested
  <2>8. AtStep'
    BY <1>1, <1>2, <2>1, <2>3, <2>4 DEF AtStep, details, Requested, Node!Images
  <2>9. Answered'
    BY <1>1, <1>2, <2>1, <2>2, <2>3, <2>4 DEF Answered, details
  <2> QED
    BY <1>4, <2>5, <2>6, <2>7, <2>8, <2>9
<1>11. CASE Bus /\ (Reads \/ NotDone)
  <2>1. /\ request # NoTransfer /\ request' = NoTransfer /\ UNCHANGED <<program, running, timer>>
        /\ \/ answer' = answer
           \/ transfer = request /\ answer' \in {"abort", "malformed"}
           \/ transfer = request /\ request.dir = "upload" /\ answer' = "ok"
    BY <1>11 DEF Reads, NotDone, Addressed, Confirms
  <2>2. answer = "none"
    BY <2>1 DEF Answered
  <2>3. TypeOK'
    BY <1>5, <2>1, <2>2 DEF TypeOK
  <2>4. Asked' /\ Opened'
    BY <1>1, <1>2, <1>3, <2>1 DEF Asked, Opened, details
  <2>5. AtStep'
    BY <1>1, <1>2, <2>1 DEF AtStep, details
  <2>6. answer' = "ok" /\ prog = "CONTINUE" => step \in {"REQ_SW_VERSION", "FLASH_SUCCESSFUL"}
    <3> SUFFICES ASSUME answer' = "ok", prog = "CONTINUE"
                 PROVE  step \in {"REQ_SW_VERSION", "FLASH_SUCCESSFUL"}
      OBVIOUS
    <3>1. transfer = request /\ request.dir = "upload"
      BY <2>1, <2>2
    <3>2. step \in Steps /\ transfer = Transfer(step)
      BY <1>6, <2>1, <3>1 DEF TransferInStep, Requested, info, prog
    <3> QED
      BY <3>1, <3>2, TransferSays, StepNames
  <2>7. Answered'
    BY <1>1, <1>2, <2>1, <2>2, <2>6 DEF Answered, details
  <2> QED
    BY <1>4, <2>3, <2>4, <2>5, <2>7
<1> QED
  BY <1>8, <1>9, <1>10, <1>11 DEF Bus, Environment

-----------------------------------------------------------------------------
(* The info task. *)

\* What a transfer's update does to the client: it waits, or it is closed, with DONE only
\* for an answer that says so.
LEMMA UpdateCloses ==
  ASSUME NEW dir \in {"upload", "download"}, NEW s, Update(dir, s)
  PROVE  /\ UNCHANGED nodeVars
         /\ \/ s = "CONTINUE" /\ UNCHANGED clientVars
            \/ /\ s \in Statuses \ {"CONTINUE"} /\ transfer' = NoTransfer /\ answer' = "none"
               /\ UNCHANGED timer
               /\ s = "DONE" => answer = "ok"
               /\ answer \in {"none", "ok", "abort", "malformed"}
<1>1. CASE s = "CONTINUE" /\ Waiting
  BY <1>1 DEF Waiting
<1>2. CASE ~(s = "CONTINUE" /\ Waiting)
  <2>1. PICK ret \in {"ok", "server abort", "timeout", "other"} :
          EndsWith(ret) /\ s = Returned(dir, ret) /\ Close
    BY <1>2 DEF Update
  <2>2. s \in Statuses \ {"CONTINUE"} /\ (s = "DONE" => ret = "ok")
    BY <2>1 DEF Returned, Statuses
  <2>3. ret = "ok" => answer = "ok"
    BY <2>1 DEF EndsWith
  <2>4. answer \in {"none", "ok", "abort", "malformed"}
    BY <2>1 DEF EndsWith
  <2>5. transfer' = NoTransfer /\ answer' = "none" /\ UNCHANGED timer /\ UNCHANGED nodeVars
    BY <2>1 DEF Close
  <2> QED
    BY <2>2, <2>3, <2>4, <2>5
<1> QED
  BY <1>1, <1>2

LEMMA InfoStep ==
  ASSUME TypeOK, NoneEnded, OnlyTheFirst, NodeInv, PrepareInfo \/ InfoRequest \/ InfoWait
  PROVE  /\ TypeOK' /\ NoneEnded' /\ OnlyTheFirst' /\ NodeInv'
         /\ info \in {"PENDING", "CONTINUE"}
<1> USE DEF NodeInv
<1>1. /\ Executes("info") /\ info \in {"PENDING", "CONTINUE"} /\ pc = "loop"
      /\ UNCHANGED <<argv, optind, nodeID, options, programData, timeoutSec, programFilename,
                     sdo_process, program, running>>
  <2>1. Executes("info") /\ info \in {"PENDING", "CONTINUE"}
    BY DEF PrepareInfo, InfoRequest, InfoWait, Prepares, Updates, info
  <2>2. UNCHANGED <<nodeID, options, programData, timeoutSec, programFilename, sdo_process,
                    program, running>>
    BY UpdateCloses DEF PrepareInfo, InfoRequest, InfoWait, Begin, BeginFails, sdoVars, nodeVars
  <2> QED
    BY <2>1, <2>2 DEF Executes
<1>2. prog \in Requested /\ "info" \in Tasks /\ "program" \in Tasks
  BY <1>1, OthersWait, TaskTable DEF prog
<1>3. Args' = Args /\ Len(scan_entries) = 6 /\ printed \in Seq(Reports)
  BY <1>1, ScanTable DEF Args, Told
<1>4. ASSUME taskEntriesRequested' \in [Tasks -> TaskStates], pc' \in {"loop", "exited"},
             exit_code' \in {"none", "success", "failure", "crash"},
             step' \in {"request", "wait"}, index' \in 0..6,
             answer' \in {"none", "ok", "abort", "malformed"}, timer' \in {"running", "expired"}
      PROVE  TypeOK'
  BY <1>1, <1>3, <1>4 DEF TypeOK, TaskStates
<1>5. CASE PrepareInfo
  <2>1. /\ Prepares("info") /\ Becomes("info", "CONTINUE") /\ Stay
        /\ step' = "request" /\ index' = 0
        /\ UNCHANGED <<printed, transfer, answer, timer, request>>
    BY <1>5 DEF PrepareInfo, told, sdoVars, clientVars, nodeVars
  <2>2. /\ OnlyTheFirst' /\ NoneEnded' /\ taskEntriesRequested' \in [Tasks -> TaskStates]
        /\ prog' = prog /\ info' = "CONTINUE" /\ pc' = "loop"
    BY <1>2, <2>1, AfterPrepare DEF info, prog
  <2>3. TypeOK'
    BY <1>4, <2>1, <2>2 DEF TypeOK, Stay
  <2>4. info = "PENDING"
    BY <2>1 DEF Prepares, info
  <2>5. transfer = NoTransfer /\ request = NoTransfer
    BY <1>2, <2>4 DEF TransferInStep, Opened, Requested, info, prog
  <2>6. NodeInv'
    BY <1>1, <1>2, <2>1, <2>2, <2>4, <2>5
       DEF Prepared, TransferInStep, Asked, Opened, Answered, AtStep, Told, Requested
  <2> QED
    BY <1>1, <2>2, <2>3, <2>6
<1>6. CASE InfoRequest
  <2>1. /\ Updates("info") /\ index < 6 /\ step = "request" /\ step' = "wait"
        /\ Returns("info", "CONTINUE") /\ UNCHANGED <<printed, index>>
        /\ \/ transfer' = Entry(index) /\ request' = Entry(index) /\ answer' = "none"
              /\ timer' = "running"
           \/ UNCHANGED <<transfer, answer, timer, request>>
    BY <1>3, <1>6 DEF InfoRequest, told, Begin, BeginFails, clientVars, nodeVars
  <2>2. /\ OnlyTheFirst' /\ NoneEnded' /\ taskEntriesRequested' \in [Tasks -> TaskStates]
        /\ exit_code' \in {"none", "success", "failure", "crash"}
        /\ prog' = prog /\ info' = "CONTINUE" /\ pc' = "loop" /\ info = "CONTINUE"
    BY <1>2, <2>1, AfterReturn DEF info, prog, Updates
  <2>3. TypeOK'
    BY <1>4, <2>1, <2>2 DEF TypeOK
  <2>4. transfer = NoTransfer
    BY <1>2, <2>1 DEF TransferInStep, Requested, prog
  <2>5. Entry(index)' = Entry(index) /\ Entry(index).object \notin {"1F50", "1F51"}
    <3>1. index \in 0..5
      BY <1>3, <2>1 DEF TypeOK
    <3> QED
      BY <1>1, <2>1, <3>1, ScanTable DEF Entry
  <2>6. Prepared' /\ TransferInStep' /\ Told'
    BY <1>1, <1>2, <1>3, <2>1, <2>2, <2>4, <2>5
       DEF Prepared, TransferInStep, Told, Requested, info, prog
  <2>7. Asked' /\ Opened' /\ Answered' /\ AtStep'
    BY <1>1, <1>2, <2>1, <2>2, <2>5
       DEF Asked, Opened, Answered, AtStep, Requested
  <2> QED
    BY <1>1, <2>2, <2>3, <2>6, <2>7
<1>7. CASE InfoWait
  <2>1. PICK s \in Statuses :
          /\ Updates("info") /\ index < 6 /\ step = "wait"
          /\ Update("upload", s)
          /\ \/ /\ s = "DONE" /\ printed' = Append(printed, transfer.object)
                /\ index' = index + 1 /\ step' = "request" /\ Returns("info", "CONTINUE")
             \/ s # "DONE" /\ Returns("info", s) /\ UNCHANGED <<printed, index, step>>
    BY <1>3, <1>7 DEF InfoWait
  <2>2. /\ OnlyTheFirst' /\ NoneEnded' /\ taskEntriesRequested' \in [Tasks -> TaskStates]
        /\ exit_code' \in {"none", "success", "failure", "crash"}
        /\ prog' = prog /\ info = "CONTINUE"
        /\ s \in {"CONTINUE", "DONE"} => info' = "CONTINUE" /\ pc' = "loop"
        /\ s \notin {"CONTINUE", "DONE"} => info' = "ERROR" /\ pc' = "exited"
    BY <1>2, <2>1, AfterReturn DEF info, prog, Updates
  <2>3. /\ UNCHANGED request
        /\ \/ s = "CONTINUE" /\ UNCHANGED <<transfer, answer, timer>>
           \/ s # "CONTINUE" /\ transfer' = NoTransfer /\ answer' = "none" /\ UNCHANGED timer
    BY <2>1, UpdateCloses DEF clientVars, nodeVars
  <2>4. TypeOK'
    BY <1>3, <1>4, <2>1, <2>2, <2>3 DEF TypeOK
  <2>5. transfer = NoTransfer \/ transfer = Entry(index)
    BY <1>2 DEF TransferInStep, Requested, prog
  <2>6. transfer.object \in Reports /\ transfer.object # "failed"
    <3>1. index \in 0..5
      BY <1>3, <2>1 DEF TypeOK
    <3> QED
      BY <2>5, <3>1, ScanTable DEF Entry, NoTransfer, Reports
  <2>7. Told'
    BY <1>1, <1>2, <1>3, <2>1, <2>2, <2>6 DEF Told, Requested
  <2>8. Prepared' /\ TransferInStep'
    BY <1>1, <1>2, <1>3, <2>1, <2>2, <2>3, <2>5
       DEF Prepared, TransferInStep, Requested, info, prog, Entry
  <2>9. Asked' /\ Opened' /\ Answered' /\ AtStep'
    BY <1>1, <1>2, <2>1, <2>2, <2>3
       DEF Asked, Opened, Answered, AtStep, Requested
  <2> QED
    BY <1>1, <2>2, <2>4, <2>7, <2>8, <2>9
<1> QED
  BY <1>5, <1>6, <1>7

-----------------------------------------------------------------------------
(* The program task. *)

LEMMA FilePrepared ==
  ASSUME TypeOK, NoneEnded, OnlyTheFirst, NodeInv, FileMissing \/ FileTooLarge \/ FileRead
  PROVE  /\ TypeOK' /\ NoneEnded' /\ OnlyTheFirst' /\ NodeInv'
         /\ prog = "PENDING" /\ UNCHANGED info /\ prog' \in {"PENDING", "CONTINUE"}
         /\ exit_code' \in {"failure", exit_code}
         /\ UNCHANGED <<argv, optind>> /\ pc = "loop"
<1> USE DEF NodeInv
<1>1. /\ Prepares("program") /\ Executes("program") /\ prog = "PENDING" /\ pc = "loop"
      /\ UNCHANGED <<argv, optind, nodeID, options, timeoutSec, programFilename, printed,
                     sdo_process, transfer, answer, timer, request, program, running>>
      /\ index' = 0 /\ step' \in {"REQ_SW_VERSION", "OPERATION_ERROR"}
  BY DEF FileMissing, FileTooLarge, FileRead, Prepares, Executes, prog, told, sdoVars,
         clientVars, nodeVars
<1>2. info \in Requested /\ "info" \in Tasks /\ "program" \in Tasks
  BY <1>1, OthersWait, TaskTable DEF info
<1>3. /\ transfer = NoTransfer /\ request = NoTransfer /\ program = "old" /\ printed = <<>>
  BY <1>1, <1>2 DEF TransferInStep, Opened, AtStep, Told, Requested, info, prog
<1>4. Args' = Args /\ Len(scan_entries) = 6
  BY <1>1, ScanTable DEF Args
<1>5. CASE FileMissing
  <2>1. /\ UNCHANGED <<taskEntriesRequested, programData>> /\ pc' = "exited"
        /\ exit_code' = "failure" /\ step' = "REQ_SW_VERSION"
    BY <1>5 DEF FileMissing, Exit
  <2>2. TypeOK'
    BY <1>1, <1>4, <2>1, StepNames DEF TypeOK
  <2>3. OnlyTheFirst' /\ NoneEnded' /\ UNCHANGED <<info, prog>>
    BY <2>1 DEF OnlyTheFirst, NoneEnded, info, prog
  <2>4. NodeInv'
    BY <1>1, <1>2, <1>3, <2>1, <2>3
       DEF Prepared, TransferInStep, Asked, Opened, Answered, AtStep, Told, Requested
  <2> QED
    BY <1>1, <2>1, <2>2, <2>3, <2>4
<1>6. CASE FileTooLarge \/ FileRead
  <2>1. /\ Becomes("program", "CONTINUE") /\ Stay
        /\ \/ step' = "OPERATION_ERROR" /\ UNCHANGED programData
           \/ step' = "REQ_SW_VERSION" /\ programData' \in {"image", "truncated", "null"}
    BY <1>6 DEF FileTooLarge, FileRead
  <2>2. /\ OnlyTheFirst' /\ NoneEnded' /\ taskEntriesRequested' \in [Tasks -> TaskStates]
        /\ UNCHANGED <<info, exit_code>> /\ prog' = "CONTINUE" /\ pc' = "loop"
    BY <1>1, <1>2, <2>1, AfterPrepare DEF info, prog, Stay
  <2>3. TypeOK'
    BY <1>1, <1>4, <2>1, <2>2, StepNames DEF TypeOK, TaskStates, Stay
  <2>4. Prepared' /\ TransferInStep' /\ Asked' /\ Opened'
    BY <1>1, <1>2, <1>3, <2>1, <2>2, StepNames
       DEF Prepared, TransferInStep, Asked, Opened, Requested, info, prog
  <2>5. Answered' /\ AtStep' /\ Told'
    BY <1>1, <1>2, <1>3, <2>1, <2>2 DEF Answered, AtStep, Told, Requested
  <2> QED
    BY <1>1, <2>2, <2>3, <2>4, <2>5
<1> QED
  BY <1>5, <1>6

\* What a poll of the step's transfer does: it begins it, waits for it, ends it, or could
\* not begin it.
LEMMA PollCases ==
  ASSUME TypeOK, NodeInv, prog = "CONTINUE", info = "NO_ERROR", step \in Steps,
         NEW s, SdoTask(Transfer(step), s)
  PROVE  /\ sdo_process' \in Processes /\ UNCHANGED <<program, running>> /\ s \in Statuses
         /\ \/ /\ s = "CONTINUE" /\ transfer = NoTransfer /\ transfer' = Transfer(step)
               /\ request' = Transfer(step) /\ answer' = "none" /\ timer' = "running"
               /\ sdo_process' = WaitFor(Transfer(step).dir) /\ ~Refused(Transfer(step))
            \/ /\ s = "CONTINUE"
               /\ UNCHANGED <<sdo_process, transfer, answer, timer, request>>
            \/ /\ s # "CONTINUE" /\ transfer' = NoTransfer /\ answer' = "none"
               /\ UNCHANGED <<timer, request>>
               /\ s = "DONE" => answer = "ok"
            \/ /\ s = "ERROR" /\ transfer = NoTransfer
               /\ UNCHANGED <<transfer, answer, timer, request>>
<1> USE DEF NodeInv
<1>1. transfer # NoTransfer =>
        transfer = Transfer(step) /\ sdo_process = WaitFor(Transfer(step).dir)
  BY DEF TransferInStep, info, prog
<1>2. Transfer(step).dir \in {"upload", "download"} /\ sdo_process \in Processes
  BY TransferSays, StepNames DEF TypeOK
<1>3. WaitFor(Transfer(step).dir) \in {"WAIT_UPLOAD", "WAIT_DOWNLOAD"}
  BY <1>2 DEF WaitFor
<1>4. CASE sdo_process = "READY"
  <2>1. transfer = NoTransfer
    BY <1>1, <1>3, <1>4
  <2>2. \/ ~Refused(Transfer(step)) /\ Begin(Transfer(step)) /\ s = "CONTINUE"
           /\ sdo_process' = WaitFor(Transfer(step).dir)
        \/ BeginFails /\ s = "ERROR" /\ UNCHANGED sdo_process
    BY <1>3, <1>4 DEF SdoTask
  <2>3. CASE BeginFails /\ s = "ERROR" /\ UNCHANGED sdo_process
    BY <1>2, <2>1, <2>3 DEF BeginFails, clientVars, nodeVars, Statuses
  <2>4. CASE ~Refused(Transfer(step)) /\ Begin(Transfer(step)) /\ s = "CONTINUE"
             /\ sdo_process' = WaitFor(Transfer(step).dir)
    BY <1>3, <2>1, <2>4 DEF Begin, Statuses, Processes
  <2> QED
    BY <2>2, <2>3, <2>4
<1>5. CASE sdo_process = WaitFor(Transfer(step).dir)
  <2>1. Update(Transfer(step).dir, s) /\ sdo_process' = IF s = "CONTINUE" THEN sdo_process ELSE "READY"
    BY <1>3, <1>5 DEF SdoTask
  <2>2. sdo_process' \in Processes
    BY <1>2, <2>1 DEF Processes
  <2>3. /\ UNCHANGED <<request, program, running>>
        /\ \/ s = "CONTINUE" /\ UNCHANGED <<transfer, answer, timer>>
           \/ /\ s \in Statuses \ {"CONTINUE"} /\ transfer' = NoTransfer /\ answer' = "none"
              /\ UNCHANGED timer
              /\ s = "DONE" => answer = "ok"
    BY <1>2, <2>1, UpdateCloses DEF clientVars, nodeVars
  <2> QED
    BY <2>1, <2>2, <2>3 DEF Statuses
<1>6. CASE sdo_process \notin {"READY", WaitFor(Transfer(step).dir)}
  <2>1. s = "ERROR" /\ sdo_process' = "READY" /\ UNCHANGED <<transfer, answer, timer, request, program, running>>
    BY <1>6 DEF SdoTask, clientVars, nodeVars
  <2>2. transfer = NoTransfer
    BY <1>1, <1>6
  <2> QED
    BY <2>1, <2>2 DEF Statuses, Processes
<1> QED
  BY <1>4, <1>5, <1>6

\* The task polls, goes to its next step, ends, or fails.
LEMMA ProgramKeeps ==
  ASSUME TypeOK, NoneEnded, OnlyTheFirst, NodeInv, ProgramStep \/ ProgramStart \/ ProgramFails
  PROVE  /\ TypeOK' /\ NoneEnded' /\ OnlyTheFirst' /\ NodeInv'
         /\ prog = "CONTINUE" /\ UNCHANGED info /\ prog' \in {"CONTINUE", "DONE", "ERROR"}
         /\ exit_code' = "success" => prog' = "DONE" \/ exit_code = "success"
<1> USE DEF NodeInv
<1>1. /\ Updates("program") /\ Executes("program") /\ prog = "CONTINUE" /\ pc = "loop"
      /\ step \in Steps
      /\ UNCHANGED <<argv, optind, nodeID, options, index, programFilename>>
  BY DEF ProgramStep, ProgramStart, ProgramFails, Updates, Executes, prog, Steps
<1>2. info = "NO_ERROR" /\ "info" \in Tasks /\ "program" \in Tasks /\ Args' = Args
  BY <1>1, NotBoth, TaskTable DEF Args, Requested
<1>3. /\ printed = <<>> /\ programData # "junk"
      /\ programData \in {"junk", "null", "image", "truncated"}
  BY <1>1 DEF Told, Prepared, TypeOK
<1>4. Transfer(step)' = Transfer(step) \/ programData' # programData \/ step' # step
  BY <1>1 DEF Transfer, Step
<1>5. ASSUME NEW s \in {"CONTINUE", "DONE", "ERROR"}, NEW r \in Statuses,
             s = "ERROR" => r \notin {"CONTINUE", "DONE"}, s # "ERROR" => r = s,
             Returns("program", r)
      PROVE  /\ OnlyTheFirst' /\ NoneEnded' /\ taskEntriesRequested' \in [Tasks -> TaskStates]
             /\ exit_code' \in {"none", "success", "failure", "crash"}
             /\ UNCHANGED info /\ prog' = s
             /\ pc' = (IF s = "CONTINUE" THEN "loop" ELSE "exited")
  BY <1>1, <1>2, <1>5, AfterReturn DEF info, prog
<1>6. ASSUME taskEntriesRequested' \in [Tasks -> TaskStates], pc' \in {"loop", "exited"},
             exit_code' \in {"none", "success", "failure", "crash"},
             step' \in Steps, timeoutSec' \in {"past", "soon", "never"},
             programData' \in {"junk", "null", "image", "truncated"},
             sdo_process' \in Processes, UNCHANGED <<program, running>>,
             answer' \in {"none", "ok", "abort", "malformed"}, timer' \in {"running", "expired"}
      PROVE  TypeOK'
  BY <1>1, <1>2, <1>6 DEF TypeOK, TaskStates
<1>7. ASSUME NEW s, SdoTask(Transfer(step), s)
      PROVE  /\ sdo_process' \in Processes /\ UNCHANGED <<program, running>> /\ s \in Statuses
             /\ answer' \in {"none", answer} /\ timer' \in {"running", timer}
             /\ s # "CONTINUE" => transfer' = NoTransfer /\ UNCHANGED request
             /\ s = "DONE" => answer' = "none" /\ answer = "ok"
  <2>1. TypeOK /\ NodeInv /\ prog = "CONTINUE" /\ info = "NO_ERROR" /\ step \in Steps
    BY <1>1, <1>2
  <2> HIDE DEF NodeInv
  <2> QED
    BY <1>7, <2>1, PollCases
<1>8. CASE /\ SdoTask(Transfer(step), "CONTINUE") /\ Returns("program", "CONTINUE")
           /\ UNCHANGED <<step, timeoutSec, printed, programData>>
  <2>1. /\ OnlyTheFirst' /\ NoneEnded' /\ taskEntriesRequested' \in [Tasks -> TaskStates]
        /\ UNCHANGED info /\ prog' = "CONTINUE" /\ pc' = "loop" /\ UNCHANGED exit_code
    <3>1. UNCHANGED exit_code
      BY <1>8 DEF Returns, Stay
    <3> QED
      BY <1>5, <1>8, <3>1 DEF Statuses
  <2>2. TypeOK'
    BY <1>1, <1>6, <1>7, <1>8, <2>1 DEF TypeOK
  <2>3. Prepared' /\ Told' /\ UNCHANGED <<program, running>> /\ Transfer(step)' = Transfer(step)
    BY <1>1, <1>2, <1>4, <1>7, <1>8, <2>1 DEF Prepared, Told, Requested
  <2>4. CASE UNCHANGED <<sdo_process, transfer, answer, timer, request>>
    BY <1>1, <1>2, <1>8, <2>1, <2>2, <2>3, <2>4
       DEF TransferInStep, Asked, Opened, Answered, AtStep, Requested, info, prog
  <2>5. CASE /\ transfer = NoTransfer /\ transfer' = Transfer(step)
             /\ request' = Transfer(step) /\ answer' = "none" /\ timer' = "running"
             /\ sdo_process' = WaitFor(Transfer(step).dir) /\ ~Refused(Transfer(step))
    <3>1. TransferInStep'
      BY <1>1, <1>8, <2>1, <2>3, <2>5 DEF TransferInStep, info, prog
    <3>2. step = "DOWNLOAD_PROGRAM" => program = "none" /\ programData \in {"image", "truncated"}
      BY <1>1, <1>3, <2>5, TransferSays DEF Opened, Refused
    <3>3. Asked'
      BY <1>1, <1>8, <2>1, <2>3, <2>5, <3>2, TransferSays, StepNames DEF Asked
    <3>4. Opened' /\ Answered' /\ AtStep'
      BY <1>1, <1>2, <1>8, <2>1, <2>3, <2>5 DEF Opened, Answered, AtStep, Requested
    <3> QED
      BY <1>1, <2>1, <2>2, <2>3, <3>1, <3>3, <3>4
  <2> QED
    BY <1>1, <1>2, <1>8, <2>4, <2>5, PollCases
<1>9. CASE /\ SdoTask(Transfer(step), "DONE") /\ Returns("program", "CONTINUE")
           /\ step \in DOMAIN NextStep /\ step' = NextStep[step] /\ timeoutSec' = "soon"
           /\ UNCHANGED <<printed, programData>>
  <2>1. /\ OnlyTheFirst' /\ NoneEnded' /\ taskEntriesRequested' \in [Tasks -> TaskStates]
        /\ UNCHANGED info /\ prog' = "CONTINUE" /\ pc' = "loop" /\ UNCHANGED exit_code
    <3>1. UNCHANGED exit_code
      BY <1>9 DEF Returns, Stay
    <3> QED
      BY <1>5, <1>9, <3>1 DEF Statuses
  <2>2. transfer' = NoTransfer /\ answer' = "none" /\ UNCHANGED request /\ answer = "ok"
    BY <1>7, <1>9
  <2>3. request = NoTransfer
    BY <2>2 DEF Answered
  <2>4. \/ step = "REQ_SW_VERSION" /\ step' = "STOP_PROGRAM"
        \/ step = "STOP_PROGRAM" /\ step' = "CLEAR_PROGRAM"
        \/ step = "CLEAR_PROGRAM" /\ step' = "DOWNLOAD_PROGRAM"
        \/ step = "DOWNLOAD_PROGRAM" /\ step' = "FLASH_SUCCESSFUL"
        \/ step = "FLASH_SUCCESSFUL" /\ step' = "START_PROGRAM"
    BY <1>9 DEF NextStep
  <2>5. TypeOK'
    BY <1>3, <1>6, <1>7, <1>9, <2>1, <2>4, StepNames DEF TypeOK
  <2>6. Prepared' /\ Told' /\ TransferInStep' /\ Asked' /\ Answered'
    BY <1>2, <1>3, <1>9, <2>1, <2>2, <2>3, <2>4, StepNames
       DEF Prepared, Told, TransferInStep, Asked, Answered, Requested
  <2>7. UNCHANGED <<program, running>>
    BY <1>7, <1>9
  <2>8. Opened'
    BY <1>1, <1>2, <2>1, <2>2, <2>3, <2>4, <2>7 DEF Opened, Answered, Requested
  <2>9. /\ step' = "STOP_PROGRAM" => program = "old"
        /\ step' = "CLEAR_PROGRAM" => ~running /\ program \in {"old", "none"}
        /\ step' = "DOWNLOAD_PROGRAM" => ~running /\ program # "old"
        /\ step' = "FLASH_SUCCESSFUL" => ~running /\ program \in Node!Images
        /\ step' = "START_PROGRAM" => program \in Node!Images
    BY <1>1, <2>2, <2>4 DEF AtStep, Answered
  <2>10. AtStep'
    BY <2>1, <2>4, <2>7, <2>9 DEF AtStep, Requested
  <2> QED
    BY <1>1, <2>1, <2>5, <2>6, <2>8, <2>10
<1>10. CASE /\ SdoTask(Transfer(step), "DONE") /\ Returns("program", "DONE")
            /\ step = "START_PROGRAM" /\ step' = "CLEAR_PROGRAM" /\ UNCHANGED timeoutSec
            /\ Verdict("flashed")
  <2>1. /\ OnlyTheFirst' /\ NoneEnded' /\ taskEntriesRequested' \in [Tasks -> TaskStates]
        /\ exit_code' \in {"none", "success", "failure", "crash"}
        /\ UNCHANGED info /\ prog' = "DONE" /\ pc' = "exited"
    BY <1>5, <1>10 DEF Statuses
  <2>2. transfer' = NoTransfer /\ answer' = "none" /\ UNCHANGED request /\ answer = "ok"
    BY <1>7, <1>10
  <2>3. request = NoTransfer /\ running /\ program \in Node!Images
    BY <1>1, <1>10, <2>2 DEF Answered, AtStep
  <2>4. printed' = <<"flashed">> /\ programData' = "null" /\ printed' \in Seq(Reports)
    BY <1>3, <1>10 DEF Verdict, Reports
  <2>5. TypeOK'
    BY <1>6, <1>7, <1>10, <2>1, <2>4, StepNames DEF TypeOK
  <2>6. NodeInv'
    BY <1>2, <1>7, <1>10, <2>1, <2>2, <2>3, <2>4
       DEF Prepared, Told, TransferInStep, Asked, Opened, Answered, AtStep, Requested
  <2> QED
    BY <1>1, <2>1, <2>5, <2>6
<1>11. ASSUME NEW s \in Statuses \ {"CONTINUE", "DONE"}, SdoTask(Transfer(step), s),
              Returns("program", s), UNCHANGED <<step, timeoutSec>>, Verdict("failed")
       PROVE  /\ TypeOK' /\ NoneEnded' /\ OnlyTheFirst' /\ NodeInv' /\ UNCHANGED info
              /\ prog' = "ERROR" /\ exit_code' = "failure"
  <2>1. /\ OnlyTheFirst' /\ NoneEnded' /\ taskEntriesRequested' \in [Tasks -> TaskStates]
        /\ exit_code' = "failure"
        /\ UNCHANGED info /\ prog' = "ERROR" /\ pc' = "exited"
    <3>1. exit_code' = "failure"
      BY <1>11 DEF Returns, Exit
    <3> QED
      BY <1>5, <1>11, <3>1
  <2>2. transfer' = NoTransfer /\ UNCHANGED request /\ answer' \in {"none", answer}
    BY <1>7, <1>11
  <2>3. printed' = <<"failed">> /\ programData' = "null" /\ printed' \in Seq(Reports)
    BY <1>3, <1>11 DEF Verdict, Reports
  <2>4. TypeOK'
    BY <1>1, <1>6, <1>7, <1>11, <2>1, <2>3 DEF TypeOK
  <2>5. UNCHANGED <<program, running>>
    BY <1>7, <1>11
  <2>6. NodeInv'
    BY <1>1, <1>2, <1>11, <2>1, <2>2, <2>3, <2>5
       DEF Prepared, Told, TransferInStep, Asked, Opened, Answered, AtStep, Requested
  <2> QED
    BY <2>1, <2>4, <2>6
<1>12. CASE ProgramStep
  BY <1>8, <1>9, <1>12, <1>1 DEF ProgramStep, told
<1>13. CASE ProgramStart
  BY <1>8, <1>10, <1>13, <1>1 DEF ProgramStart
<1>14. CASE ProgramFails
  BY <1>11, <1>14, <1>1 DEF ProgramFails
<1> QED
  BY <1>12, <1>13, <1>14

LEMMA RefusedStep ==
  ASSUME TypeOK, NoneEnded, OnlyTheFirst, NodeInv, ProgramRefused
  PROVE  /\ TypeOK' /\ NoneEnded' /\ OnlyTheFirst' /\ NodeInv'
         /\ prog = "CONTINUE" /\ UNCHANGED info /\ prog' \in {"CONTINUE", "ERROR"}
         /\ exit_code' # "success"
<1> USE DEF NodeInv
<1>1. /\ Updates("program") /\ Executes("program") /\ prog = "CONTINUE" /\ pc = "loop"
      /\ step = "OPERATION_ERROR" /\ Verdict("failed")
      /\ UNCHANGED <<argv, optind, nodeID, options, step, index, timeoutSec, programFilename,
                     sdo_process, transfer, answer, timer, request, program, running>>
      /\ \/ Returns("program", "ERROR")
         \/ pc' = "exited" /\ exit_code' = "crash" /\ UNCHANGED taskEntriesRequested
  BY DEF ProgramRefused, Updates, Executes, prog, Exit, sdoVars, clientVars, nodeVars
<1>2. info = "NO_ERROR" /\ "info" \in Tasks /\ "program" \in Tasks /\ Args' = Args
  BY <1>1, NotBoth, TaskTable DEF Args, Requested
<1>3. printed' = <<"failed">> /\ programData' = "null" /\ printed' \in Seq(Reports)
  BY <1>1 DEF Verdict, Told, Reports
<1>4. /\ OnlyTheFirst' /\ NoneEnded' /\ taskEntriesRequested' \in [Tasks -> TaskStates]
      /\ exit_code' \in {"failure", "crash"}
      /\ UNCHANGED info /\ prog' \in {"CONTINUE", "ERROR"} /\ pc' = "exited"
  <2>1. CASE Returns("program", "ERROR")
    <3>1. exit_code' = "failure"
      BY <2>1 DEF Returns, Exit
    <3> QED
      BY <1>1, <1>2, <2>1, <3>1, AfterReturn DEF info, prog
  <2>2. CASE pc' = "exited" /\ exit_code' = "crash" /\ UNCHANGED taskEntriesRequested
    BY <1>1, <2>2 DEF TypeOK, TaskStates, OnlyTheFirst, NoneEnded, info, prog
  <2> QED
    BY <1>1, <2>1, <2>2
<1>5. TypeOK'
  BY <1>1, <1>2, <1>3, <1>4 DEF TypeOK, TaskStates
<1>6. transfer = NoTransfer
  BY <1>1, <1>2, StepNames DEF TransferInStep, Requested, info, prog
<1>7. Prepared' /\ TransferInStep' /\ Told'
  BY <1>1, <1>2, <1>3, <1>4, <1>6, StepNames DEF Prepared, TransferInStep, Told, Requested
<1>8. Asked' /\ Opened' /\ Answered' /\ AtStep'
  BY <1>1, <1>2, <1>4 DEF Asked, Opened, Answered, AtStep, Requested
<1> QED
  BY <1>1, <1>4, <1>5, <1>7, <1>8

LEMMA ParseKeepsNode ==
  ASSUME TypeOK, NoneEnded, OnlyTheFirst, NodeInv, Parse
  PROVE  NodeInv'
<1>1. /\ info \in Requested /\ prog \in Requested /\ info' \in Requested /\ prog' \in Requested
      /\ UNCHANGED <<programData, step, index, printed, sdo_process, transfer, answer, timer,
                     request, program, running>>
  BY ParseStep, TaskTable DEF info, prog, sdoVars, clientVars, nodeVars
<1>2. Prepared' /\ TransferInStep' /\ Told'
  BY <1>1 DEF NodeInv, Prepared, TransferInStep, Told, Requested, info, prog
<1>3. Asked' /\ Opened' /\ Answered' /\ AtStep'
  BY <1>1 DEF NodeInv, Asked, Opened, Answered, AtStep, Requested
<1> QED
  BY <1>2, <1>3 DEF NodeInv

LEMMA QuietKeepsNode ==
  ASSUME TypeOK, NoneEnded, OnlyTheFirst, NodeInv, Quiet
  PROVE  NodeInv'
<1> USE DEF NodeInv
<1>1. /\ prog' = prog
      /\ info' = info \/ (InfoDone /\ info' = "DONE")
      /\ pc' = "loop" => pc = "loop"
      /\ UNCHANGED <<nodeID, programData, step, index, printed, sdo_process, transfer, answer,
                     timer, request, program, running>>
  BY QuietStep DEF sdoVars, clientVars, nodeVars
<1>2. Transfer(step)' = Transfer(step) /\ Entry(index)' = Entry(index)
  BY <1>1 DEF Transfer, Step, Entry
<1>3. CASE info' = info
  <2>1. Prepared' /\ TransferInStep' /\ Told'
    BY <1>1, <1>2, <1>3 DEF Prepared, TransferInStep, Told, info, prog
  <2>2. Asked' /\ Opened' /\ Answered' /\ AtStep'
    BY <1>1, <1>3 DEF Asked, Opened, Answered, AtStep
  <2> QED
    BY <2>1, <2>2
<1>4. CASE InfoDone /\ info' = "DONE"
  <2>1. info = "CONTINUE" /\ index >= Len(scan_entries) /\ Executes("info")
    BY <1>4 DEF InfoDone, Updates, info
  <2>2. prog \in Requested
    BY <2>1, OthersWait, TaskTable DEF prog
  <2>3. ~(index < Len(scan_entries))
    BY <2>1, ScanTable DEF TypeOK
  <2>4. transfer = NoTransfer
    BY <2>1, <2>2, <2>3 DEF Prepared, TransferInStep, Requested, prog
  <2>5. Prepared' /\ TransferInStep' /\ Told'
    BY <1>1, <1>4, <2>1, <2>2, <2>4 DEF Prepared, TransferInStep, Told, Requested
  <2>6. Asked' /\ Opened' /\ Answered' /\ AtStep'
    BY <1>1, <1>4, <2>1, <2>2 DEF Asked, Opened, Answered, AtStep, Requested
  <2> QED
    BY <2>5, <2>6
<1> QED
  BY <1>1, <1>3, <1>4

-----------------------------------------------------------------------------
(* The inductive invariant. *)

LEMMA InitEstablishes == Init => IInv
<1> SUFFICES ASSUME Init PROVE IInv
  OBVIOUS
<1>1. /\ \A t \in Tasks : taskEntriesRequested[t] = "NO_ERROR"
      /\ taskEntriesRequested \in [Tasks -> TaskStates]
  BY DEF Init, TaskStates
<1>2. info = "NO_ERROR" /\ prog = "NO_ERROR"
  BY <1>1, TaskTable DEF info, prog
<1>3. Len(argv) \in Nat /\ Len(scan_entries) = 6
  BY CommandLinesAssumption, ScanTable DEF Init
<1>4. TypeOK
  BY <1>1, <1>3 DEF Init, SdoInit, TypeOK, TaskStates, Files, BYTE, DEFAULT_SERVER_NODE_ID,
                    Node!Programs
<1>5. NoneEnded /\ OnlyTheFirst
  BY <1>1, TaskTable DEF Init, NoneEnded, OnlyTheFirst, Requested
<1>6. printed = <<>> /\ printed \in Seq(Reports)
  BY DEF Init
<1>7. NodeInv
  BY <1>2, <1>6 DEF Init, SdoInit, NodeInv, Prepared, TransferInStep, Asked, Opened, Answered,
                    AtStep, Told, Requested
<1>8. FileFirst
  BY <1>2, <1>3 DEF Init, FileFirst
<1> QED
  BY <1>4, <1>5, <1>7, <1>8 DEF IInv

\* Which task a command line that names a file comes to.
LEMMA FileFirstStep ==
  ASSUME IInv, [Next]_vars
  PROVE  FileFirst'
<1> SUFFICES ASSUME Given("f")', ~Given("d")', ~Given("v")'
             PROVE  /\ info' = "NO_ERROR"
                    /\ \A i \in 1..Len(argv') :
                         i < optind' /\ argv'[i].key = "f" => prog' # "NO_ERROR"
                    /\ pc' = "loop" => optind' > Len(argv')
                    /\ exit_code' = "success" => prog' = "DONE"
  BY DEF FileFirst
<1> USE DEF IInv
<1>1. UNCHANGED argv
  BY DEF Next, Main, Parse, ParseTask, ParseFile, ParseCommand, ParseNode, ParseVersion,
         ParseOption, canopen_init, Info, PrepareInfo, InfoDone, InfoRequest, InfoWait, Program,
         FileMissing, FileTooLarge, FileRead, ProgramStep, ProgramStart, ProgramFails,
         ProgramRefused, Command, NothingToDo, PrepareCommand, SendCommand, SendState, Delayed,
         Elapse, Bus, Timer, programVars, Exited, vars, Executes, Prepares, Updates
<1>2. /\ \E i \in 1..Len(argv) : argv[i].key = "f"
      /\ \A i \in 1..Len(argv) : argv[i].key \notin {"d", "v"}
  BY <1>1 DEF Given
<1>3. /\ info = "NO_ERROR"
      /\ \A i \in 1..Len(argv) : i < optind /\ argv[i].key = "f" => prog # "NO_ERROR"
      /\ pc = "loop" => optind > Len(argv)
      /\ exit_code = "success" => prog = "DONE"
  BY <1>2 DEF FileFirst, Given
<1>4. optind \in Nat /\ Len(argv) \in Nat /\ taskEntriesRequested \in [Tasks -> TaskStates]
  BY CommandLinesAssumption DEF TypeOK, TaskStates
<1>5. pc = "loop" => prog \in {"PENDING", "CONTINUE"}
  <2> SUFFICES ASSUME pc = "loop" PROVE prog \in {"PENDING", "CONTINUE"}
    OBVIOUS
  <2>1. prog # "NO_ERROR"
    BY <1>2, <1>3, <1>4
  <2> QED
    BY <1>4, <2>1, TaskTable DEF NoneEnded, TaskStates, prog
<1>6. CASE UNCHANGED <<optind, pc, exit_code, taskEntriesRequested>>
  BY <1>1, <1>3, <1>6 DEF info, prog
<1>7. CASE Parse
  <2>1. CASE canopen_init
    BY <1>1, <1>3, <1>4, <2>1 DEF canopen_init, Exit, info, prog
  <2>2. CASE ParseNode \/ ParseVersion
    <3>1. /\ optind \in 1..Len(argv) /\ optind' = optind + 1 /\ UNCHANGED taskEntriesRequested
          /\ argv[optind].key \in {"n", "v"} /\ pc = "parse"
      BY <1>4, <2>2 DEF ParseNode, ParseVersion, ParseOption, Opt, TypeOK
    <3>2. UNCHANGED <<pc, exit_code>>
      BY <1>2, <2>2, <3>1 DEF ParseNode, ParseVersion, ParseOption, Stay, Opt
    <3> QED
      BY <1>1, <1>3, <1>4, <3>1, <3>2 DEF info, prog
  <2>3. CASE ParseTask \/ ParseFile \/ ParseCommand
    <3>1. /\ optind \in 1..Len(argv) /\ optind' = optind + 1 /\ pc = "parse"
          /\ Opt.key \in {"f", "d", "r", "s", "t", "e"} /\ UNCHANGED <<pc, exit_code>>
          /\ taskEntriesRequested' =
               [taskEntriesRequested EXCEPT ![TaskOf[Opt.key]] = "PENDING"]
      <4>1. TaskOf["f"] = "program"
        BY DEF TaskOf
      <4> QED
        BY <1>4, <2>3, <4>1 DEF ParseTask, ParseFile, ParseCommand, ParseOption, Stay, addTask,
                                TypeOK
    <3>2. TaskOf[Opt.key] \in Tasks /\ TaskOf[Opt.key] # "info"
          /\ (Opt.key = "f" => TaskOf[Opt.key] = "program")
      BY <1>2, <3>1, TaskTable DEF TaskOf, Opt
    <3>3. UNCHANGED info /\ prog' \in {prog, "PENDING"} /\ (Opt.key = "f" => prog' = "PENDING")
      BY <1>4, <3>1, <3>2, TaskTable DEF info, prog
    <3>4. exit_code' # "success"
      BY <1>3, <1>4, <3>1, TaskTable DEF NoneEnded, Requested, prog
    <3> QED
      BY <1>1, <1>3, <1>4, <3>1, <3>3, <3>4 DEF Opt
  <2> QED
    BY <1>7, <2>1, <2>2, <2>3 DEF Parse
<1>8. CASE Info \/ NothingToDo
  <2>1. pc = "loop"
    BY <1>8 DEF Info, PrepareInfo, InfoDone, InfoRequest, InfoWait, NothingToDo, Prepares,
                Updates, Executes
  <2>2. ~Info
    BY <1>3 DEF Info, PrepareInfo, InfoDone, InfoRequest, InfoWait, Prepares, Updates, info
  <2>3. ~NothingToDo
    BY <1>5, <2>1, TaskTable DEF NothingToDo, prog
  <2> QED
    BY <1>8, <2>2, <2>3
<1>9. CASE PrepareCommand \/ SendCommand \/ SendState
  <2>1. PICK t \in {"reset", "state", "test", "estop"} : Executes(t)
    BY <1>9 DEF PrepareCommand, SendCommand, SendState, Prepares, Updates
  <2>2. PICK i \in 1..6 :
          /\ t = taskEntries[i]
          /\ \A j \in 1..(i - 1) : taskEntriesRequested[taskEntries[j]] = "NO_ERROR"
    BY <2>1, OthersWait
  <2>3. i # 1 /\ i # 2
    BY <2>2, TaskTable
  <2>4. taskEntriesRequested[taskEntries[2]] = "NO_ERROR"
    BY <2>2, <2>3
  <2>5. pc = "loop"
    BY <2>1 DEF Executes
  <2> QED
    BY <1>5, <2>4, <2>5, TaskTable DEF prog
<1>10. CASE FileMissing \/ FileTooLarge \/ FileRead
  BY <1>1, <1>3, <1>4, <1>10, FilePrepared
<1>11. CASE ProgramStep \/ ProgramStart \/ ProgramFails \/ ProgramRefused
  <2>1. UNCHANGED optind /\ pc = "loop"
    BY <1>11 DEF ProgramStep, ProgramStart, ProgramFails, ProgramRefused, Updates, Executes
  <2>2. /\ prog = "CONTINUE" /\ UNCHANGED info /\ prog' \in {"CONTINUE", "DONE", "ERROR"}
        /\ exit_code' = "success" => prog' = "DONE" \/ exit_code = "success"
    BY <1>11, ProgramKeeps, RefusedStep
  <2> QED
    BY <1>1, <1>3, <2>1, <2>2
<1>12. CASE Delayed \/ Elapse \/ Bus \/ Timer \/ Exited \/ UNCHANGED vars
  BY <1>6, <1>12 DEF Delayed, Elapse, Bus, Timer, Exited, vars, programVars
<1> QED
  BY <1>7, <1>8, <1>9, <1>10, <1>11, <1>12 DEF Next, Main, Program, Command

LEMMA StepKeeps == IInv /\ [Next]_vars => IInv'
<1> SUFFICES ASSUME IInv, [Next]_vars PROVE IInv'
  OBVIOUS
<1>1. TypeOK /\ NoneEnded /\ OnlyTheFirst /\ NodeInv
  BY DEF IInv
<1>2. FileFirst'
  BY FileFirstStep
<1>3. CASE Parse
  BY <1>1, <1>2, <1>3, ParseStep, ParseKeepsNode DEF IInv
<1>4. CASE Quiet
  BY <1>1, <1>2, <1>4, QuietStep, QuietKeepsNode DEF IInv
<1>5. CASE PrepareInfo \/ InfoRequest \/ InfoWait
  BY <1>1, <1>2, <1>5, InfoStep DEF IInv
<1>6. CASE FileMissing \/ FileTooLarge \/ FileRead
  BY <1>1, <1>2, <1>6, FilePrepared DEF IInv
<1>7. CASE ProgramStep \/ ProgramStart \/ ProgramFails
  BY <1>1, <1>2, <1>7, ProgramKeeps DEF IInv
<1>8. CASE ProgramRefused
  BY <1>1, <1>2, <1>8, RefusedStep DEF IInv
<1>9. CASE Bus \/ Timer
  <2>1. TypeOK' /\ NodeInv'
    BY <1>1, <1>9, BusStep
  <2>2. NoneEnded' /\ OnlyTheFirst'
    BY <1>1, <1>9 DEF Bus, Timer, programVars, NoneEnded, OnlyTheFirst
  <2> QED
    BY <1>2, <2>1, <2>2 DEF IInv
<1> QED
  BY <1>3, <1>4, <1>5, <1>6, <1>7, <1>8, <1>9
     DEF Next, Main, Info, Program, Command, Quiet

LEMMA IInvHolds == Spec => []IInv
BY InitEstablishes, StepKeeps, PTL DEF Spec

-----------------------------------------------------------------------------
\* Command line, tasks, transfers and node keep their types for every command line
\* (CU_COMMAND.c:60-150, CU_TASK.c:92-136).
THEOREM TypeCorrectness == Spec => []TypeOK
<1>1. IInv => TypeOK
  BY DEF IInv
<1> QED
  BY <1>1, IInvHolds, PTL

\* However many tasks are asked for, only the first in the table's order is ever begun
\* (CU_TASK.c:92-136, main.c:130-136).
THEOREM OnlyTheFirstIsBegun == Spec => []OnlyTheFirst
<1>1. IInv => OnlyTheFirst
  BY DEF IInv
<1> QED
  BY <1>1, IInvHolds, PTL

\* An open transfer is that of the entry or of the step at hand
\* (CU_TASK_SDO.c:147-245, CU_TASK_PROGRAM.c:113-219).
THEOREM TransfersFollowTasks == Spec => []TransferInStep
<1>1. IInv => TransferInStep
  BY DEF IInv, NodeInv
<1> QED
  BY <1>1, IInvHolds, PTL

\* The step at which the program task failed tells what is left of the node
\* (CU_TASK_PROGRAM.c:113-212).
THEOREM FailureTellsWhatIsLeft == Spec => []WhatIsLeft
<1>1. IInv => WhatIsLeft
  <2> SUFFICES ASSUME IInv, printed = <<"failed">> PROVE WhatIsLeft
    BY DEF WhatIsLeft
  <2>1. prog \in {"CONTINUE", "ERROR"}
    <3>1. prog \in TaskStates
      BY TaskTable DEF IInv, TypeOK, TaskStates, prog
    <3>2. prog \notin Requested /\ prog # "DONE"
      BY DEF IInv, NodeInv, Told
    <3> QED
      BY <3>1, <3>2 DEF TaskStates, Requested
  <2> QED
    BY <2>1 DEF IInv, NodeInv, AtStep, WhatIsLeft
<1> QED
  BY <1>1, IInvHolds, PTL

\* Exit status 0 of a command line whose first task is the program means that the node runs
\* a program that it received to its end (CU_TASK_PROGRAM.c:94, 174, 202-207).
THEOREM SuccessIsFlashed == Spec => []SuccessMeansFlashed
<1>1. IInv => SuccessMeansFlashed
  BY DEF IInv, NodeInv, FileFirst, Told, AtStep, SuccessMeansFlashed
<1> QED
  BY <1>1, IInvHolds, PTL

-----------------------------------------------------------------------------
(* The refinement: what happens to the node's program is allowed by NodeProgram. *)

LEMMA NodeStep == IInv /\ [Next]_vars => [Node!Next]_<<program, running>>
<1> SUFFICES ASSUME IInv, [Next]_vars PROVE [Node!Next]_<<program, running>>
  OBVIOUS
<1>1. TypeOK /\ NoneEnded /\ OnlyTheFirst /\ NodeInv
  BY DEF IInv
<1>2. CASE Parse \/ Quiet
  BY <1>1, <1>2, ParseStep, QuietStep DEF sdoVars, nodeVars
<1>3. CASE PrepareInfo \/ InfoRequest \/ InfoWait
  BY <1>3, UpdateCloses DEF PrepareInfo, InfoRequest, InfoWait, Begin, BeginFails, sdoVars,
                            nodeVars
<1>4. CASE FileMissing \/ FileTooLarge \/ FileRead \/ ProgramRefused
  BY <1>4 DEF FileMissing, FileTooLarge, FileRead, ProgramRefused, sdoVars, nodeVars
<1>5. CASE ProgramStep \/ ProgramStart \/ ProgramFails
  <2>1. PICK s : SdoTask(Transfer(step), s)
    BY <1>5 DEF ProgramStep, ProgramStart, ProgramFails
  <2>2. prog = "CONTINUE" /\ step \in Steps
    BY <1>5 DEF ProgramStep, ProgramStart, ProgramFails, Updates, prog, Steps
  <2>3. info = "NO_ERROR"
    BY <1>1, <2>2, NotBoth DEF Requested
  <2> QED
    BY <1>1, <2>1, <2>2, <2>3, PollCases
<1>6. CASE Timer \/ (Bus /\ (Reads \/ NotDone))
  BY <1>6 DEF Timer, TimerExpires, nodeVars, Reads, NotDone
<1>7. CASE Bus /\ (Controlled \/ Receives \/ ReceivesAll)
  <2>1. /\ request # NoTransfer /\ request.object \in {"1F50", "1F51"}
    BY <1>7 DEF Controlled, Receives, ReceivesAll, Addressed
  <2>2. /\ prog \in {"CONTINUE", "ERROR"}
        /\ \/ step = "STOP_PROGRAM" /\ request.object = "1F51" /\ request.value = "stop"
           \/ step = "CLEAR_PROGRAM" /\ request.object = "1F51" /\ request.value = "clear"
           \/ /\ step = "DOWNLOAD_PROGRAM" /\ request.object = "1F50"
              /\ request.value \in {"image", "truncated"} /\ program \in {"none", "part"}
           \/ step = "START_PROGRAM" /\ request.object = "1F51" /\ request.value = "start"
    BY <1>1, <2>1 DEF NodeInv, Asked
  <2>3. /\ step \in {"CLEAR_PROGRAM", "DOWNLOAD_PROGRAM"} => ~running
        /\ step = "START_PROGRAM" => program \in Node!Images
    BY <1>1, <2>2 DEF NodeInv, AtStep
  <2>4. CASE Controlled
    BY <2>2, <2>3, <2>4 DEF Controlled, Node!Next, Node!Stop, Node!Clear, Node!Start
  <2>5. CASE Receives
    BY <2>2, <2>3, <2>5 DEF Receives, Addressed, Node!Next, Node!Receive
  <2>6. CASE ReceivesAll
    BY <2>2, <2>3, <2>6 DEF ReceivesAll, Addressed, Node!Next, Node!Complete, Node!Images
  <2> QED
    BY <1>7, <2>4, <2>5, <2>6
<1> QED
  BY <1>2, <1>3, <1>4, <1>5, <1>6, <1>7
     DEF Next, Main, Info, Program, Command, Quiet, Bus, Environment

\* The old program is erased only while it stands still, the new one is written only where
\* nothing is left of it, and only a whole one is started, whatever is lost, late or fails
\* (CU_TASK_PROGRAM.c:129-196).
THEOREM ProgramsNodeSafely == Spec => ProgramsNode
<1>1. Init => Node!Init
  BY DEF Init, SdoInit, Node!Init
<1> QED
  BY <1>1, NodeStep, IInvHolds, PTL DEF Spec, ProgramsNode, Node!Spec
-----------------------------------------------------------------------------
(* The argument of a command: the options are parsed once, and none is changed later. *)

Commands == {"s", "t", "e"}

\* The last command among the options parsed so far has its argument in `options', and what
\* was sent carries what is there.
Argument ==
  /\ \A i \in 1..Len(argv) :
       /\ i < optind /\ argv[i].key \in Commands
       /\ \A j \in (i + 1)..Len(argv) : j < optind => argv[j].key \notin Commands
       => options = argv[i].arg
  /\ pc = "loop" \/ sent # <<>> => optind > Len(argv)
  /\ sent \in Seq([what : {"reset", "state", "test", "estop"}, arg : Nat])
  /\ \A n \in 1..Len(sent) : sent[n].what # "reset" => sent[n].arg = options % BYTE

LEMMA ArgumentParsed ==
  ASSUME TypeOK, Argument, Parse
  PROVE  Argument'
<1>1. /\ pc = "parse" /\ UNCHANGED <<argv, sent>> /\ argv \in Seq([key : Keys, arg : Nat, file : Files])
      /\ optind \in 1..(Len(argv) + 1)
  BY CommandLinesAssumption
     DEF Parse, ParseTask, ParseFile, ParseCommand, ParseNode, ParseVersion, ParseOption,
         canopen_init, told, TypeOK
<1>2. CASE canopen_init
  BY <1>1, <1>2 DEF canopen_init, details, told, Argument
<1>3. CASE ParseTask \/ ParseFile \/ ParseNode \/ ParseVersion \/ ParseCommand
  <2>1. /\ optind \in 1..Len(argv) /\ optind' = optind + 1 /\ pc' # "loop"
        /\ IF argv[optind].key \in Commands THEN options' = argv[optind].arg ELSE UNCHANGED options
    BY <1>1, <1>3 DEF ParseTask, ParseFile, ParseCommand, ParseNode, ParseVersion, ParseOption,
                      Stay, Exit, Opt, Commands
  <2>2. sent = <<>>
    BY <1>1, <2>1 DEF Argument
  <2>3. ASSUME NEW i \in 1..Len(argv), i < optind + 1, argv[i].key \in Commands,
               \A j \in (i + 1)..Len(argv) : j < optind + 1 => argv[j].key \notin Commands
        PROVE  options' = argv[i].arg
    <3>1. CASE i = optind
      BY <2>1, <2>3, <3>1
    <3>2. CASE i # optind
      <4>1. i < optind /\ optind \in (i + 1)..Len(argv)
        BY <1>1, <2>1, <2>3, <3>2
      <4>2. UNCHANGED options
        BY <2>1, <2>3, <4>1
      <4>3. \A j \in (i + 1)..Len(argv) : j < optind => argv[j].key \notin Commands
        BY <1>1, <2>1, <2>3
      <4> QED
        BY <2>3, <4>1, <4>2, <4>3 DEF Argument
    <3> QED
      BY <3>1, <3>2
  <2> QED
    BY <1>1, <2>1, <2>2, <2>3 DEF Argument
<1> QED
  BY <1>2, <1>3 DEF Parse

LEMMA ArgumentSent ==
  ASSUME TypeOK, Argument, SendCommand \/ SendState
  PROVE  Argument'
<1>1. PICK t \in {"reset", "state", "test", "estop"}, a \in Nat :
        /\ pc = "loop" /\ UNCHANGED <<argv, optind, options>>
        /\ t # "reset" => a = options % BYTE
        /\ Send(t, a) \/ UNCHANGED sent
  <2>1. options \in Nat
    <3>1. argv \in Seq([key : Keys, arg : Nat, file : Files])
      BY CommandLinesAssumption DEF TypeOK
    <3>2. \A i \in 1..Len(argv) : argv[i].arg \in Nat
      <4> SUFFICES ASSUME NEW i \in 1..Len(argv) PROVE argv[i].arg \in Nat
        OBVIOUS
      <4>1. argv[i] \in [key : Keys, arg : Nat, file : Files]
        BY <3>1, ElementOfSeq
      <4> QED
        BY <4>1
    <3> QED
      BY <3>2 DEF TypeOK, Args
  <2>2. options % BYTE \in Nat
    BY <2>1, ByteFits DEF BYTE
  <2>3. CASE SendState
    BY <2>2, <2>3 DEF SendState, Updates, Executes, details
  <2>4. CASE SendCommand
    <3>1. PICK t \in {"reset", "test", "estop"} :
            /\ Updates(t) /\ UNCHANGED details
            /\ Send(t, IF t = "reset" THEN 1 ELSE options % BYTE) \/ UNCHANGED sent
      BY <2>4 DEF SendCommand
    <3> QED
      BY <2>2, <3>1 DEF Updates, Executes, details
  <2> QED
    BY <2>3, <2>4
<1>2. CASE UNCHANGED sent
  BY <1>1, <1>2 DEF Argument
<1>3. CASE Send(t, a)
  <2> DEFINE c == [what |-> t, arg |-> a]
  <2>1. sent' = Append(sent, c) /\ sent \in Seq([what : {"reset", "state", "test", "estop"}, arg : Nat])
    BY <1>3 DEF Send, Argument
  <2>2. c \in [what : {"reset", "state", "test", "estop"}, arg : Nat]
    BY <1>1
  <2>3. /\ sent' \in Seq([what : {"reset", "state", "test", "estop"}, arg : Nat])
        /\ Len(sent') = Len(sent) + 1
        /\ \A n \in 1..Len(sent) : sent'[n] = sent[n]
        /\ sent'[Len(sent) + 1] = c
    BY <2>1, <2>2, AppendProperties
  <2>4. ASSUME NEW n \in 1..Len(sent'), sent'[n].what # "reset"
        PROVE  sent'[n].arg = options % BYTE
    <3>1. CASE n \in 1..Len(sent)
      BY <2>3, <2>4, <3>1 DEF Argument
    <3>2. CASE n = Len(sent) + 1
      BY <1>1, <2>3, <2>4, <3>2
    <3> QED
      BY <2>1, <2>3, <3>1, <3>2, LenProperties
  <2> QED
    BY <1>1, <2>3, <2>4 DEF Argument
<1> QED
  BY <1>1, <1>2, <1>3

LEMMA ArgumentKept == IInv /\ Argument /\ [Next]_vars => Argument'
<1> SUFFICES ASSUME IInv, Argument, [Next]_vars PROVE Argument'
  OBVIOUS
<1>1. TypeOK
  BY DEF IInv
<1>2. CASE Parse
  BY <1>1, <1>2, ArgumentParsed
<1>3. CASE SendCommand \/ SendState
  BY <1>1, <1>3, ArgumentSent
<1>4. ASSUME UNCHANGED <<argv, optind, options, sent>>, pc' = "loop" => pc = "loop"
      PROVE  Argument'
  BY <1>4 DEF Argument
<1>5. CASE Info \/ NothingToDo \/ PrepareCommand
  BY <1>4, <1>5 DEF Info, PrepareInfo, InfoDone, InfoRequest, InfoWait, NothingToDo, PrepareCommand,
                    Prepares, Updates, Executes, details, told
<1>6. CASE Program
  BY <1>4, <1>6 DEF Program, FileMissing, FileTooLarge, FileRead, ProgramStep, ProgramStart,
                    ProgramFails, ProgramRefused, Prepares, Updates, Executes, Verdict, details, told
<1>7. CASE Delayed \/ Elapse \/ Bus \/ Timer \/ Exited \/ UNCHANGED vars
  BY <1>4, <1>7 DEF Delayed, Elapse, Bus, Timer, Exited, vars, programVars, details, told
<1> QED
  BY <1>2, <1>3, <1>5, <1>6, <1>7 DEF Next, Main, Command

\* A command carries the argument that was given for it, unless another command's took its
\* place (CU_COMMAND.c:108-127).
THEOREM ArgumentsAreOwn == Spec => []ArgumentIsOwn
<1>1. Init => Argument
  BY CommandLinesAssumption DEF Init, Argument
<1>2. IInv /\ Argument => ArgumentIsOwn
  <2> SUFFICES ASSUME IInv, Argument, NEW n \in 1..Len(sent), NEW i \in 1..Len(argv),
                      argv[i].key \in Commands, TaskOf[argv[i].key] = sent[n].what,
                      \A j \in (i + 1)..Len(argv) : argv[j].key \notin Commands
               PROVE  sent[n].arg = argv[i].arg % BYTE
    BY DEF ArgumentIsOwn, Commands
  <2>1. sent # <<>> /\ sent[n].what # "reset"
    BY DEF Argument, Commands, TaskOf
  <2>2. optind > Len(argv) /\ sent[n].arg = options % BYTE
    BY <2>1 DEF Argument
  <2>3. i < optind
    BY <2>2, LenProperties, CommandLinesAssumption DEF IInv, TypeOK
  <2> QED
    BY <2>2, <2>3 DEF Argument
<1> QED
  BY <1>1, <1>2, ArgumentKept, IInvHolds, PTL DEF Spec

-----------------------------------------------------------------------------
(* What is printed of the entries. *)

EntriesTold ==
  /\ pc # "exited" => exit_code = "none"
  /\ info \in {"CONTINUE", "DONE"} => printed = SubSeq(scan_entries, 1, index)
  /\ info = "CONTINUE" => pc = "loop"
  /\ info = "DONE" => index = Len(scan_entries)
  /\ answer # "none" => transfer # NoTransfer

\* Only an open transfer is answered.
LEMMA AnswerIsAwaited ==
  ASSUME answer # "none" => transfer # NoTransfer, [Next]_vars
  PROVE  answer' # "none" => transfer' # NoTransfer
<1>1. ASSUME NEW t, NEW s, SdoTask(t, s) PROVE answer' # "none" => transfer' # NoTransfer
  BY <1>1 DEF SdoTask, Begin, BeginFails, Update, Waiting, Close, clientVars
<1>2. CASE UNCHANGED clientVars
  BY <1>2 DEF clientVars
<1>3. CASE ProgramStep \/ ProgramStart \/ ProgramFails
  <2>1. \E t, s : SdoTask(t, s)
    BY <1>3 DEF ProgramStep, ProgramStart, ProgramFails
  <2> QED
    BY <1>1, <2>1
<1>4. CASE InfoRequest \/ InfoWait
  BY <1>4 DEF InfoRequest, InfoWait, Begin, BeginFails, Update, Waiting, Close, clientVars
<1>5. CASE Bus
  BY <1>5 DEF Bus, Environment, Controlled, Receives, ReceivesAll, Reads, NotDone, Confirms,
              Addressed, clientVars
<1>6. CASE Timer
  BY <1>6 DEF Timer, TimerExpires
<1>7. CASE Parse \/ PrepareInfo \/ InfoDone
  BY <1>2, <1>7 DEF Parse, ParseTask, ParseFile, ParseCommand, ParseNode, ParseVersion, ParseOption,
                    canopen_init, PrepareInfo, InfoDone, sdoVars
<1>8. CASE FileMissing \/ FileTooLarge \/ FileRead \/ ProgramRefused \/ Command
  BY <1>2, <1>8 DEF FileMissing, FileTooLarge, FileRead, ProgramRefused, Command, NothingToDo,
                    PrepareCommand, SendCommand, SendState, sdoVars
<1>9. CASE Delayed \/ Elapse \/ Exited \/ UNCHANGED vars
  BY <1>2, <1>9 DEF Delayed, Elapse, Exited, vars, sdoVars
<1> QED
  BY <1>3, <1>4, <1>5, <1>6, <1>7, <1>8, <1>9 DEF Next, Main, Info, Program

LEMMA EntriesKept == IInv /\ EntriesTold /\ [Next]_vars => EntriesTold'
<1> SUFFICES ASSUME IInv, EntriesTold, [Next]_vars PROVE EntriesTold'
  OBVIOUS
<1>1. TypeOK /\ NoneEnded /\ OnlyTheFirst /\ NodeInv
  BY DEF IInv
<1> answer' # "none" => transfer' # NoTransfer
  BY AnswerIsAwaited DEF EntriesTold
<1>2. info \in TaskStates /\ prog \in TaskStates
  BY <1>1, TaskTable DEF TypeOK, TaskStates, info, prog
<1>3. info \notin Requested => prog \in Requested
  BY <1>1, <1>2, NotBoth DEF Requested, TaskStates
<1>4. CASE Parse
  <2>1. info' \in Requested
    BY <1>1, <1>4, ParseStep, TaskTable DEF info
  <2>2. pc' # "exited" => exit_code' = "none"
    BY <1>4 DEF Parse, ParseTask, ParseFile, ParseCommand, ParseNode, ParseVersion, ParseOption,
                canopen_init, Stay, Exit, EntriesTold
  <2> QED
    BY <2>1, <2>2 DEF EntriesTold, Requested
<1>5. CASE Delayed \/ Elapse \/ Bus \/ Timer \/ Exited \/ UNCHANGED vars
  BY <1>5 DEF Delayed, Elapse, Bus, Timer, Exited, vars, programVars, details, told, info, EntriesTold
<1>6. CASE PrepareInfo
  <2>1. Prepares("info") /\ Becomes("info", "CONTINUE") /\ Stay /\ index' = 0 /\ UNCHANGED printed
    BY <1>6 DEF PrepareInfo, told
  <2>2. info = "PENDING" /\ pc = "loop"
    BY <2>1 DEF Prepares, Executes, info
  <2>3. prog \in Requested
    BY <1>1, <1>2, <2>1, <2>2, OthersWait, TaskTable DEF Prepares, prog, Requested
  <2>4. printed = <<>>
    BY <1>1, <2>2, <2>3 DEF NodeInv, Told, Requested
  <2>5. info' = "CONTINUE" /\ pc' = "loop" /\ exit_code' = "none"
    BY <1>1, <2>1, <2>2, TaskTable DEF Becomes, Stay, EntriesTold, info, TypeOK
  <2>6. SubSeq(scan_entries, 1, 0) = <<>>
    BY DEF scan_entries
  <2> QED
    BY <2>1, <2>4, <2>5, <2>6 DEF EntriesTold
<1>7. CASE InfoDone
  <2>1. /\ Updates("info") /\ index >= Len(scan_entries) /\ Returns("info", "DONE")
        /\ UNCHANGED <<index, printed>>
    BY <1>7 DEF InfoDone, details, told
  <2>2. index = Len(scan_entries)
    BY <1>1, <2>1, ScanTable DEF TypeOK
  <2>3. info = "CONTINUE"
    BY <2>1 DEF Updates, info
  <2>4. info' = "DONE" /\ pc' = "exited"
    BY <1>1, <2>1, AfterReturn DEF info
  <2> QED
    BY <2>1, <2>2, <2>3, <2>4 DEF EntriesTold
<1>8. CASE InfoRequest
  <2>1. Updates("info") /\ Returns("info", "CONTINUE") /\ UNCHANGED <<index, printed>>
    BY <1>8 DEF InfoRequest, told
  <2>2. UNCHANGED <<pc, exit_code, taskEntriesRequested>>
    BY <2>1 DEF Returns, Stay
  <2> QED
    BY <2>1, <2>2 DEF EntriesTold, info
<1>9. CASE InfoWait
  <2>1. PICK status \in Statuses :
          /\ Updates("info") /\ index < Len(scan_entries) /\ step = "wait"
          /\ Update("upload", status)
          /\ \/ /\ status = "DONE"
                /\ printed' = Append(printed, transfer.object)
                /\ index' = index + 1
                /\ Returns("info", "CONTINUE")
             \/ /\ status # "DONE"
                /\ Returns("info", status)
                /\ UNCHANGED <<printed, index>>
    BY <1>9 DEF InfoWait
  <2>2. info = "CONTINUE" /\ pc = "loop" /\ exit_code = "none"
    BY <2>1 DEF Updates, Executes, info, EntriesTold
  <2>3. CASE status = "DONE"
    <3>1. answer = "ok"
      BY <2>1, <2>3 DEF Update, EndsWith, Returned
    <3>2. transfer # NoTransfer
      BY <3>1 DEF EntriesTold
    <3>3. transfer = Entry(index)
      BY <1>1, <1>3, <2>2, <3>2 DEF NodeInv, TransferInStep, info, prog, Requested
    <3>4. transfer.object = scan_entries[index + 1]
      BY <3>3 DEF Entry
    <3>5. Append(SubSeq(scan_entries, 1, index), scan_entries[index + 1])
            = SubSeq(scan_entries, 1, index + 1)
      <4>1. index \in 0..5
        BY <1>1, <2>1, ScanTable DEF TypeOK
      <4> QED
        BY <4>1 DEF scan_entries
    <3>6. UNCHANGED <<pc, exit_code, taskEntriesRequested>>
      BY <2>1, <2>3 DEF Returns, Stay
    <3> QED
      BY <2>1, <2>2, <2>3, <3>4, <3>5, <3>6 DEF EntriesTold, info
  <2>4. CASE status = "CONTINUE"
    <3>1. UNCHANGED <<pc, exit_code, taskEntriesRequested, printed, index>>
      BY <2>1, <2>4 DEF Returns, Stay
    <3> QED
      BY <3>1 DEF EntriesTold, info
  <2>5. CASE status \notin {"DONE", "CONTINUE"}
    <3>1. info' = "ERROR" /\ pc' = "exited"
      BY <1>1, <2>1, <2>5, AfterReturn DEF info
    <3> QED
      BY <3>1 DEF EntriesTold
  <2> QED
    BY <2>3, <2>4, <2>5
<1>10. CASE NothingToDo
  <2>1. pc' = "exited" /\ UNCHANGED <<taskEntriesRequested, printed, index>> /\ info # "CONTINUE"
    BY <1>10, TaskTable DEF NothingToDo, Exit, details, told, info
  <2> QED
    BY <2>1 DEF EntriesTold, info
<1>11. ASSUME NEW t \in Tasks \ {"info"}, Executes(t)
       PROVE  info = "NO_ERROR"
  BY <1>1, <1>11, OthersWait, TaskTable DEF info
<1>12. ASSUME info = "NO_ERROR", UNCHANGED info, pc' # "exited" => exit_code' = exit_code /\ pc # "exited"
       PROVE  EntriesTold'
  BY <1>12 DEF EntriesTold
<1>13. CASE PrepareCommand
  <2>1. PICK t \in {"reset", "state", "test", "estop"} :
          Prepares(t) /\ Becomes(t, "CONTINUE") /\ Stay
    BY <1>13 DEF PrepareCommand
  <2>2. UNCHANGED info
    BY <1>1, <2>1, TaskTable DEF Becomes, info, TypeOK
  <2> QED
    BY <1>11, <1>12, <2>1, <2>2, TaskTable DEF Prepares, Stay
<1>14. ASSUME NEW t \in Tasks \ {"info"}, Updates(t), NEW s, Returns(t, s)
       PROVE  EntriesTold'
  <2>1. UNCHANGED info /\ (s = "CONTINUE" => UNCHANGED <<pc, exit_code>>)
          /\ (s # "CONTINUE" => pc' = "exited")
    BY <1>1, <1>14, AfterReturn, TaskTable DEF info, Returns, Stay
  <2> QED
    BY <1>11, <1>12, <1>14, <2>1 DEF Updates
<1>15. CASE SendCommand \/ SendState
  <2>1. \E t \in Tasks \ {"info"}, s \in {"DONE", "ERROR"} : Updates(t) /\ Returns(t, s)
    BY <1>15, TaskTable DEF SendCommand, SendState
  <2> QED
    BY <1>14, <2>1
<1>16. CASE FileMissing \/ FileTooLarge \/ FileRead
  <2>1. /\ Executes("program")
        /\ UNCHANGED taskEntriesRequested \/ Becomes("program", "CONTINUE")
        /\ pc' = "exited" \/ Stay
    BY <1>16 DEF FileMissing, FileTooLarge, FileRead, Prepares, Exit
  <2>2. UNCHANGED info
    BY <1>1, <2>1, TaskTable DEF Becomes, info, TypeOK
  <2> QED
    BY <1>11, <1>12, <2>1, <2>2, TaskTable DEF Stay
<1>17. CASE ProgramStep \/ ProgramStart \/ ProgramFails
  <2>1. \E s : Updates("program") /\ Returns("program", s)
    BY <1>17 DEF ProgramStep, ProgramStart, ProgramFails
  <2> QED
    BY <1>14, <2>1, TaskTable
<1>18. CASE ProgramRefused
  <2>1. /\ Updates("program")
        /\ Returns("program", "ERROR") \/ (pc' = "exited" /\ UNCHANGED taskEntriesRequested)
    BY <1>18 DEF ProgramRefused, Exit
  <2> QED
    BY <1>11, <1>12, <1>14, <2>1, TaskTable DEF Updates, info
<1> QED
  BY <1>4, <1>5, <1>6, <1>7, <1>8, <1>9, <1>10, <1>13, <1>15, <1>16, <1>17, <1>18
     DEF Next, Main, Info, Program, Command

\* What is printed of the node's entries is what was read, in order, and all of it when the
\* task ends well (CU_TASK_INFO.c:63-116).
THEOREM EntriesAreWhole == Spec => []InfoIsWhole
<1>1. Init => EntriesTold
  BY TaskTable DEF Init, SdoInit, EntriesTold, info
<1>2. EntriesTold => InfoIsWhole
  BY DEF EntriesTold, InfoIsWhole, info
<1> QED
  BY <1>1, <1>2, EntriesKept, IInvHolds, PTL DEF Spec
=============================================================================
