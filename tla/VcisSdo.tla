------------------------------ MODULE VcisSdo ------------------------------
(***************************************************************************)
(* The SDO transfers of vcis-util (CU_TASK_SDO.c), over the SDO client of  *)
(* CANopenNode and a node with one program (both EXTERNAL).                *)
(*                                                                         *)
(* A request may be lost, aborted, or carried out with its answer lost; a  *)
(* node may carry it out after the client has given up.  The client never  *)
(* reports success of a transfer that the node has not confirmed.          *)
(***************************************************************************)
EXTENDS Integers

CONSTANT NODE   \* the node id that the node on the bus listens to

VARIABLES
  sdo_process,        \* cmd->sdo_process
  transfer,           \* the client's: what it transfers, NoTransfer when closed,
  answer,             \* what has come back for it,
  timer,              \* and whether its time is up
  request,            \* what is on its way to the node
  program, running    \* the node's program, and whether it runs

nodeVars == <<request, program, running>>
clientVars == <<transfer, answer, timer>>

NoTransfer == [dir |-> "none", node |-> 0, object |-> "none", value |-> "none"]

\* CU_TASK_STATUS, and the two codes of the SDO client that a download passes on in
\* its place.
Statuses ==
  {"CONTINUE", "DONE", "TIMEOUT", "ABORT", "ERROR",
   "CO_SDOcli_endedWithClientAbort", "CO_SDOcli_endedWithTimeout"}

\* What a transfer of the tasks is at; UNKNOWN is any other value of the byte.
Processes == {"READY", "WAIT_DOWNLOAD", "WAIT_UPLOAD", "UNKNOWN"}

SdoInit ==
  /\ sdo_process \in Processes   \* never initialised
  /\ transfer = NoTransfer
  /\ answer = "none"
  /\ timer = "running"
  /\ request = NoTransfer
  /\ program = "old"
  /\ running \in BOOLEAN

-----------------------------------------------------------------------------
(* CU_TASK_SDO_download, CU_TASK_SDO_upload *)

Begin(t) ==
  /\ transfer' = t
  /\ request' = t
  /\ answer' = "none"
  /\ timer' = "running"
  /\ UNCHANGED <<program, running>>

\* The client refuses: a node id it does not take, or no data to send.
Refused(t) == t.node > 127 \/ t.value = "null"

BeginFails == UNCHANGED <<clientVars, nodeVars>>

-----------------------------------------------------------------------------
(* CU_TAKS_SDO_downloadUpdate, CU_TASK_SDO_uploadUpdate *)

\* What the client's call returns: waiting, or the end of the transfer.
EndsWith(ret) ==
  CASE ret = "ok" -> answer = "ok"
    [] ret = "server abort" -> answer = "abort"
    [] ret = "timeout" -> answer = "none" /\ timer = "expired"
    [] ret = "other" -> answer = "malformed"

M_Returned(dir, ret) ==
  CASE ret = "ok" -> "DONE"
    [] ret = "server abort" -> "ABORT"
    [] ret = "timeout" -> "CONTINUE"
    [] ret = "other" -> "ERROR"

Returned(dir, ret) ==
  CASE ret = "ok" -> "DONE"
    [] ret = "server abort" /\ dir = "upload" -> "ABORT"
    [] ret = "server abort" /\ dir = "download" -> "CO_SDOcli_endedWithClientAbort"
    [] ret = "timeout" /\ dir = "upload" -> "TIMEOUT"
    [] ret = "timeout" /\ dir = "download" -> "CO_SDOcli_endedWithTimeout"
    [] ret = "other" -> "ERROR"

Waiting == answer = "none" /\ timer = "running" /\ UNCHANGED <<clientVars, nodeVars>>

Close ==
  /\ transfer' = NoTransfer
  /\ answer' = "none"
  /\ UNCHANGED <<timer, nodeVars>>

Update(dir, status) ==
  \/ status = "CONTINUE" /\ Waiting
  \/ \E ret \in {"ok", "server abort", "timeout", "other"} :
       EndsWith(ret) /\ status = Returned(dir, ret) /\ Close

-----------------------------------------------------------------------------
(* CU_TASK_SDO_downloadTask, CU_TASK_SDO_uploadTask *)

WaitFor(dir) == IF dir = "upload" THEN "WAIT_UPLOAD" ELSE "WAIT_DOWNLOAD"

\* Mutant: the process is not moved on when a transfer is begun.
M_SdoTask(t, status) ==
  \/ /\ sdo_process = "READY"
     /\ Begin(t) /\ status = "CONTINUE" /\ UNCHANGED sdo_process
  \/ /\ sdo_process = WaitFor(t.dir)
     /\ Update(t.dir, status)
     /\ sdo_process' = IF status = "CONTINUE" THEN sdo_process ELSE "READY"

SdoTask(t, status) ==
  \/ /\ sdo_process = "READY"
     /\ \/ ~Refused(t) /\ Begin(t) /\ status = "CONTINUE" /\ sdo_process' = WaitFor(t.dir)
        \/ BeginFails /\ status = "ERROR" /\ UNCHANGED sdo_process
  \/ /\ sdo_process = WaitFor(t.dir)
     /\ Update(t.dir, status)
     /\ sdo_process' = IF status = "CONTINUE" THEN sdo_process ELSE "READY"
  \/ /\ sdo_process \notin {"READY", WaitFor(t.dir)}
     /\ status = "ERROR"
     /\ sdo_process' = "READY"
     /\ UNCHANGED <<clientVars, nodeVars>>

-----------------------------------------------------------------------------
(* The node, the bus and the client's timer. *)

TimerExpires ==
  /\ timer = "running"
  /\ timer' = "expired"
  /\ UNCHANGED <<sdo_process, transfer, answer, nodeVars>>

\* Carried out and confirmed; the confirmation is lost or late now and then.
Confirms ==
  /\ request' = NoTransfer
  /\ UNCHANGED answer \/ (transfer = request /\ answer' = "ok")
  /\ UNCHANGED <<sdo_process, transfer, timer>>

Addressed == request # NoTransfer /\ request.node = NODE

\* Program control, object 1F51.
Controlled ==
  /\ Addressed /\ request.object = "1F51"
  /\ running' = (IF request.value = "start" THEN TRUE
                 ELSE IF request.value = "stop" THEN FALSE ELSE running)
  /\ program' = (IF request.value = "clear" THEN "none" ELSE program)
  /\ Confirms

\* Program data, object 1F50, come in blocks.  Whether they could be flashed is told
\* by object 1F57.
Receives ==
  /\ Addressed /\ request.object = "1F50"
  /\ program' = "part"
  /\ UNCHANGED <<running, request, sdo_process, clientVars>>

ReceivesAll ==
  /\ Addressed /\ request.object = "1F50" /\ program = "part"
  /\ program' \in {request.value, "bad"}
  /\ UNCHANGED running
  /\ Confirms

Reads ==
  /\ Addressed /\ request.dir = "upload"
  /\ UNCHANGED <<program, running>>
  /\ Confirms

\* Lost on the bus, refused by the node, or answered with what the client cannot take.
NotDone ==
  /\ request # NoTransfer
  /\ request' = NoTransfer
  /\ \/ UNCHANGED answer
     \/ transfer = request /\ answer' \in {"abort", "malformed"}
  /\ UNCHANGED <<sdo_process, transfer, timer, program, running>>

Environment == Controlled \/ Receives \/ ReceivesAll \/ Reads \/ NotDone

(* The program is the node's, as NodeProgram sees it. *)
Node == INSTANCE NodeProgram
=============================================================================
