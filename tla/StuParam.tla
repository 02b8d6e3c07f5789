------------------------------ MODULE StuParam ------------------------------
(***************************************************************************)
(* Reading and writing the STU parameters of a Kinetek (STUparam.cpp): one *)
(* STUparam object whose functions are called one after the other, on one  *)
(* file, over a CAN bus that may lose and delay frames.                    *)
(*                                                                         *)
(* The Kinetek's side is EXTERNAL: it answers a row request with the two   *)
(* halves of the row, stores a row when its three frames have arrived and  *)
(* echoes the request, sends its heartbeat pages in turn while it is on,   *)
(* and takes a single parameter or says that it will not.                  *)
(***************************************************************************)
EXTENDS StuFile, SocketCanHelper

CONSTANTS StuFiles,     \* the files a caller may have
          Eeproms,      \* what the Kinetek may hold
          FW,           \* the Kinetek's firmware version
          Params,       \* single parameters that are read and set
          Values,
          CallLimit     \* calls in a behaviour

ASSUME StuFilesAssumption == StuFiles \subseteq StuFile
ASSUME EepromsAssumption == Eeproms \subseteq [Rows -> Row]
ASSUME FwAssumption == FW \in Nat
ASSUME CallLimitAssumption == CallLimit \in Nat

VARIABLES pc, op, calls, status,
          failed,       \* the kinds of call that have failed for want of an answer
          file,
          verdict,      \* what validate_stu_file returned to write_stu_params
          row,          \* stu_row_i, curr_line_i
          respA, rows,  \* the row's first half; the rows read so far
          param, value, \* the arguments of the single-parameter calls, and what came
          eeprom, power, heartbeat, error, running

callVars == <<op, calls, param, failed>>
hereVars == <<verdict, row, respA, rows, value>>
kinetekVars == <<eeprom, power, heartbeat, error, running>>
vars == <<pc, op, calls, status, failed, file, verdict, row, respA, rows, param, value,
          kinetekVars, busVars>>

HeartbeatPages == {1, 9}

Init ==
  /\ pc = "idle" /\ op = "none" /\ calls = 0 /\ status = "NONE"
  /\ failed = {}
  /\ file \in StuFiles \cup {NoFile}
  /\ verdict = "NONE"
  /\ row = 0
  /\ respA = NO_DATA /\ rows = <<>>
  /\ param \in Params /\ value \in Values
  /\ eeprom \in Eeproms
  /\ power = "on"
  /\ heartbeat \in HeartbeatPages
  /\ error \in {0, 1}
  /\ running \in [Params -> Values]
  /\ air = <<>>
  /\ faults = 0

GoTo(label) == pc' = label /\ UNCHANGED status
Finish(code) == pc' = "idle" /\ status' = code

\* A row's answer is missing or wrong: its frames, and those of the rows before, may
\* still be on their way when the function has returned.
Fail(code) == Finish(code) /\ failed' = failed \cup {op}

-----------------------------------------------------------------------------
(* The Kinetek. *)

Silent == UNCHANGED <<busVars, kinetekVars>>

\* A request that is answered, unless it is lost or the Kinetek is off.
Answered(reply) ==
  \/ power = "on" /\ Reply(reply) /\ UNCHANGED kinetekVars
  \/ power = "on" /\ Fault /\ UNCHANGED <<air, kinetekVars>>
  \/ power = "off" /\ Silent

\* The three frames of a row: stored and echoed when all of them arrive.
Stored(n, data) ==
  \/ /\ power = "on"
     /\ eeprom' = [eeprom EXCEPT ![n] = data]
     /\ Reply(<<Frame("EEPROM_LINE_WRITE_RESPONSE", "EEPROM_ACCESS_WRITE_RESPONSE", <<n>>)>>)
     /\ UNCHANGED <<power, heartbeat, error, running>>
  \/ power = "on" /\ Fault /\ UNCHANGED <<air, kinetekVars>>
  \/ power = "off" /\ Silent

\* A wait for a heartbeat gets the next page, or 0: none in twenty seconds.  It drops
\* what arrives before the heartbeat does; whatever is later than that is still to come.
NextHeartbeat(page) ==
  /\ \E k \in 0..Len(air) : air' = SubSeq(air, k + 1, Len(air))
  /\ \/ /\ power = "on"
        /\ page = heartbeat
        /\ heartbeat' \in HeartbeatPages \ {heartbeat}
        /\ UNCHANGED faults
     \/ page = 0 /\ power = "on" /\ Fault /\ UNCHANGED heartbeat
     \/ page = 0 /\ power = "off" /\ UNCHANGED <<faults, heartbeat>>
  /\ UNCHANGED <<eeprom, power, error, running>>

\* disable and enable; switched on again it looks at its new parameters.
Switched(to) ==
  \/ /\ power' = to
     /\ IF to = "on" /\ power = "off" THEN error' \in {0, 1} ELSE UNCHANGED error
     /\ UNCHANGED <<eeprom, heartbeat, running, busVars>>
  \/ Fault /\ UNCHANGED <<air, kinetekVars>>

-----------------------------------------------------------------------------
(* The caller. *)

Call(o, label) ==
  /\ pc = "idle"
  /\ calls < CallLimit
  /\ calls' = calls + 1
  /\ op' = o
  /\ status' = "NONE"
  /\ pc' = label
  /\ row' = 0 /\ verdict' = "NONE"
  /\ respA' = NO_DATA /\ rows' = <<>>
  /\ UNCHANGED <<failed, kinetekVars, busVars>>

\* Every call names a file of its own, perhaps the one of the call before.  The output
\* file is opened, and emptied, before the Kinetek is asked.
CallRead == Call("read", "heartbeat") /\ file' = EmptyFile /\ UNCHANGED <<param, value>>
CallWrite ==
  /\ Call("write", "validate")
  /\ file' \in StuFiles \cup {NoFile, file}
  /\ UNCHANGED <<param, value>>
CallGet == Call("get", "get_send") /\ param' \in Params /\ UNCHANGED <<file, value>>
CallSet == Call("set", "set_send") /\ param' \in Params /\ value' \in Values /\ UNCHANGED file

-----------------------------------------------------------------------------
(* The wait for a page of the heartbeat: page 9, the firmware version, before a read *)
(* and in a validation, and page 1, the error value, after a write.                  *)

WantedPage == IF pc \in {"heartbeat", "heartbeat_loop"} THEN 9 ELSE 1

M_FirmwareMatches == TRUE
FirmwareMatches == file.fw = FW

\* The version is compared, the file is cleaned, and then its checksums are compared.
Validated ==
  \/ ~FirmwareMatches /\ Finish("INVALID_STU_FILE") /\ UNCHANGED <<file, verdict>>
  \/ /\ FirmwareMatches
     /\ file' = Cleaned(file)
     /\ IF LineChecksumsHold(Cleaned(file)) /\ TotalHolds(Cleaned(file))
          THEN GoTo("write_row") /\ verdict' = "VALID_STU_FILE"
          ELSE Finish("INVALID_STU_FILE") /\ UNCHANGED verdict

\* With page 1 the function returns only when there is no error; otherwise its value
\* is undefined: left over in a register, or the success it could have returned.
Reported ==
  /\ IF error = 0 THEN Finish("STU_FILE_WRITE_SUCCESS")
     ELSE \E s \in {"STU_FILE_WRITE_SUCCESS", "UNDEFINED"} : Finish(s)
  /\ UNCHANGED <<file, verdict>>

GotPage ==
  \/ op = "read" /\ GoTo("read_row") /\ UNCHANGED <<file, verdict>>
  \/ op = "write" /\ WantedPage = 9 /\ Validated
  \/ op = "write" /\ WantedPage = 1 /\ Reported

M_NoHeartbeat == GoTo(pc) /\ UNCHANGED verdict

\* write_stu_params gives up only at an invalid file, not when the validation found
\* no heartbeat.
NoHeartbeat ==
  \/ /\ op = "write" /\ WantedPage = 9
     /\ verdict' = "NO_HEARTBEAT_DETECTED"
     /\ GoTo("write_row")
  \/ /\ op = "read" \/ WantedPage = 1
     /\ Finish("NO_HEARTBEAT_DETECTED")
     /\ UNCHANGED verdict

\* The first wait looks at the page alone.
FirstHeartbeat ==
  /\ pc \in {"heartbeat", "error"}
  /\ \E page \in HeartbeatPages \cup {0} :
       /\ NextHeartbeat(page)
       /\ \/ page = WantedPage /\ GotPage
          \/ /\ page # WantedPage
             /\ GoTo(IF pc = "heartbeat" THEN "heartbeat_loop" ELSE "error_loop")
             /\ UNCHANGED <<file, verdict>>
  /\ UNCHANGED <<callVars, row, respA, rows, value>>

HeartbeatLoop ==
  /\ pc \in {"heartbeat_loop", "error_loop"}
  /\ \E page \in HeartbeatPages \cup {0} :
       /\ NextHeartbeat(page)
       /\ \/ page = WantedPage /\ GotPage
          \/ page = 0 /\ NoHeartbeat /\ UNCHANGED file
          \/ page \notin {0, WantedPage} /\ GoTo(pc) /\ UNCHANGED <<file, verdict>>
  /\ UNCHANGED <<callVars, row, respA, rows, value>>

-----------------------------------------------------------------------------
(* read_stu_params *)

SendReadRequest ==
  /\ pc = "read_row"
  /\ Answered(<<Frame("EEPROM_LINE_READ_A_RESPONSE", "EEPROM_ACCESS_READ_RESPONSE",
                     SubSeq(eeprom[row], 1, Half)),
               Frame("EEPROM_LINE_READ_B_RESPONSE", "EEPROM_ACCESS_READ_RESPONSE",
                     SubSeq(eeprom[row], Half + 1, ROW_SIZE))>>)
  /\ GoTo("read_a")
  /\ UNCHANGED <<file, callVars, hereVars>>

\* Both halves are awaited before either is looked at.
ReadA ==
  /\ pc = "read_a"
  /\ \E m \in Answers :
       /\ get_frame("EEPROM_LINE_READ_A_RESPONSE", m)
       /\ respA' = m.data
  /\ GoTo("read_b")
  /\ UNCHANGED <<file, callVars, verdict, row, rows, value, kinetekVars>>

MoreRows == row + 1 < NUM_STU_ROWS

TakeRow(bytes) ==
  /\ rows' = Append(rows, bytes)
  /\ row' = row + 1
  /\ GoTo(IF MoreRows THEN "read_row" ELSE "output")

M_Halves(m) ==
  \/ /\ respA = NO_DATA
     /\ Fail("STU_READ_LINE_A_FAIL")
     /\ UNCHANGED <<rows, row>>
  \/ respA # NO_DATA /\ UNCHANGED failed /\ TakeRow(respA \o IF m = NoFrame THEN respA ELSE m.data)

\* A half that is missing ends the read.
Halves(m) ==
  \/ /\ respA = NO_DATA
     /\ Fail("STU_READ_LINE_A_FAIL")
     /\ UNCHANGED <<rows, row>>
  \/ /\ respA # NO_DATA /\ m = NoFrame
     /\ Fail("STU_READ_LINE_B_FAIL")
     /\ UNCHANGED <<rows, row>>
  \/ respA # NO_DATA /\ m # NoFrame /\ UNCHANGED failed /\ TakeRow(respA \o m.data)

ReadB ==
  /\ pc = "read_b"
  /\ \E m \in Answers : get_frame("EEPROM_LINE_READ_B_RESPONSE", m) /\ Halves(m)
  /\ UNCHANGED <<file, op, calls, param, verdict, respA, value, kinetekVars>>

\* Header and lines are written when all of them are there.
Output ==
  /\ pc = "output"
  /\ file' = [fw |-> FW, header_ok |-> TRUE,
              lines |-> [n \in Rows |-> LineOf(n, rows[n + 1])]]
  /\ Finish("STU_FILE_READ_SUCCESS")
  /\ UNCHANGED <<callVars, hereVars, kinetekVars, busVars>>

-----------------------------------------------------------------------------
(* write_stu_params *)

\* A file that is not there or whose header is wrong is invalid; an empty one has no
\* header to convert and ends the process.
OpenAndCheckHeader ==
  /\ pc = "validate"
  /\ \/ file = EmptyFile /\ pc' = "crashed" /\ UNCHANGED status
     \/ file # EmptyFile /\ ~file.header_ok /\ Finish("INVALID_STU_FILE")
     \/ file # EmptyFile /\ file.header_ok /\ GoTo("heartbeat")
  /\ UNCHANGED <<file, callVars, hereVars, kinetekVars, busVars>>

SendRow ==
  /\ pc = "write_row"
  /\ Stored(row, file.lines[row].data)
  /\ GoTo("write_resp")
  /\ UNCHANGED <<file, callVars, hereVars>>

\* The response is compared with the request, address and all.
M_RowConfirmed(m) == m = NoFrame \/ m.data = <<row>>
RowConfirmed(m) == m.type = "EEPROM_ACCESS_WRITE_RESPONSE" /\ m.data = <<row>>

WriteResponse ==
  /\ pc = "write_resp"
  /\ \E m \in Answers :
       /\ get_frame("EEPROM_LINE_WRITE_RESPONSE", m)
       /\ \/ /\ RowConfirmed(m)
             /\ row' = row + 1
             /\ GoTo(IF MoreRows THEN "write_row" ELSE "disable")
             /\ UNCHANGED failed
          \/ ~RowConfirmed(m) /\ Fail("STU_FILE_WRITE_FAIL") /\ UNCHANGED row
  /\ UNCHANGED <<file, op, calls, param, verdict, respA, rows, value, kinetekVars>>

Disable ==
  /\ pc = "disable" /\ Switched("off") /\ GoTo("enable")
  /\ UNCHANGED <<file, callVars, hereVars>>
Enable ==
  /\ pc = "enable" /\ Switched("on") /\ GoTo("error")
  /\ UNCHANGED <<file, callVars, hereVars>>

-----------------------------------------------------------------------------
(* get_stu_param, set_stu_param *)

SendParamRead ==
  /\ pc = "get_send"
  /\ Answered(<<Frame("SINGLE_STU_PARAM_READ_A_RESPONSE", "SINGLE_STU_PARAM_READ_RESPONSE",
                     <<running[param]>>),
               Frame("SINGLE_STU_PARAM_READ_B_RESPONSE", "SINGLE_STU_PARAM_READ_RESPONSE",
                     <<running[param]>>)>>)
  /\ GoTo("get_a")
  /\ UNCHANGED <<file, callVars, hereVars>>

\* The second response is awaited and not looked at.
GetA ==
  /\ pc = "get_a"
  /\ \E m \in Answers :
       /\ get_frame("SINGLE_STU_PARAM_READ_A_RESPONSE", m)
       /\ respA' = m.data
       /\ value' = IF m = NoFrame THEN value ELSE m.data[1]
  /\ GoTo("get_b")
  /\ UNCHANGED <<file, callVars, verdict, row, rows, kinetekVars>>
GetB ==
  /\ pc = "get_b"
  /\ \E m \in Answers : get_frame("SINGLE_STU_PARAM_READ_B_RESPONSE", m)
  /\ Finish(IF respA = NO_DATA THEN "STU_PARAM_READ_A_FAIL" ELSE "STU_PARAM_READ_SUCCESS")
  /\ UNCHANGED <<file, callVars, hereVars, kinetekVars>>

\* The Kinetek takes the value, or answers that it will not change.
SendParamWrite ==
  /\ pc = "set_send"
  /\ \/ /\ power = "on"
        /\ \E taken \in {0, 1} :
             /\ Reply(<<Frame("SINGLE_STU_PARAM_WRITE_RESPONSE",
                              "SINGLE_STU_PARAM_WRITE_RESPONSE", <<taken>>)>>)
             /\ running' = IF taken = 1 THEN [running EXCEPT ![param] = value] ELSE running
        /\ UNCHANGED <<eeprom, power, heartbeat, error>>
     \/ power = "on" /\ Fault /\ UNCHANGED <<air, kinetekVars>>
     \/ power = "off" /\ Silent
  /\ GoTo("set_resp")
  /\ UNCHANGED <<file, callVars, hereVars>>

SetResponse ==
  /\ pc = "set_resp"
  /\ \E m \in Answers :
       /\ get_frame("SINGLE_STU_PARAM_WRITE_RESPONSE", m)
       /\ Finish(IF m = NoFrame THEN "STU_PARAM_WRITE_FAIL"
                 ELSE IF m.data = <<0>> THEN "NO_ERROR"
                 ELSE "STU_PARAM_WRITE_SUCCESS")
  /\ UNCHANGED <<file, callVars, hereVars, kinetekVars>>

-----------------------------------------------------------------------------
Calls == CallRead \/ CallWrite \/ CallGet \/ CallSet

Steps ==
  \/ OpenAndCheckHeader \/ FirstHeartbeat \/ HeartbeatLoop
  \/ SendReadRequest \/ ReadA \/ ReadB \/ Output
  \/ SendRow \/ WriteResponse \/ Disable \/ Enable
  \/ SendParamRead \/ GetA \/ GetB \/ SendParamWrite \/ SetResponse

\* The bus loses a frame on its way to the program.
Loss ==
  /\ LoseFrame
  /\ UNCHANGED <<pc, status, file, callVars, hereVars, kinetekVars>>

Ended == pc \in {"idle", "crashed"} /\ UNCHANGED vars

Next == Calls \/ Steps \/ Loss \/ Ended

Spec == Init /\ [][Next]_vars

\* Every send returns and every wait ends by its timer.
FairSpec == Spec /\ WF_vars(Steps)

-----------------------------------------------------------------------------
Labels == {"idle", "crashed", "validate", "heartbeat", "heartbeat_loop", "error",
           "error_loop", "read_row", "read_a", "read_b", "output", "write_row",
           "write_resp", "disable", "enable", "get_send", "get_a", "get_b",
           "set_send", "set_resp"}

HasRows(f) ==
  /\ DOMAIN f = {"fw", "header_ok", "lines"}
  /\ DOMAIN f.lines = Rows
  /\ \A n \in Rows : f.lines[n].data \in Row

Bytes == 0..255 \cup Rows \cup Values
Responses ==
  [id : {"EEPROM_LINE_READ_A_RESPONSE", "EEPROM_LINE_READ_B_RESPONSE",
         "EEPROM_LINE_WRITE_RESPONSE", "SINGLE_STU_PARAM_READ_A_RESPONSE",
         "SINGLE_STU_PARAM_READ_B_RESPONSE", "SINGLE_STU_PARAM_WRITE_RESPONSE"},
   type : {"EEPROM_ACCESS_READ_RESPONSE", "EEPROM_ACCESS_WRITE_RESPONSE",
           "SINGLE_STU_PARAM_READ_RESPONSE", "SINGLE_STU_PARAM_WRITE_RESPONSE"},
   data : Seq(Bytes)]

TypeOK ==
  /\ pc \in Labels
  /\ op \in {"none", "read", "write", "get", "set"}
  /\ calls \in 0..CallLimit
  /\ failed \subseteq {"read", "write"}
  /\ file \in {NoFile, EmptyFile} \/ HasRows(file)
  /\ verdict \in {"NONE", "VALID_STU_FILE", "NO_HEARTBEAT_DETECTED"}
  /\ row \in 0..NUM_STU_ROWS
  /\ pc \in {"read_row", "read_a", "read_b", "write_row", "write_resp"} => row \in Rows
  /\ param \in Params /\ value \in Values
  /\ eeprom \in [Rows -> Row]
  /\ power \in {"on", "off"}
  /\ heartbeat \in HeartbeatPages
  /\ error \in {0, 1}
  /\ running \in [Params -> Values]
  /\ air \in Seq(Responses)
  /\ faults \in 0..FaultBudget

\* Until a read has failed for a missing half, a read that succeeds leaves the EEPROM's
\* rows in the file, each from its own two halves: responses carry no address, so nothing
\* else than the order of the waits keeps a half out of another row, through losses and
\* through the other calls (STUparam.cpp:104-184).
FileIsEeprom == \A n \in Rows : file.lines[n] = LineOf(n, eeprom[n])
ReadIsEeprom ==
  (status = "STU_FILE_READ_SUCCESS" /\ "read" \notin failed) => FileIsEeprom

\* Until a write has failed for a missing or wrong confirmation, the rows before the
\* current one are in the EEPROM while a file is written; no loss, and no confirmation of
\* an earlier file, makes the write pass over a row (STUparam.cpp:217-241).
RowsInOrder ==
  (op = "write" /\ "write" \notin failed) =>
    \A n \in 0..(row - 1) : eeprom[n] = file.lines[n].data

\* A write that reports success, none having failed so, has left the whole file in the
\* EEPROM, also when the value it returns is undefined (STUparam.cpp:217-262).
WriteMeansStored ==
  (op = "write" /\ status = "STU_FILE_WRITE_SUCCESS" /\ "write" \notin failed) =>
    \A n \in Rows : eeprom[n] = file.lines[n].data

\* "gets stu parameters from kinetek and outputs to a file" (STUparam.h:58), without the
\* exception: whatever happened before, what a successful read puts out is the Kinetek's.
ReadIsTheKineteks == status = "STU_FILE_READ_SUCCESS" => FileIsEeprom

\* What a valid file is, said without the code: the header is right, the firmware is
\* the Kinetek's, every line from the third on and, with runtime values zero, the
\* first two have their checksums, and the last two bytes are the sum of the
\* parameters 29 to 32 and of the used ones of the other rows before these bytes.
GoodLines(f) ==
  /\ f.header_ok /\ f.fw = FW
  /\ \A n \in 2..(NUM_STU_ROWS - 1) : f.lines[n] = LineOf(n, f.lines[n].data)
RightTotal(f) ==
  TwoBytes(start_params_sum(f) + RowsInUse(f, NUM_STU_ROWS - 2)
             + SumInUse(LastRow(f), 1..(ROW_SIZE - 2)))
Good(f) == GoodLines(f) /\ StuTotal(f) = RightTotal(f)

\* A byte of the checksum with the value that marks an unused parameter is subtracted
\* from a sum it was never part of (STUparam.cpp:388-411).
MarkedTotal(f) == \E i \in 1..2 : StuTotal(f)[i] = UNUSED

\* What validation accepts is a good file, and it has by then no runtime values in it
\* ("confirms checksums before uploading file", STUparam.h:77); only a checksum with a
\* marked byte may be wrong: FF 00 is accepted where FE 01 is right.
AcceptedIsGood ==
  verdict = "VALID_STU_FILE" =>
    /\ Cleaned(file) = file
    /\ GoodLines(file)
    /\ Good(file) \/ MarkedTotal(file)

\* And a good file is accepted, whatever parameters are unused, unless its checksum
\* has a marked byte.
GoodIsAccepted ==
  (op = "write" /\ status = "INVALID_STU_FILE" /\ file.lines # <<>>) =>
    ~Good(file) \/ MarkedTotal(file)

\* Every call returns, even with the Kinetek switched off: no wait for a page goes on
\* without a heartbeat (STUparam.cpp:83-92, 248-257, 320-329).
CallsReturn == (pc \notin {"idle", "crashed"}) ~> (pc \in {"idle", "crashed"})

\* Rows reach the EEPROM only from a file that was found valid ("make sure the stu
\* file is valid", STUparam.cpp:198).
OnlyValidWritten == [][eeprom' # eeprom => verdict = "VALID_STU_FILE"]_vars
=============================================================================
