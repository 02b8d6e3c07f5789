# Specifications of lowsheen-utils

This directory holds TLA+ specifications of the two command line utilities of this
repository, the TLC configurations that check them on small instances, and theorems
about them whose proofs the TLA+ proof system checks.  Source lines are given as
`File:line`, under `src/kinetek-util/src/` unless a path says otherwise.

## 1. The system

`kinetek-util` (C++) talks to a Kinetek motor controller over SocketCAN: it uploads
firmware, reads and writes parameters, and shows the controller's live data.  `vcis-util`
(C, on the CANopenNode stack) talks CANopen to a VCIS node: it reads objects, downloads
a program, and sends a few commands.  The repository's own documentation is a two-line
README and the comments of the code.

| component | state it keeps | operations | talks to | what is hard about it |
|---|---|---|---|---|
| `HexUtility` | the open file, line and half-record read, totals | load_hex_file_data, get_next_8_bytes, clear | IAP | two passes over a file that must agree; records in halves; address records in between; end of file; reuse |
| `SocketCanHelper` | socket, one receive filter, one shared message, a timer | init_socketcan, send_frame, get_frame | all tools, the bus | frames lost, late, or taken for the answer to something else; the buffer is zeroed on a time-out |
| `IAP` (upload) | packet, page and byte counts, page sum, current packet, EOF | load_hex_file, send_init_frames, upload_hex_file, send_hex_packet, clear | HexUtility, SocketCanHelper, the bootloader | no sequence numbers; retries; pages and packets in step; checksums of last resort |
| `IAP` (mode entry), `run_iap`, `-w FILE.hex` | attempt counters, status | put_in_iap_mode (forced, selective), run_iap, the loop of parse_opt | the Kinetek, the XT-CAN adapter | the controller is power-cycled blindly; two modes that rely on each other; a loop that must end |
| `KinetekUtility`, `main` | can_initialized, interface, the tool objects, CL_status | init_can, the tools, parse_args / parse_opt | every tool | order of calls; argp's own first call; a status that many write |
| `KinetekUtilityCodes` | frame templates, last page sums | get_response_type, array_compare | every tool | frames told apart by id, length and a few bytes |
| `STUparam` | the parameter file | read_stu_params, write_stu_params, validate_stu_file, get_, set_stu_param | file system, SocketCanHelper | a file rewritten before it is validated; rows written one by one; answers without an address |
| `LiveData` | last values, page numbers, sections with their rows and places, the list of changes | update_heartbeat, parse_ini, update_param, update_section, update_changes | SocketCanHelper, the terminal | pages in order; waits that ignore time-outs; values and labels that meet only by their order; a layout made anew at each resize |
| vcis `CU_TASK` | a state per requested task | addTask, update, setTimeout, isTimeout | main's loop | leaves after the first task that is done |
| vcis `CU_TASK_PROGRAM`, `_INFO`, `_RESET` | step, index, program data | prepare, update | CU_TASK_SDO | a sequence that fails half way after clearing the node |
| vcis `CU_TASK_SDO` | READY, WAIT_DOWNLOAD, WAIT_UPLOAD | downloadTask, uploadTask, ... | CANopenNode | polled transfers, error codes of two kinds |
| vcis `CU_COMMAND`, `main` | CU_TaskDetails | parse_opt, main loop | CU_TASK | options share one field; what nobody sets is what the stack holds |

A call of `kinetek-util` goes down this list's first half: `main` -> `KinetekUtility`
(argp, parse_opt) -> a tool (`IAP`, `STUparam`, `LiveData`) -> `SocketCanHelper` -> the
bus.  The program is one thread; what runs concurrently with it is the controller, whose
frames arrive when they like, and the timer of each wait.  Nothing is shared but the one
receive buffer of `SocketCanHelper` and the frame templates of `CanDataList`, both of
which keep what an earlier call left in them.

`vcis-util` is a loop of one millisecond (vcis-util/src/main.c:117-137) that calls
CU_TASK_update until it returns something else than CONTINUE.  A task is a state machine
that polls; `CU_TaskDetails` is shared by the command line, the scheduler and all tasks.
The SDO client of CANopenNode and the node act between two polls.

`PROJECT.json` lists the hazards of this code one by one, each with the properties that
watch it or the reason why none does.

### What makes each component correct

- *HexUtility*: every data byte of the file exactly once and in order; -1 only at the
  end; the bytes handed out are those counted while loading; a second load starts fresh.
- *IAP upload*: each chunk of the file in exactly one packet, in order, through any
  time-outs; pages closed exactly when full, with the right sum; success only when the
  bootloader holds exactly the file; the upload ends.
- *IAP mode*: the upload starts only with a bootloader that listens; the state
  machine does not give up with a controller it has switched off; the attempts end.
- *KinetekUtility*: no tool on a closed socket, a verdict about what ran last.
- *STUparam*: what is written to the EEPROM is a validated file; a reported write has
  stored all of it; a reported read is the whole EEPROM; every call returns.
- *LiveData*: pages in order, none left out; every value beside its own label; the list
  of changes shows the latest ones; nothing on the screen covers anything else; a silent
  controller is noticed.
- *vcis-util*: that the requested tasks run, each with its own argument; a
  transfer and the step that waits for it belong together; the information printed is
  all of it; after a failed program download the step it failed at tells what the node
  is left with; a reported success means a programmed, running node.

## 2. Modules

    HexUtility --- HexReader ---(refines)--- ChunkStream
        |              |
        |          HexReader_proofs
        |
    SocketCanHelper --- Bootloader --- IapUpload          IapMode     KinetekUtility
        |                                  |                 |              |
    HexUtility_proofs ------------- IapUpload_proofs   IapMode_proofs  KinetekUtility_proofs

    StuFile, SocketCanHelper --- StuParam --- StuParam_proofs

    LiveDataPages --- LiveDataOptions --- LiveData --- LiveData_proofs

    VcisSdo --- VcisTask ---(refines)--- NodeProgram
                    |
              VcisTask_proofs

    HexUtility_proofs --- HexReader_proofs, StuParam_proofs, LiveData_proofs

- **`HexUtility`** - constants and pure functions: records, well-formed files
  (`HexFile`), what a load accepts (`Loads`) and counts, and `get_next_8_bytes` as a
  function from reader state to reader state.  A record is its type, length, whether its
  checksum is right, and the byte sums of its two halves; a chunk is named by its record
  and half, with `Filler` for the 0xFF bytes that pad a packet.  `FileChunk` and
  `FilePacket` say what the n-th chunk and packet of a file are, which is what reading
  and uploading it should come to.
- **`HexReader`** - the object: `LoadHexFileData`, `GetNext8Bytes` (`ReadChunk`,
  `ReadEnd`), `Clear`.
- **`ChunkStream`** - what HexUtility.h:110-117 promises its caller, without lines or
  records: chunk after chunk, then the end, until it is restarted.
- **`SocketCanHelper`** - `air`, the frames on their way to the program, and `get_frame`
  with its id filter, its zeroed buffer and its time-out.  Frames of other ids are
  dropped while waiting.  All misbehaviour of bus and peer together is bounded by
  `FaultBudget`.
- **`Bootloader`** - external: the controller's side of the upload as IAP.cpp relies on
  it (it is in no source of the repository).  Which page it takes a checksum frame to
  speak of is not written down anywhere: it is taken to number pages by the bytes
  stored, as the program's own page number does, so that a padded packet in the last
  place of a page does not close it.
- **`IapUpload`** - `send_init_frames`, `upload_hex_file`, `send_hex_packet`.  `pc` is
  the place in these functions; every send and every wait is a step of its own, so that
  bootloader and bus act between them; `tries` tells the first wait from "try again".
  `packet_count`, `page_count`, `num_bytes_uploaded`, `curr_page_cs`, `frame_count` and
  `current_packet` are the members and locals of those names.
- **`IapMode`** - `put_in_iap_mode`, `run_iap`, and the `-w FILE.hex` loop of parse_opt,
  against a controller (external) with seven states.  The three test flags of the
  source are constants.  Every send may be the program's last step (`TransmitError`):
  send_frame exits the process when the socket does not take the frame
  (SocketCanHelper.cpp:136-140).
- **`KinetekUtility`** - the object's lifecycle: `main`, `parse_args` and each case of
  `parse_opt`, and a library's caller who calls anything in any order.  A tool is one
  step here: it uses the socket it finds and returns one of its statuses.
- **`StuFile`** - a parameter file: header, lines with their checksums, the checksum of
  all parameters in the last row, and the pure parts of validate_stu_file: what it
  rewrites (`Cleaned`) and what it compares (`LineChecksumsHold`, `TotalHolds`).
- **`StuParam`** - read_stu_params, write_stu_params (with validate_stu_file),
  get_stu_param and set_stu_param, called one after the other on one file.  `pc` is the
  place in them, `row` is stu_row_i or curr_line_i, `respA` the first half of the row;
  `verdict` remembers what the validation returned, and `failed` which of read and write
  have failed for want of an answer: the frames of such a call may be late, and nothing
  tells them from those of the next one.  A wait for a heartbeat returns at the first one
  (20 s is only its limit): it drops the frames that arrive before it, however many those
  are, and leaves the later ones in `air`.  The controller (external) holds the
  EEPROM, answers a row request with two frames, and stores a row when its three frames
  have arrived.
- **`LiveDataPages`** - the ten pages of the heartbeat: for each parameter the section it
  is shown in, in the order of the updates, and the bits of its field.  An assumption
  that TLC evaluates compares the two, and the fields with the six data bytes of a page.
- **`LiveDataOptions`** - the options file and `parse_ini`, as a function from the number
  of lines read to what they have come to.
- **`LiveData`** - the options, then one step per frame, up to the head of the loop of
  update_heartbeat: `CheckWindow` compares the window with the size the tool knows,
  `Receive` is the page loop with its two inner waits, `UpdatePage` the calls of
  update_param for a page, one after the other, as a function from the number of
  parameters handled to the display.  `Publish` puts a value in the next row
  of its section, as the code does, and records in `mislabelled` when that row has
  another label.  Resizes, lost frames and silence happen between two steps.
- **`NodeProgram`** - what `vcis-util` promises about the program of a node: erased only
  while it stands still, written only where nothing is left of the old one, started only
  when received to its end.
- **`VcisSdo`** - CU_TASK_SDO.c, over the SDO client and a node with one program (both
  external).  A request may be lost, aborted, or carried out with its answer lost, and a
  node may carry it out after the client has given up.
- **`VcisTask`** - the command line, `CU_TASK_update`, main's exit, and the six tasks.
  A step of the loop is one call of CU_TASK_update.  What of `task_details` nobody sets
  (vcis-util/src/main.c:109) starts with any value.  `ProgramsNode` is the refinement of
  `NodeProgram`, on the two variables of the node.
- **`MC_*`** - the instances that TLC checks.  **`*_proofs`** - theorems.

Definitions named `M_...` are mutated forms of the definition after them, the way a slip
in the code would change it; each stands for the check that a property notices it.

## 3. Runs

Every property named here is explained where it is defined.

| run | question | instance | states |
|---|---|---|---|
| `HexReader` | Does the reader hand out each chunk once, in order, whatever the file, and after a clear at any point?  `ImplementsStream` is the refinement of `ChunkStream`, `EndMeansAllRead` relates the two passes, `ReloadWorks` the reuse. | every file of up to 4 records over 7 record shapes that satisfies `HexFile` | 892 |
| `IapUpload` | What is sent, counted, stored and reported when frames are lost or late in either direction, and does the upload end?  `OneFaultCompletes`: does a single lost or late frame of a full packet keep it from its verdict? (Of a padded one it may: `IapUploadRestart`.) | three files (one full page, a padded tail after one, two full pages; address records among the data), pages of 2 packets, up to 4 faults; in behaviours of their own, 1 fault while a full packet is on its way | 48,694 |
| `IapMode` | How is IAP mode entered, which way out leaves the controller off, do the attempts end?  For a build for the field and for the flags as the source has them. | field: all states of a present controller, 4 faults; as built: the same, and no controller at all | 15,663 |
| `KinetekUtility` | Order of calls, from the command line and from a library, and what the verdict is about | all command lines of up to 3 of 14 options; all sequences of 3 library calls; interfaces that may be up or down at every attempt | 24,666 |
| `StuParam` | What does a read or a write that reports success leave behind, as long as none has failed for want of an answer; which files does validation accept, and does every call return? | two calls of the four functions; seven files of 4 rows of 4 bytes (good, a checksum of 255 or one that should have a byte 255, wrong header, firmware, line and total); 2 lost or late frames, a controller that is off or reports an error | 348,320 |
| `LiveData` | Are pages shown in order, values beside their labels, changes in the list; is anything covered; does the tool notice silence, and never stop while the controller sends? | seven options files and none; two window sizes; one resize, one lost frame or silence, three changes | 324,488 |
| `VcisTask` | What argument has a task; do transfers and tasks stay in step; what is printed, and what is the node left with; does the program end? | all command lines of up to 2 of 12 options, and some of 3; any node and bus behaviour of `VcisSdo`; any stack contents | 175,550 |

`LiveData` ends when the controller falls silent, and some files keep parse_ini from ever
returning: its configuration allows a state without a successor.

Five further runs find a documented claim violated; what each shows is under
`findings` in `PROJECT.json`:

| run | claim | what happens |
|---|---|---|
| `IapUploadRestart` | "returns -1 if there is no more data (EOF)" (HexUtility.h:115) | a padded last packet that was resent makes the program read the file again from its start |
| `KinetekUtilityLibrary` | "Call init_can" (KinetekUtility.cpp:241) | doing so and calling run_iap again dereferences a null reader |
| `StuParamUnvalidated` | "make sure the stu file is valid" (STUparam.cpp:198) | without a heartbeat the validation stops early, and the file is written unvalidated |
| `StuParamLateHalf` | "gets stu parameters from kinetek and outputs to a file" (STUparam.h:58) | a half that was late for a failed read outlives the next read's wait for a heartbeat and enters its first row |
| `VcisTaskNext` | "will move to next on the list next time the function is executed" (CU_TASK.c:111); "--program 1 --info --reset" (CU.h:28) | the program ends with exit status 0 after the first task; the others never run |

Behaviour a reader should know of, which no property rules out.

`kinetek-util`:

- send_frame exits the process on a transmit error (SocketCanHelper.cpp:136-140).  Between
  the frame that disables the controller (IAP.cpp:203) and the one that enables it
  (IAP.cpp:207), whose own send may be the one that fails, the controller is left off.
  An enable frame lost on the bus leaves it off until the next attempt, or for good when
  one of the forced mode's sends after it fails.  `OffOnlyByTransmitError` says that the
  program ends with a controller it has switched off in no other way.  In the
  other modules a transmit error is not a step: it would end the behaviour where it is,
  which no invariant notices, and their liveness properties are about a process that
  goes on.
- The record after a leading extended linear address record is loaded with its checksum
  unchecked (HexUtility.cpp:323-350), although the loop is there "to check to make sure
  all record checksums are valid" (HexUtility.cpp:316): `CheckedLines` leaves it out.
- The tools stay on can0 whatever -i names (KinetekUtility.cpp:474): main and argp's own
  first call open the default interface before the option is looked at
  (KinetekUtility.cpp:503), and a second init_can returns at once.
- After a read that failed for a missing half, a late half may enter row 0 of the next
  read (`StuParamLateHalf`); after a write that failed for a missing confirmation, a late
  confirmation of row 0 may stand for row 0 of the next write.  `ReadIsEeprom`,
  `RowsInOrder` and `WriteMeansStored` name this exception (`failed`), and allow nothing
  else: late frames of calls that did not fail do no harm, over any number of calls.
- `IAP_MODE_TEST` is defined unconditionally (KinetekUtility.cpp:226): the build as it
  stands uploads nothing and reports UPLOAD_COMPLETE (KinetekUtility.cpp:253).
- A good parameter file with a checksum byte of 0xFF is rejected: the byte is left out
  of the sum as an unused parameter and subtracted nevertheless (STUparam.cpp:390-411).
  `GoodIsAccepted` names this exception.  And where the right checksum has a byte 0xFF
  (FE 01, say), the wrong one with the FF in its place (FF 00) is accepted:
  `AcceptedIsGood` names that one.
- Acknowledgements and confirmations of the upload carry no number, and a late one is
  taken for that of the next packet or page.  With pages of one packet such answers could
  carry the program past a page that was not stored; with the 32 packets of IAP.h:35 they
  cannot, however many are late (`PagesAreStored`).
- A full page of zero bytes may be passed over unstored after lost frames: the buffer that
  was zeroed before the wait (IAP.cpp:361) equals its sum.  The total at the end, a sum of
  bytes, is the same without it.
- write_stu_params returns no value when the controller reports an error after its
  reset (STUparam.cpp:259-263); `Reported` lets the value be anything a caller may see.
- The answer to a single-parameter call is not matched with the parameter asked for
  (STUparam.cpp:446-456): a late answer of one call is taken for that of the next.
- The disable frame at the end of a write has no answer (STUparam.cpp:245): when it is
  lost the controller is not reset and runs on with its old parameters.
- KINETEK_ERROR, which the controller reports after a finished upload, is turned into
  UPLOAD_ERROR (KinetekUtility.cpp:278).
- The page number of the upload is one byte (IAP.cpp:367): it starts again after 256
  pages.

`LiveData`:

- Only the outer wait looks at a time-out; the waits for the first and for a missed page
  go on for ever (LiveData.cpp:164-172, 180-184).  `SilenceEnds` says that a lasting silence
  either ends the tool or finds it in one of these two, where it then stays.
- A resize while the sections are loading loads the parameters of the first pages twice:
  from then on their values stand beside other parameters' labels.  `ValuesMeetLabels`
  names this exception, and allows nothing else.
- The time stamp of a change is the one of the change before; the first is the time since
  boot.  A stamp wider than its column makes an entry wider than the others, and the list,
  one string cut into rows of one width, is garbled until entries of equal width fill it.
- The first parameter received after a resize redraws the list and is not looked at for a
  change of its own.
- MCU_temp_raw is compared with itself (LiveData.cpp:629-634): its changes are never
  listed.  p2_f6 is labelled "p3_f1" (LiveData.cpp:416).
- window_size and the last heartbeat are never initialised.  A window that happens to have
  the size found in memory is not cleared, and the list of changes is then drawn after
  the sections, over them if they are in its place.
- In a window with no room for a section above the list, a section may be moved to the
  edge of the list and lie above the window's first row: `NothingIsCovered` asks for
  windows that are tall enough.
- An options file that lacks [ANALOG] or [CHANGES] is read for ever (LiveData.cpp:1123).
- A heading counts only in its turn: a [CHANGES] in front of [ANALOG] is passed over, and
  what is set below it is shown (LiveData.cpp:1120-1160).

`vcis-util` (under `src/vcis-util/src/`):

- main leaves at the first result that is not CONTINUE, so that of several requested tasks
  only the first runs, although the scheduler would go on (CU_TASK.c:111): `VcisTaskNext`,
  and `OnlyTheFirstIsBegun` for every command line.
- Two of -s, -t and -e share one argument, the last one's (CU_COMMAND.c:109).
- The values read from 1F56 and 1F57 are never looked at, nor is what fread has read: an
  image that was cut short, or that the node reports as bad, is "Successfully Flashed".
  When there is no memory for the file the node is stopped and cleared nevertheless.
- A file that is too large frees a pointer that was never set.
- The first step of the program task waits for a time-out that nobody has set
  (main.c:109); when it lies far in the future the program never does anything.
- Failed downloads return codes of the SDO client where a CU_TASK_STATUS is expected
  (CU_TASK_SDO.c:96, 100); no caller tells them apart.
- The help of --estop says "1 = assert, 2 = de-assert" (CU_COMMAND.c:53), the message
  printed has it the other way round (CU_TASK_RESET.c:111).  A node id is cut to a byte.

### Bounds, and why they are enough

- *Files*: the reader distinguishes records by type, by the halves they fill and by
  their place (first, after an address record, last); four records hold every pair of
  neighbours among these.  The upload's files have a full page, a partly filled page, an
  exact page boundary at the end, a padded packet and an address record inside a packet.
- *`PAGE_SIZE`* is 32 in IAP.h:35 and 2 (or 4) in the runs: a page boundary, a file that
  ends on it, and one that does not.  The proofs hold for every page size.
- *Byte sums* are distinct powers of two, so that a skipped, repeated or swapped packet
  changes a page's sum.  A packet that
  sums to zero is outside the runs.  The theorems say what each needs of that:
  `NoneHasZeroPacket` for the total, because no sum sees a lost packet of zero bytes; for
  the pages only `NoneHasZeroPage`, because of the zeroed buffer (IAP.cpp:361).  Sums
  are not cut to the 32 bits of the code's counter.
- *`FaultBudget`*: 4 faults are enough to lose a packet, the acknowledgement of the
  resent one, and an announcement and a confirmation in the same page.  The proofs hold
  for every budget.
- *Attempt counters* of `IapMode` count up to one past their limits (3 and 10): the loop
  only asks whether a counter is equal to its limit, and a counter beyond it never is
  again.
- *Parameter files* of 4 rows of 4 bytes: the two rows that are rewritten, one whose
  unused parameters are skipped, and the last one with the checksum.  Two calls are a
  write after a read, and a call that meets what the one before left in the air.  A write
  takes any of the files, or the one of the call before.
- *`CallLimit`* 3 and command lines of 3 options: a state of the object has three
  distinguishable ages (before, at and after the first use of an interface).

- *Live data*: pages and sections are those of the code, in full.  The windows are a
  large one, and one with 16 rows where most sections have no place.
  The options files show all sections, some, one and none, and include four that are not
  as parse_ini expects.  The list holds 2 changes instead of 10 and 3 happen: it fills
  and drops one.  A change may be of the first parameter of a page, of an error, and of
  the value that is compared with itself.  A resize in the middle of loading is left to
  the file that shows one section (with more, rows come round in different orders for
  hundreds of heartbeats), and the clock to behaviours without a file, where changes are
  listed.  One fault is a lost frame or a silence, which may end.
- *vcis command lines* of two options hold every pair of tasks in both orders, a node id
  that is too large and one that is cut to a valid byte, and arguments beyond a byte; the
  three of three options put a third task or a repeated one behind them.

### Fairness

- `IapUpload!FairSpec`: weak fairness of the program's steps.  Every wait has a timer
  (SocketCanHelper.cpp:150-205), so the program always takes its next step; nothing is
  assumed of the bootloader or of the faults.  The wait for heartbeat page 1
  (IAP.cpp:484) ends because the controller sends its pages in turn, or a wait returns
  nothing: `NextHeartbeat` is part of the program's wait.
- `StuParam!FairSpec`: weak fairness of `Steps`, for the same reason: a send returns (or
  ends the process, and with it the call), and each wait ends by its timer.
- `IapMode!FairSpec`: the same, and weak fairness of `Settle`: a controller that was
  powered on starts, one that was reset restarts.
- `IapMode!LuckySpec` adds strong fairness of `WindowHit`: the eleven forced commands
  are sent around a window of a few milliseconds after power-up (IAP.cpp:217-238); tried
  again and again, one lands in it.  `AttemptEnds` needs it for a controller whose
  heartbeat stays away after every power-up (or is lost): the code itself does not bound
  these attempts, and without a controller on the bus the loop never ends.
  `FieldAttemptEnds` of the run is `AttemptEnds` for the field build, under the same
  fairness (a transmit error is an end, too, and nothing is assumed of it); the build with
  the source's flags, which may meet no controller at all, is checked for safety only.
- `LiveData!FairSpec`: weak fairness of the tool's steps, as far as they concern `pc` and
  pages: options and display never hold a step up.  `Receive` is among them: a
  controller that is alive sends its heartbeat.  Nothing is assumed of the user, of
  losses, or of a controller's return.
- `VcisTask!FairSpec`: weak fairness of the main loop, of the delay between two steps and
  of the SDO client's timer.  Nothing is assumed of the bus or the node.

## 4. Theorems

Checked by tlapm for every value of the constants that satisfies the named assumptions.

**`HexUtility_proofs`** - for every well-formed file: a call of `get_next_8_bytes` keeps the
reader in the file and moves it forward by exactly one chunk (`OneChunkForward`), counted
by the number of data lines before the position, two chunks to a line.  In a second part,
sums: that a sum over a finite set takes one element at a time (`SumF`), that a file's
total is the sum of its chunks, and that a strict part of chunks, none of them zero, sums
to less.  The natural numbers' induction is used in its set form (`EveryNatural`: a set
that holds 0 and every successor of a member holds every number), which the provers can
instantiate where they cannot instantiate an induction theorem over an operator.

**`HexReader_proofs`** - for every set of well-formed files of any length.  `IInv` adds to
the reader's position what the half-record flag says of the record at hand (`Halfway`):
it decides which lines are behind the reader, and with the count of chunks up to there
the end is reached exactly when the count of the file is.  Results: `ReloadAlwaysWorks`,
`EndMeansEverythingRead`, and the refinement `ReaderImplementsStream`
(`Spec => Stream!Spec`).

**`IapUpload_proofs`** - the inductive invariant is

    IInv == TypeOK /\ Reader(file, ut) /\ FramesAt /\ SentInOrder /\ PagesAt

`SentInOrder` and `PagesKeepUp` are not inductive alone: `Reader` says that the reader's
position is one it can really be in (so that the lemmas on `get_next_8_bytes` apply),
`FramesAt` how far the current packet is filled at each place of the program, and
`PagesAt` how packet and page count relate at each place (equal to a full page only
between the boundary test and the increment of page_count).  From it follow
`TypeCorrectness`, `PacketsInOrder` (`Spec => []SentInOrder`) and `PagesCounted`
(`Spec => []PagesKeepUp`) for all files, page sizes and numbers of faults.

What is uploaded is the content of the file, and the sums tell whether it arrived:

    UploadInv == IInv /\ EndAt /\ ChunksAt /\ ImageAt /\ EvidenceAt /\ SumsAt

- `ChunksAt`: the frames of the packet at hand are the file's chunks in their order, and
  the packet that is sent is the file's next one.
- `ImageAt`: the bootloader's image is packets of the file in their order, some twice
  (`Holds`), up to the packet at hand.
- `EvidenceAt`: an answer to the last record or to the total is on its way only when the
  bootloader's size and sum are the file's; nothing but an announcement carries data.
- `SumsAt`: curr_page_cs is the sum of the chunks of this page read so far.
- `EndAt`: the end of the data, once met, is met again.

`UploadInv` holds as long as the file is not read again (`UploadInvariance`, with
`Rereads` for a reader that would be).  From it follow `EndStaysFinal` (`EndIsFinal`),
`CompleteIsStored` (`CompleteMeansStored`: an image that repeats packets has a larger sum,
one that lacks some a smaller one), `PageSumsAreRight` (`PageFrameIsRight`) and
`PagePassing` (`PagePassedOnEvidence`).  Their hypotheses: `NoneIsReread`, no file has two
chunks in its last packet (such a file may be read again from its start,
`IapUploadRestart`); for the second `NoneHasZeroPacket`, no packet is all zeros, and for the
last `NoneHasZeroPage`, no full page is.

That a stale answer never lets a page go by unstored (`PagesAreStored`: `PagesStored`) is
a statement about the order of the frames in the air, without a number to tell them apart:

    PageInv == PagesHeld /\ (pc \notin LateLabels => AirAt)

An acknowledgement, a confirmation and an announced sum are lost, overtaken by a wait or
answered late independently.  `AnnouncementsAt` says that at most one announcement is in
the air or in the buffer, that it is about the page at hand, and how many acknowledgements
may still follow it; `ConfirmationsAt` that a confirmation which missed its wait is at most
two packets behind, as each packet takes an answer from the front of the queue.  Both are
about subsequences of the air (`Has1`, `Has2`, `Has3`), and only they make `PagesHeld`
inductive: a page is confirmed by its own confirmation or by its own sum.  Hypotheses:
`NoneHasZeroPage`, and `PAGE_SIZE > 1`, by which a late confirmation does not reach the
next page; none on the number of faults or of chunks.

`StepsAreCounted` is the safety half of `Terminates`: `StepsLeft`, a natural number made of
the place in the program (`Distance`), the packets still to come and the tries left, gets
smaller with every step of the program and is left alone by lost and late frames.  An upload
of n packets therefore takes at most 50 n + 69 steps, whatever the bus does, with the two
heartbeat pages in turn after the restart, as modelled; that the next step is always taken
is the fairness TLC assumes.

Assumptions:
`FilesAssumption` (the files are well-formed), `PageSizeAssumption`,
`FaultBudgetAssumption`, `NoDataAssumption` (the zeroed buffer reads as 0).

**`IapMode_proofs`** - `IInv == TypeOK /\ UploadNeedsBootloader /\ OffIsTemporary`.
`OffOnlyByTransmitError` follows from `OffIsTemporary`: a controller that may be off is met
only while the loop has attempts left, because the counters move only after a heartbeat;
so a step into an end with a controller that is off is `TransmitError`, at a send of the
forced mode.  Results: `UploadOnlyInIapMode`, `LeftOffOnlyByExit`, for a controller found in
any state, any number of losses and every combination of flags.

**`KinetekUtility_proofs`** - `IInv` adds `FlagIsTrue` (can_initialized tells whether the
socket is bound) and `InterfaceFirst` (options are parsed only with an open interface).
Results: `CommandLineOpensFirst`, `ToolsCheckTheFlag`, `NoNullReader`, for all command
lines and all numbers of library calls.  `VerdictIsTheUpload` (the verdict S is about an
upload, and about the tool that ran last) rests on `StatusOfTheLast`: what CL_status
holds, after each tool.

**`StuParam_proofs`** - for all numbers of rows, files, memories, calls and faults:
`ReadIsExact`, `NoRowLeftOut`, `SuccessIsStored`.

    IInv == TypeOK /\ InCall /\ RowsRead /\ AirTells /\ RowsInOrder /\ Outcome
    AirTells == HalvesTell /\ AcksTell /\ DataTells

The halves of a row carry no address, so that what makes a read right is what may be on
its way, over a heartbeat wait and over the end of a call.  `HalvesTell` says that as long as
no read has failed, the halves in the air are those of the row asked for, and there are none
outside of a row; `AcksTell` that as
long as no write has failed, a row's acknowledgement in the air belongs to the row that is
waited for and means that it is stored; `DataTells` that values come from single-parameter calls
alone.  Without the two hypotheses none of this holds (`StuParamLateHalf`).  Its preservation
when a frame is lost, late, taken, or dropped before a heartbeat is one lemma about sequences
with an element left out (`Thinned`) and one about the end of a sequence.  `RowsRead` says
that the rows read so far are those of the EEPROM, `RowsInOrder` that the rows before the one
at hand are stored; `Outcome` is what a call has reported.

`Validation` is inductive on top of `IInv`: it relates the verdict of validate_stu_file to
the definition of a good file, line checksums and total included.  From it `OnlyGoodIsAccepted`
(`AcceptedIsGood`) and `GoodIsNotRejected` (`GoodIsAccepted`), for files of any size.

`CallsAreCounted` is the safety half of `CallsReturn`: `CallLeft`, which every step of a call
lowers and nothing on the bus raises, is at most 3 for each row and 9 more.  It needs
`InCall` (the row is 0 in a validation, and one past the last before a restart), and that
the two pages of the heartbeat come in turn, as modelled.

**`VcisTask_proofs`** - for all command lines and node ids: `OnlyTheFirstIsBegun`,
`TransfersFollowTasks`, `FailureTellsWhatIsLeft`, `SuccessIsFlashed`, `ArgumentsAreOwn`,
`EntriesAreWhole`, and the refinement `ProgramsNodeSafely` (`Spec => Node!Spec`).
`OnlyTheFirst` is no promise of the program: it is what makes the tasks independent of
each other, and why `RequestedTasksRun` fails on every command line whose first task of two is done.

    IInv == TypeOK /\ NoneEnded /\ OnlyTheFirst /\ NodeInv /\ FileFirst

`NoneEnded` says that the loop goes on only while no task has ended.  `NodeInv` relates
task, transfer, what is on its way and the node: what a task has begun with (`Prepared`),
that a request in the air belongs to the last step that was asked (`Asked`), that an
answer was given by a node that has carried it out (`Answered`), that an open transfer is
the step's (`Opened`), and what the node holds at each step (`AtStep`); `Told` keeps this
for the verdict after the end.  A late request is why `AtStep` cannot say more than "old
or none" at CLEAR_PROGRAM.  `FileFirst` carries -f on the command line to the task.
The last two theorems have invariants of their own on top of `IInv`: `Argument` (the last
command parsed so far has its argument in the shared field, and what was sent carries what
is there) and `EntriesTold` (the entries printed are those before the index, and only an
open transfer is answered).

**`LiveData_proofs`** - all safety properties of the run, for every options file, window,
number of rows of the list, lost frames, silences, resizes and changes.  The pages,
sections and labels are those of the code.

`PagesFollow` (`PagesInOrder`) rests on `Remembered`: which of page_num and last_page_num
keeps the page last shown.  The first does in the outer loop; the second while an inner
loop waits for a missed page, when the first is whatever came last, 0 after a time-out.

`OptionsFollowFile` (`OptionsAreTheFile`) is about `parse_ini` on any file.  `ReadSoFar`
says what the first n lines have come to - the loop the parser is in, and the flags of each
section - and is carried from line to line by the same induction over a set of numbers.

`TypesHold`, `SectionsLoadWhole`, `LabelsMatch`, `LatestAreListed` and `NothingCovered`
share one inductive invariant:

    LiveInv == Typed /\ Remembered /\ Started /\ ListInv(display, log)
                 /\ LoadInv(display, AtPage, AtParam) /\ LayoutInv(display)

A page changes the display in one step of the model, parameter by parameter.  Each part of
the invariant is therefore a statement about a display, `LoadInv(d, p, i)` about one that
has come to the i-th parameter of page p; `ParamKeeps` takes all three over one
update_param, and `PageSteps` over a page.

- `ListInv`: each of the latest changes is where it belongs in the one string the list is
  (`InList`), for either width of the rows, and the string has no room for one more
  (`NoMoreThan`, `ShortList`); so cutting it into rows of that width shows the latest changes,
  although wider and narrower ones have pushed each other out.
- `LoadInv`: while loading, a section holds at least the parameters that came up to here,
  in order when it holds exactly as many (`Loading`); later its row counter stands at the
  number of its parameters that came in this round, or the section has not been placed
  since a resize and is waiting for its first parameter (`Loaded`).  `Count` counts the
  parameters of a section up to a place on a page, `Place` is a parameter's own number.
- `LayoutInv`: a section on display is in the row of the section placed last or above that
  row, so that the next one, right of it or below it, meets none (`LayoutPlaced`); what is
  moved right of the list of changes keeps to the same row.

For the proof, the order of the parameters is a function instead of a fold, and three
constants have assumptions; that [CHANGES] counts only behind [ANALOG] was seen when the
proof of the options failed.

`HexReader`, `IapUpload`, `IapMode`, `KinetekUtility`, `StuParam` and `VcisTask` have their
type invariant (`TypeCorrectness`) proved for all constants; their runs therefore check the
other properties.

Each inductive invariant was checked with TLC on the runs' instances before it was proved.

### Only model-checked

- The liveness properties (`Terminates`, `OneFaultCompletes`, `FieldAttemptEnds`,
  `CallsReturn`, `Ends`, `KeepsShowing`, `SilenceEnds`): liveness under fairness, and
  ENABLED, are out of the prover's reach.  Every invariant and every other action property
  of the runs is proved.

## 5. What is not modelled, and why

- Parsing and formatting of text (hex digits, comma-separated rows, arguments, the words
  and colours on the terminal, argp's own --help and unknown options); a file without an
  end-of-file record or with a short data record in the middle, on which the process
  aborts or skips bytes, is outside `HexFile`, which follows HexUtility.h:25-53.
- `init_socketcan`, the CAN driver and the CANopenNode stack (an empty submodule): what
  the tools rely on is modelled as external, among it that the SDO client never reports
  the success of a transfer the node has not confirmed.
- A reset of the vcis-util program by its own NMT state (`reset`, vcis-util/src/main.c),
  and its -i and -p options, which only choose an interface and a sub-index.
- A directory in which the options file of `LiveData` cannot be written, and text in the
  value column that runs past the last column of the window.
- The sections "METADATA" and "UNKNOWN" of the options file are the `META_STATE` and
  `UNKNOWN_STATE` of the model.
- The byte values of heartbeat parameters: a parameter has changed or not.
- `test_iap`, whose call is commented out; the Python tools, shell scripts, build files,
  and the generated CANopen dictionary, tables without behaviour.
- Real time: 3 s waits are taken to be longer than a start or reset of the controller;
  the 38 ms window is hit or missed nondeterministically; a time-out of `LiveData` is the
  controller's silence.  Deadlines of vcis-util, which are floats (CU_TASK.c:157), have
  passed, will pass or never do.
- Wording and layout of what is printed, except main's verdict and the order of entries.

## 6. Plan

Done: `HexUtility`, `HexReader`, `ChunkStream`; `SocketCanHelper`, `Bootloader`,
`IapUpload`; `IapMode`, `KinetekUtility`; `StuFile`, `StuParam`; `LiveDataPages`,
`LiveDataOptions`, `LiveData`; `NodeProgram`, `VcisSdo`, `VcisTask`; and the theorems of
section 4.

Left:

1. `SilenceEnds` and `KeepsShowing` with more faults, on a model of the page loop alone.
