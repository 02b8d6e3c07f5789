------------------------------ MODULE LiveData ------------------------------
(***************************************************************************)
(* The live data tool (LiveData.cpp): heartbeat pages from the Kinetek to  *)
(* sections on a terminal and a list of the latest changes.                *)
(*                                                                         *)
(* A step handles one frame, up to the head of the loop; the user resizes  *)
(* the window, and the Kinetek loses frames, falls silent and resumes,     *)
(* between two of them.  The socket keeps frames in order and the tool     *)
(* waits 500 ms for each, so a time-out is the Kinetek's silence.          *)
(***************************************************************************)
EXTENDS LiveDataOptions

CONSTANTS
  Files,          \* contents of the options file, besides that there is none
  Terminals,      \* window sizes: columns and rows
  Watched,        \* the parameters whose values change
  VALUE_SIZES,    \* characters of a byte's value: 1..3
  LIST_LEN,       \* rows of the list of changes: 10
  MAX_RESIZES, MAX_FAULTS, MAX_CHANGES

ASSUME LiveDataAssumption ==
  /\ Files \subseteq Seq(Lines)
  /\ Terminals \subseteq [col : Nat, row : Nat]
  /\ Watched \subseteq Params
  /\ VALUE_SIZES \subseteq 1..3
  /\ LIST_LEN \in Nat \ {0}
  /\ MAX_RESIZES \in Nat /\ MAX_FAULTS \in Nat /\ MAX_CHANGES \in Nat

VARIABLES
  file, options, pc,
  page_num, last_page_num, get_first_page,
  window_size,    \* the size the tool knows, at first whatever memory held
  digits,         \* the characters of a byte's value when sections are placed
  display,        \* sections, the changes list and their layout
  shown, log,     \* history: the page last shown, the changes that should be listed
  terminal, resizes,
  turn, alive, faults,   \* the Kinetek: its next page, whether it sends
  uptime          \* whether a time stamp outgrows its column: at first, and in the end

pages == <<page_num, last_page_num, get_first_page>>
window == <<terminal, resizes>>
kinetek == <<turn, alive, faults>>
vars == <<file, options, pc, pages, window_size, digits, display, shown, log, window, kinetek, uptime>>

NO_FILE == <<"no file">>
JUNK == [col |-> 0, row |-> 0]
NOWHERE == [x |-> -1, y |-> -1]
ORIGIN == [x |-> 0, y |-> 0, width |-> 0, height |-> 0]
PADDING == 3
\* The list of changes: title and ten rows at the bottom of the window.
CHANGES_HEIGHT == 10

Init ==
  /\ file \in Files \union {NO_FILE}
  /\ options = NoOptions
  /\ pc = "parse"
  /\ page_num = 0 /\ last_page_num = 0 /\ get_first_page = TRUE
  /\ terminal \in Terminals
  /\ window_size \in {JUNK, terminal}
  /\ digits \in VALUE_SIZES
  /\ display = [params |-> [s \in sections |-> <<>>], place |-> [s \in sections |-> NOWHERE],
                param_index |-> [s \in sections |-> -1], last |-> ORIGIN,
                finished_loading |-> FALSE, refresh |-> FALSE, cleared |-> FALSE,
                top_10 |-> <<>>, width |-> 0, rows |-> <<>>,
                mislabelled |-> {}]
  /\ shown = 0 /\ log = <<>>
  /\ resizes = 0
  /\ turn = 9/\ alive = TRUE /\ faults = 0
  /\ uptime \in {"short", "long"}

-----------------------------------------------------------------------------
(* The list of changes.  A change is a run of cells: three when its time   *)
(* stamp is wider than its column, else two.  The code cuts `top_10' into  *)
(* rows as wide as the change it was last called for.                      *)

Change(n, wide) == [k \in 1..(IF wide THEN 3 ELSE 2) |-> <<n, k>>]
Bytes(cells) == 79 + cells

Rows(list, width) ==
  [i \in 1..(Len(list) \div width) |-> SubSeq(list, (i - 1) * width + 1, i * width)]

\* Mutant: the list gets one row too many.
M_update_changes(d, latest_change, just_refresh) ==
  LET width == Len(latest_change)
      kept == IF Len(d.top_10) > width * LIST_LEN
              THEN SubSeq(d.top_10, 1, Len(d.top_10) - width)
              ELSE d.top_10
      list == IF just_refresh THEN d.top_10 ELSE latest_change \o kept
  IN [d EXCEPT !.width = width,
               !.top_10 = list,
               !.rows = Rows(list, width),
               !.refresh = IF just_refresh THEN FALSE ELSE @]

update_changes(d, latest_change, just_refresh) ==
  LET width == Len(latest_change)
      kept == IF Len(d.top_10) >= width * LIST_LEN
              THEN SubSeq(d.top_10, 1, Len(d.top_10) - width)
              ELSE d.top_10
      list == IF just_refresh THEN d.top_10 ELSE latest_change \o kept
  IN [d EXCEPT !.width = width,
               !.top_10 = list,
               !.rows = Rows(list, width),
               !.refresh = IF just_refresh THEN FALSE ELSE @]

-----------------------------------------------------------------------------
(* The layout.  A position comes with the `last' values it leaves behind.  *)

Height(d, s) == Len(d.params[s])

\* In the row of the section placed last, below that row, or nowhere.
NextPosition(d, s) ==
  LET last == d.last
      cols_left == window_size.col - (last.x + last.width)
      rows_left == window_size.row - (last.y + last.height)
      beside == cols_left > Width[s] + PADDING /\ window_size.row - last.y > Height(d, s)
      below == rows_left > Height(d, s) + PADDING
  IN CASE beside /\ last.width = 0 -> [x |-> 0, y |-> 0, last |-> last]
       [] beside /\ last.width # 0 ->
            [x |-> last.x + last.width + PADDING, y |-> last.y, last |-> last]
       [] ~beside /\ below ->
            [x |-> 0, y |-> last.y + last.height + PADDING,
             last |-> [last EXCEPT !.height = Height(d, s), !.width = Width[s]]]
       [] OTHER -> [x |-> -1, y |-> -1, last |-> last]

MeetsChanges(d, s, p) ==
  /\ d.width # 0
  /\ p.x < Bytes(d.width) /\ p.x + Width[s] > 0
  /\ p.y < window_size.row
  /\ p.y + Height(d, s) + PADDING > window_size.row - CHANGES_HEIGHT

\* Mutant: sections are placed without a look at the list of changes.
M_AwayFromChanges(d, s, p) == p

\* Right of the changes if there is room.
AwayFromChanges(d, s, p) ==
  CASE ~MeetsChanges(d, s, p) -> p
    [] MeetsChanges(d, s, p) /\ window_size.col - Bytes(d.width) > Width[s] + PADDING ->
         [p EXCEPT !.x = Bytes(d.width)]
    [] OTHER -> [x |-> -1, y |-> -1, last |-> d.last]

PlaceSection(d, s, size) ==
  LET p == AwayFromChanges(d, s, NextPosition(d, s))
      n == Height(d, s)
  IN [d EXCEPT
       !.param_index[s] = 0,
       !.place[s] = [x |-> p.x, y |-> p.y],
       !.last = IF p.x = -1 THEN p.last
                ELSE [x |-> p.x, y |-> p.y, width |-> Width[s] + 1 + size,
                      height |-> IF n > p.last.height THEN n ELSE p.last.height]]

update_section(d, id, size) ==
  LET s == Section(id)
  IN CASE ~d.finished_loading -> [d EXCEPT !.params[s] = Append(@, id)]
       [] d.finished_loading /\ d.param_index[s] < 0 /\ PRESENT \in options[s] ->
            PlaceSection(d, s, size)
       [] OTHER -> d

\* The value goes to the next row of its section, beside the label of that row.
OnDisplay(d, s) == d.place[s].x >= 0 /\ d.place[s].y >= 0
Publish(d, id) ==
  LET s == Section(id)
      row == IF d.param_index[s] = Height(d, s) THEN 0 ELSE d.param_index[s]
  IN IF d.finished_loading /\ OnDisplay(d, s)
     THEN [d EXCEPT !.param_index[s] = row + 1,
                    !.mislabelled = IF d.params[s][row + 1] = id THEN @ ELSE @ \union {s}]
     ELSE d

-----------------------------------------------------------------------------
(* A parameter, and a page of them. *)

\* The characters of a value: one if it is a few bits, at least eight for an analog one.
Size(id) ==
  CASE Section(id) \in AnalogSections -> 7 + digits
    [] Section(id) \notin AnalogSections /\ Fields[id[1]][id[2]] = 8 -> digits
    [] OTHER -> 1

\* MCU_temp_raw is compared with itself.
SelfCompared == {<<7, 2>>}
Listed(id, changed) == id \in changed \ SelfCompared /\ ACTIVE \in options[Section(id)]

\* The time stamp is the one of the previous call: before the first, the time since boot.
Wide(d) == uptime = "over" \/ (uptime = "long" /\ d.width = 0)

update_param(new, id, changed) ==
  LET d == new.display
      change == Change(Len(new.log) + 1, Wide(d))
      listed == Listed(id, changed) /\ ~d.refresh
      d1 == CASE d.refresh -> update_changes(d, change, TRUE)
              [] listed -> update_changes(d, change, FALSE)
              [] OTHER -> d
  IN [display |-> Publish(update_section(d1, id, Size(id)), id),
      log |-> IF listed THEN <<change>> \o new.log ELSE new.log]

UpdatePage(p, changed) ==
  LET after[i \in 0..Len(Page[p])] ==
        IF i = 0 THEN [display |-> display, log |-> log]
                 ELSE update_param(after[i - 1], <<p, i>>, changed)
      new == after[Len(Page[p])]
  IN /\ display' = [new.display EXCEPT !.finished_loading = @ \/ p = 10]
     /\ log' = new.log

-----------------------------------------------------------------------------
(* update_heartbeat *)

\* pc "parse" and "hung": in parse_ini.  "top": at the head of the loop.  "page", "first" and
\* "missed": waiting for a frame, in the loop or in one of the two inner loops.
Parsed ==
  [f \in Files \union {NO_FILE} |-> parse_ini(IF f = NO_FILE THEN DefaultFile ELSE f)]

Options ==
  /\ pc = "parse"
  /\ options' = Parsed[file].options
  /\ pc' = IF Parsed[file].returns THEN "top" ELSE "hung"
  /\ UNCHANGED <<file, pages, window_size, digits, display, shown, log, window, kinetek, uptime>>

\* A window of another size: every section is placed again, from page 1 on.
Reset(d) ==
  [d EXCEPT !.param_index = [s \in sections |-> -1], !.place = [s \in sections |-> NOWHERE],
            !.last = ORIGIN, !.refresh = TRUE, !.cleared = TRUE, !.mislabelled = {}]

\* Mutant: after a resize the tool goes on with the next page.
M_CheckWindow ==
  /\ pc = "top"
  /\ pc' = "page"
  /\ window_size' = terminal
  /\ IF terminal # window_size
     THEN display' = Reset(display) /\ digits' \in VALUE_SIZES
     ELSE UNCHANGED <<display, digits>>
  /\ UNCHANGED <<file, options, pages, shown, log, window, kinetek, uptime>>

CheckWindow ==
  /\ pc = "top"
  /\ pc' = "page"
  /\ window_size' = terminal
  /\ IF terminal # window_size
     THEN display' = Reset(display) /\ get_first_page' = TRUE /\ digits' \in VALUE_SIZES
     ELSE UNCHANGED <<display, get_first_page, digits>>
  /\ UNCHANGED <<file, options, page_num, last_page_num, shown, log, window, kinetek, uptime>>

\* Mutant: the page number does not start again.
M_Following(p) == p + 1

Following(p) == (p % 10) + 1

\* Mutants: any page will do, and page 10 is followed by page 11.
M_Wanted(last) == IF get_first_page THEN 1 ELSE turn
M_WantedAfterTen(last) == IF get_first_page THEN 1 ELSE last + 1

\* The page the tool is waiting for.
Wanted(last) == IF get_first_page THEN 1 ELSE Following(last)

\* A frame of the Kinetek.  last_page_num is set by the outer loop only.
Receive ==
  /\ pc \in {"page", "first", "missed"}
  /\ alive
  /\ turn' = Following(turn)
  /\ page_num' = turn
  /\ last_page_num' = IF pc = "page" THEN page_num ELSE last_page_num
  /\ \/ /\ turn = Wanted(last_page_num')
        /\ pc' = "top"
        /\ get_first_page' = FALSE
        /\ shown' = turn
     \/ /\ turn # Wanted(last_page_num')
        /\ pc' = IF get_first_page THEN "first" ELSE "missed"
        /\ UNCHANGED <<get_first_page, shown>>

Frame ==
  /\ Receive
  /\ \/ /\ pc' = "top"
        /\ \E changed \in SUBSET {id \in Watched : id[1] = turn} :
             /\ Len(log) + Cardinality(changed) <= MAX_CHANGES
             /\ UpdatePage(turn, changed)
     \/ pc' # "top" /\ UNCHANGED <<display, log>>
  /\ UNCHANGED <<file, options, window_size, digits, window, alive, faults, uptime>>

\* Mutant: the outer loop goes on without a heartbeat.
M_TimeOut ==
  /\ pc \in {"page", "first", "missed"}
  /\ ~alive
  /\ IF pc = "page" THEN pc' = "top" /\ UNCHANGED page_num
                    ELSE page_num' = 0 /\ UNCHANGED pc
  /\ UNCHANGED <<file, options, last_page_num, get_first_page, window_size, digits, display,
                 shown, log, window, kinetek, uptime>>

\* Only the outer loop looks at what came: the inner ones read page 0 and go on.
TimeOut ==
  /\ pc \in {"page", "first", "missed"}
  /\ ~alive
  /\ IF pc = "page" THEN pc' = "ended" /\ UNCHANGED page_num
                    ELSE page_num' = 0 /\ UNCHANGED pc
  /\ UNCHANGED <<file, options, last_page_num, get_first_page, window_size, digits, display,
                 shown, log, window, kinetek, uptime>>

-----------------------------------------------------------------------------
(* The Kinetek, the user and the clock *)

Running == pc \notin {"ended", "hung"}

KinetekFault ==
  /\ Running
  /\ faults < MAX_FAULTS
  /\ faults' = faults + 1
  /\ alive
  /\ \/ turn' = Following(turn) /\ UNCHANGED alive    \* a lost frame
     \/ alive' = FALSE /\ UNCHANGED turn
  /\ UNCHANGED <<file, options, pc, pages, window_size, digits, display, shown, log, window, uptime>>

Resume ==
  /\ Running
  /\ ~alive
  /\ alive' = TRUE
  /\ turn' = 1
  /\ UNCHANGED <<file, options, pc, pages, window_size, digits, display, shown, log, window, faults,
                 uptime>>

Resize ==
  /\ Running
  /\ resizes < MAX_RESIZES
  /\ resizes' = resizes + 1
  /\ terminal' \in Terminals \ {terminal}
  /\ UNCHANGED <<file, options, pc, pages, window_size, digits, display, shown, log, kinetek, uptime>>

\* After 10,000 s of live data every time stamp is wider than its column.
Outlast ==
  /\ Running
  /\ uptime # "over"
  /\ display.width # 0
  /\ uptime' = "over"
  /\ UNCHANGED <<file, options, pc, pages, window_size, digits, display, shown, log, window, kinetek>>

Next == Options \/ CheckWindow \/ Frame \/ TimeOut \/ KinetekFault \/ Resume \/ Resize \/ Outlast

Spec == Init /\ [][Next]_vars

\* The tool runs on, and a Kinetek that is alive sends its heartbeat.  The options and what is
\* displayed never hold a step up: only Options makes a Start step, and only Frame a Receive.
control == <<pc, pages, turn>>
Start == pc = "parse" /\ pc' \in {"top", "hung"} /\ UNCHANGED <<pages, turn>>
Runs == Start \/ CheckWindow \/ Receive \/ TimeOut
FairSpec == Spec /\ WF_control(Runs)

-----------------------------------------------------------------------------
\* Every variable stays within its type.
TypeOK ==
  /\ file \in Files \union {NO_FILE}
  /\ options \in [sections -> SUBSET {PRESENT, ACTIVE}]
  /\ pc \in {"parse", "hung", "top", "page", "first", "missed", "ended"}
  /\ page_num \in 0..10 /\ last_page_num \in 0..10 /\ get_first_page \in BOOLEAN
  /\ terminal \in Terminals /\ window_size \in Terminals \union {JUNK}
  /\ \A s \in sections :
       /\ display.params[s] \in Seq(Params)
       /\ display.param_index[s] \in -1..Height(display, s)
       /\ display.place[s].x >= -1 /\ display.place[s].y >= -1
  /\ display.mislabelled \subseteq sections
  /\ Len(log) <= MAX_CHANGES
  /\ shown \in 0..10 /\ turn \in 1..10 /\ alive \in BOOLEAN
  /\ faults \in 0..MAX_FAULTS /\ resizes \in 0..MAX_RESIZES
  /\ uptime \in {"short", "long", "over"}
  /\ digits \in VALUE_SIZES

\* The options are what the file says (parse_ini): a section is shown when it is set under
\* [STATE] or [ANALOG] and its changes are listed when it is set under [CHANGES]; without a
\* file, traction, errors and metadata are shown and the changes of traction and errors listed.
\* A heading counts only in its turn: the [CHANGES] that matters is one behind an [ANALOG].
\* A file is read for ever when it starts with a heading and lacks the ones that follow.
InChanges(k) ==
  \E i, j \in 1..(k - 1) : i < j /\ file[i] = ANALOG_SECTION /\ file[j] = CHANGES_SECTION
SetUnder(s, changes) ==
  \E k \in DOMAIN file : file[k] = Setting(s, TRUE) /\ InChanges(k) = changes
WellFormed ==
  file # <<>> /\ file[1] = STATE_SECTION /\ InChanges(Len(file) + 1)
OptionsAreTheFile ==
  /\ pc # "parse" /\ file = NO_FILE =>
       /\ pc # "hung"
       /\ \A s \in sections :
            /\ PRESENT \in options[s] <=> s \in {"TRACTION_STATE", "ERROR_STATE", "META_STATE"}
            /\ ACTIVE \in options[s] <=> s \in {"TRACTION_STATE", "ERROR_STATE"}
  /\ pc # "parse" /\ file # NO_FILE /\ WellFormed =>
       /\ pc # "hung"
       /\ \A s \in sections : /\ PRESENT \in options[s] <=> SetUnder(s, FALSE)
                              /\ ACTIVE \in options[s] <=> SetUnder(s, TRUE)
  /\ pc = "hung" => file # <<>> /\ file[1] \in Headings /\ ~WellFormed

\* Once loading is done every section holds all its parameters, in the order in which the
\* pages bring them: no lost frame, time-out or resize leaves one out.
ParamsOf == [s \in sections |-> {id \in Params : Section(id) = s}]
Twice(s) == Height(display, s) > Cardinality(ParamsOf[s])
Earlier(a, b) == a[1] < b[1] \/ (a[1] = b[1] /\ a[2] < b[2])
SectionsAreWhole ==
  display.finished_loading =>
    \A s \in sections :
      LET params == display.params[s]
      IN /\ ToSet(params) = ParamsOf[s]
         /\ ~Twice(s) => \A i \in 2..Len(params) : Earlier(params[i - 1], params[i])

\* A value stands beside its own label, unless a resize in the middle of loading has loaded
\* the parameters of the first pages twice (update_section appends them again).
ValuesMeetLabels == \A s \in display.mislabelled : Twice(s)

\* The list of changes shows the latest ones, newest first and each whole, as long as those
\* changes and the one the list was last drawn for are equally wide.
Latest == SubSeq(log, 1, IF Len(log) < LIST_LEN THEN Len(log) ELSE LIST_LEN)
ListShowsLatest ==
  (\A i \in DOMAIN Latest : Len(Latest[i]) = display.width) =>
    display.rows = IF display.width = 0 THEN <<>> ELSE Latest

\* What is displayed does not cover anything else: in a window that has room for the tallest
\* section above the list of changes, sections lie inside it and apart from each other; and they
\* stay clear of the list once a window size has been noticed (window_size is never initialised:
\* when it happens to hold the size of the window the list is first drawn after the sections).
Displayed == {s \in sections : OnDisplay(display, s)}
Apart(s, t) ==
  LET p == display.place[s]
      q == display.place[t]
  IN \/ p.x + Width[s] + 1 < q.x
     \/ q.x + Width[t] + 1 < p.x
     \/ p.y + Height(display, s) < q.y
     \/ q.y + Height(display, t) < p.y
Tall == \A s \in sections : window_size.row >= Height(display, s) + CHANGES_HEIGHT + 2
NothingIsCovered ==
  /\ Tall => \A s \in Displayed :
       /\ display.place[s].y + Height(display, s) < window_size.row
       /\ display.place[s].x > 0 => display.place[s].x + Width[s] < window_size.col
       /\ \A t \in Displayed \ {s} : Apart(s, t)
  /\ display.cleared => \A s \in Displayed :
       \/ display.place[s].x >= 81
       \/ display.place[s].y + Height(display, s) < window_size.row - CHANGES_HEIGHT - 1

\* Pages are shown one after the other, none left out and none twice, and from page 1 on
\* after a resize: a frame that comes out of turn is passed over.
PagesInOrder ==
  [][shown' # shown =>
       shown' = Following(shown) \/ (shown' = 1 /\ get_first_page)]_shown

\* A Kinetek that sends is followed for ever: the loops that wait for a page end.
KeepsShowing ==
  <>[]alive => ([]<>(shown = 1) /\ []<>(shown = 10)) \/ <>(pc \in {"ended", "hung"})

\* A Kinetek that falls silent for good, at any moment, ends the tool or finds it, from then on,
\* waiting for the first page or for a missed one: those two loops ignore the time-out
\* (LiveData.cpp:164-172, 180-184), the outer wait does not (LiveData.cpp:155).
SilenceEnds ==
  <>[](~alive) => <>(pc \in {"ended", "hung"}) \/ <>[](pc \in {"first", "missed"})
=============================================================================
