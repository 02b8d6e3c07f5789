-------------------------- MODULE LiveDataOptions --------------------------
(***************************************************************************)
(* live_data_options.ini: the file parse_ini writes when there is none,    *)
(* and what it makes of the lines of a file.                               *)
(***************************************************************************)
EXTENDS LiveDataPages, FiniteSetsExt, SequencesExt

\* A line is one of the three headings, a setting, or anything else.
STATE_SECTION == [heading |-> "[STATE]"]
ANALOG_SECTION == [heading |-> "[ANALOG]"]
CHANGES_SECTION == [heading |-> "[CHANGES]"]
Headings == {STATE_SECTION, ANALOG_SECTION, CHANGES_SECTION}
Setting(s, on) == [name |-> s, on |-> on]
OTHER_LINE == [name |-> "other", on |-> TRUE]
Lines == Headings \union {OTHER_LINE} \union {Setting(s, on) : s \in sections, on \in BOOLEAN}

\* PRESENT: shown.  ACTIVE: its changes are listed.  The two flags share no bit.
PRESENT == "PRESENT"
ACTIVE == "ACTIVE"
NoOptions == [s \in sections |-> {}]

\* The settings are written in the order of the constructor.
StateNames == <<"TRACTION_STATE", "SCRUBBER_STATE", "RECOVERY_STATE", "BATTERY_STATE",
                "META_STATE", "ERROR_STATE", "MISC_STATE", "UNKNOWN_STATE">>
AnalogNames == <<"TRACTION_ANALOG", "SCRUBBER_ANALOG", "RECOVERY_ANALOG", "MISC_ANALOG",
                 "BATTERY_ANALOG">>
Settings(names, on) == [i \in DOMAIN names |-> Setting(names[i], names[i] \in on)]
DefaultFile ==
  <<STATE_SECTION>>
  \o Settings(StateNames, {"ERROR_STATE", "META_STATE", "TRACTION_STATE"})
  \o <<ANALOG_SECTION>> \o Settings(AnalogNames, {})
  \o <<CHANGES_SECTION>>
  \o Settings(StateNames \o AnalogNames, {"ERROR_STATE", "TRACTION_STATE"})

\* Which of the three loops a line is read in: `at' is the heading of the loop, and a
\* heading is recognised only by the loop that ends at it.
Heading(at, line) ==
  CASE at = STATE_SECTION /\ line = ANALOG_SECTION -> ANALOG_SECTION
    [] at = ANALOG_SECTION /\ line = CHANGES_SECTION -> CHANGES_SECTION
    [] OTHER -> at

\* Mutant: a change setting shows the section.
M_Flag(at) == PRESENT
Flag(at) == IF at = CHANGES_SECTION THEN ACTIVE ELSE PRESENT

ReadLine(read, line) ==
  IF line \notin Headings /\ line.on /\ line.name \in sections
  THEN [read EXCEPT !.options[line.name] = @ \union {Flag(read.at)}]
  ELSE [read EXCEPT !.at = Heading(@, line)]

\* A file that does not start with a heading is not read any further.  One that ends in
\* the first or the second loop is read for ever: getline leaves the line as it was.
parse_ini(file) ==
  LET lines == IF file = <<>> THEN <<OTHER_LINE>> ELSE file
      read[n \in DOMAIN lines] ==
        IF n = 1 THEN [at |-> lines[1], options |-> NoOptions] ELSE ReadLine(read[n - 1], lines[n])
      last == read[IF lines[1] \in Headings THEN Len(lines) ELSE 1]
  IN [options |-> last.options,
      returns |-> last.at \notin {STATE_SECTION, ANALOG_SECTION}]
=============================================================================
