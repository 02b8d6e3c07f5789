---------------------------- MODULE MC_LiveData ----------------------------
\* Live data on two windows, with option files that show some or all of the sections.
EXTENDS LiveData

Window(c, r) == [col |-> c, row |-> r]
AllWindows == {Window(200, 60), Window(123, 16)}

On(names) == [i \in DOMAIN names |-> Setting(names[i], TRUE)]
Everything ==
  <<STATE_SECTION>> \o Settings(StateNames, StateSections)
  \o <<ANALOG_SECTION>> \o Settings(AnalogNames, AnalogSections)
  \o <<CHANGES_SECTION>> \o On(<<"META_STATE", "MISC_ANALOG">>)
Narrow ==
  <<STATE_SECTION, Setting("BATTERY_STATE", TRUE), Setting("ERROR_STATE", FALSE), ANALOG_SECTION>>
  \o On(<<"BATTERY_ANALOG", "SCRUBBER_ANALOG", "RECOVERY_ANALOG">>)
  \o <<CHANGES_SECTION, OTHER_LINE>>
OneSection ==
  <<STATE_SECTION, Setting("BATTERY_STATE", TRUE), ANALOG_SECTION, CHANGES_SECTION>>
\* The first [CHANGES] is passed over: the section is shown.
TwoChanges ==
  <<STATE_SECTION, CHANGES_SECTION, Setting("META_STATE", TRUE), ANALOG_SECTION, CHANGES_SECTION>>
AllFiles ==
  {Everything, Narrow, OneSection, TwoChanges, <<OTHER_LINE, ANALOG_SECTION>>,
   <<STATE_SECTION, CHANGES_SECTION>>,
   <<STATE_SECTION, ANALOG_SECTION, Setting("META_STATE", TRUE)>>}

\* The first parameter of a page, an error and the value that is compared with itself.
AllWatched == {<<1, 1>>, <<3, 4>>, <<7, 2>>}

\* With every section on display, a resize in the middle of loading makes the rows come round in
\* a different order for hundreds of heartbeats: it is left to the file that shows one section.
\* The clock matters where changes are listed.
Sparing ==
  /\ resizes' # resizes => display.finished_loading \/ pc = "parse" \/ file = OneSection
  /\ uptime' # uptime => file = NO_FILE

MCSpec == Init /\ [][Next /\ Sparing]_vars
MCFairSpec == MCSpec /\ WF_control(Runs)
=============================================================================
