-------------------------- MODULE LiveData_proofs --------------------------
(***************************************************************************)
(* Theorems about live data, for every options file, window, number of     *)
(* lost frames, silences, resizes and changes, and rows of the list: the   *)
(* order of the pages, the options, and what the display holds.            *)
(*                                                                         *)
(* The display changes parameter by parameter while a page is handled, in  *)
(* the middle of a step.  So its invariant says how far a page has come:   *)
(* LoadInv(d, p, i) is what the sections of d are like behind the i-th     *)
(* parameter of page p.  PageSteps takes such a statement from the head of *)
(* a page to its end, PageFollows and RoundAgain on to the next page.      *)
(***************************************************************************)
EXTENDS LiveData, HexUtility_proofs, SequenceTheorems

-----------------------------------------------------------------------------
(* The order of the pages. *)

\* Which variable remembers the page last shown: page_num in the outer loop; while an inner
\* loop waits for a missed page, page_num is whatever came last (0 after a time-out) and
\* last_page_num keeps it.  The wait for page 1 does not ask.
Remembered ==
  /\ pc \in {"parse", "top", "page"} => page_num = shown
  /\ pc = "first" => get_first_page
  /\ pc = "missed" => last_page_num = shown

\* A frame that is shown is the one after the page last shown, or page 1 where that is asked.
LEMMA NextIsShown ==
  ASSUME Remembered, Receive
  PROVE  /\ Remembered'
         /\ shown' # shown =>
              shown' = Following(shown) \/ (shown' = 1 /\ get_first_page)
<1>1. get_first_page \/ last_page_num' = shown
  BY DEF Receive, Remembered
<1>2. CASE turn = Wanted(last_page_num')
  <2>1. pc' = "top" /\ shown' = turn /\ page_num' = turn
    BY <1>2 DEF Receive
  <2>2. shown' = Following(shown) \/ (shown' = 1 /\ get_first_page)
    BY <1>1, <1>2, <2>1 DEF Wanted
  <2> QED
    BY <2>1, <2>2 DEF Remembered
<1>3. CASE turn # Wanted(last_page_num')
  <2>1. /\ UNCHANGED <<get_first_page, shown>>
        /\ pc' = IF get_first_page THEN "first" ELSE "missed"
    BY <1>3 DEF Receive
  <2> QED
    BY <1>1, <2>1 DEF Remembered
<1> QED
  BY <1>2, <1>3

LEMMA StepKeeps ==
  ASSUME Remembered, [Next]_vars
  PROVE  /\ Remembered'
         /\ shown' # shown =>
              shown' = Following(shown) \/ (shown' = 1 /\ get_first_page)
<1>1. CASE Options
  BY <1>1 DEF Options, Remembered, pages
<1>2. CASE CheckWindow
  BY <1>2 DEF CheckWindow, Remembered
<1>3. CASE Frame
  BY <1>3, NextIsShown DEF Frame
<1>4. CASE TimeOut
  BY <1>4 DEF TimeOut, Remembered
<1>5. CASE KinetekFault \/ Resume \/ Resize \/ Outlast
  BY <1>5 DEF KinetekFault, Resume, Resize, Outlast, Remembered, pages
<1>6. CASE UNCHANGED vars
  BY <1>6 DEF vars, pages, Remembered
<1> QED
  BY <1>1, <1>2, <1>3, <1>4, <1>5, <1>6 DEF Next

-----------------------------------------------------------------------------
(* The options file. *)

LEMMA HeadingsDiffer ==
  /\ STATE_SECTION # ANALOG_SECTION
  /\ STATE_SECTION # CHANGES_SECTION
  /\ ANALOG_SECTION # CHANGES_SECTION
<1>1. STATE_SECTION.heading = "[STATE]" /\ ANALOG_SECTION.heading = "[ANALOG]"
      /\ CHANGES_SECTION.heading = "[CHANGES]"
  BY DEF STATE_SECTION, ANALOG_SECTION, CHANGES_SECTION
<1> QED
  BY <1>1

LEMMA SettingFacts ==
  ASSUME NEW s, NEW on
  PROVE  /\ Setting(s, on) \notin Headings
         /\ Setting(s, on).name = s /\ Setting(s, on).on = on
<1>1. Setting(s, on).name = s /\ Setting(s, on).on = on
  BY DEF Setting
<1>2. "name" \in DOMAIN Setting(s, on)
  BY DEF Setting
<1>3. \A h \in Headings : "name" \notin DOMAIN h
  BY DEF Headings, STATE_SECTION, ANALOG_SECTION, CHANGES_SECTION
<1> QED
  BY <1>1, <1>2, <1>3

LEMMA OtherFacts ==
  OTHER_LINE \notin Headings /\ OTHER_LINE.name \notin sections
<1>1. OTHER_LINE = Setting("other", TRUE)
  BY DEF OTHER_LINE, Setting
<1>2. "other" \notin sections
  BY DEF sections, StateSections, AnalogSections
<1> QED
  BY <1>1, <1>2, SettingFacts

\* A line is a setting that is on, and then it sets a flag, or at most a heading.
LEMMA LineCases ==
  ASSUME NEW x, NEW line \in Lines
  PROVE  \/ \E s \in sections :
              /\ line = Setting(s, TRUE)
              /\ ReadLine(x, line) = [x EXCEPT !.options[s] = @ \union {Flag(x.at)}]
         \/ /\ \A s \in sections : line # Setting(s, TRUE)
            /\ ReadLine(x, line) = [x EXCEPT !.at = Heading(@, line)]
<1> DEFINE sets == line \notin Headings /\ line.on /\ line.name \in sections
           flag == [x EXCEPT !.options[line.name] = @ \union {Flag(x.at)}]
           move == [x EXCEPT !.at = Heading(@, line)]
<1>1. ReadLine(x, line) = IF sets THEN flag ELSE move
  BY DEF ReadLine
<1>2. ASSUME NEW s \in sections, line = Setting(s, TRUE)
      PROVE  sets /\ flag = [x EXCEPT !.options[s] = @ \union {Flag(x.at)}]
  <2>1. line \notin Headings /\ line.on = TRUE /\ line.name = s
    BY <1>2, SettingFacts
  <2> QED
    BY <2>1
<1>3. ASSUME \A s \in sections : line # Setting(s, TRUE)
      PROVE  ~sets
  <2>1. CASE line \in Headings
    BY <2>1
  <2>2. CASE line = OTHER_LINE
    BY <2>2, OtherFacts
  <2>3. CASE \E s \in sections : line = Setting(s, FALSE)
    <3>1. PICK s \in sections : line = Setting(s, FALSE)
      BY <2>3
    <3>2. line.on = FALSE
      BY <3>1, SettingFacts
    <3>3. ~line.on
      BY <3>2
    <3> QED
      BY <3>3, Zenon
  <2>4. \/ line \in Headings \/ line = OTHER_LINE
        \/ \E s \in sections, on \in BOOLEAN : line = Setting(s, on)
    BY DEF Lines
  <2>5. ASSUME NEW s \in sections, NEW on \in BOOLEAN, line = Setting(s, on)
        PROVE  \E r \in sections : line = Setting(r, FALSE)
    <3>1. on = FALSE
      BY <1>3, <2>5
    <3> QED
      BY <2>5, <3>1
  <2> HIDE DEF sets
  <2> QED
    BY <2>1, <2>2, <2>3, <2>4, <2>5
<1> HIDE DEF sets, flag, move
<1>4. CASE \E s \in sections : line = Setting(s, TRUE)
  BY <1>1, <1>2, <1>4
<1>5. CASE \A s \in sections : line # Setting(s, TRUE)
  <2>1. ReadLine(x, line) = move
    BY <1>1, <1>3, <1>5
  <2> QED
    BY <1>5, <2>1 DEF move
<1> QED
  BY <1>4, <1>5

\* What is read up to a line, line by line.
FirstRead(f) == [at |-> f[1], options |-> NoOptions]
LineTable(f, n, r) ==
  r = [k \in 1..n |-> IF k = 1 THEN FirstRead(f) ELSE ReadLine(r[k - 1], f[k])]

LEMMA LineTableExists ==
  ASSUME NEW f
  PROVE  \A n \in Nat : \E r : LineTable(f, n, r)
<1> DEFINE S == {n \in Nat : \E r : LineTable(f, n, r)}
<1>1. 0 \in S
  <2> DEFINE r == [k \in 1..0 |-> FirstRead(f)]
  <2>1. LineTable(f, 0, r)
    BY DEF LineTable
  <2> QED
    BY <2>1
<1>2. ASSUME NEW n \in Nat, n \in S PROVE n + 1 \in S
  <2>1. PICK r : LineTable(f, n, r)
    BY <1>2
  <2> DEFINE new == IF n + 1 = 1 THEN FirstRead(f) ELSE ReadLine(r[n], f[n + 1])
             q == [k \in 1..(n + 1) |-> IF k = n + 1 THEN new ELSE r[k]]
  <2>2. ASSUME NEW k \in 1..(n + 1)
        PROVE  q[k] = IF k = 1 THEN FirstRead(f) ELSE ReadLine(q[k - 1], f[k])
    <3>1. CASE k = n + 1
      <4>1. k # 1 => q[k - 1] = r[n]
        BY <3>1
      <4> QED
        BY <3>1, <4>1
    <3>2. CASE k # n + 1
      <4>1. k \in 1..n /\ (k # 1 => k - 1 \in 1..n /\ k - 1 \in 1..(n + 1) /\ k - 1 # n + 1)
        BY <3>2
      <4>2. q[k] = r[k] /\ (k # 1 => q[k - 1] = r[k - 1])
        BY <3>2, <4>1
      <4>3. r[k] = IF k = 1 THEN FirstRead(f) ELSE ReadLine(r[k - 1], f[k])
        BY <2>1, <4>1 DEF LineTable
      <4> QED
        BY <4>2, <4>3
    <3> QED
      BY <3>1, <3>2
  <2>3. q = [k \in 1..(n + 1) |-> q[k]]
    OBVIOUS
  <2> HIDE DEF q
  <2>4. LineTable(f, n + 1, q)
    BY <2>2, <2>3 DEF LineTable
  <2> QED
    BY <2>4
<1> HIDE DEF S
<1>3. \A n \in Nat : n \in S
  BY <1>1, <1>2, EveryNatural
<1> QED
  BY <1>3 DEF S

\* The lines before the k-th hold an [ANALOG] and, behind it, a [CHANGES].
InThird(f, k) ==
  \E i, j \in 1..(k - 1) : i < j /\ f[i] = ANALOG_SECTION /\ f[j] = CHANGES_SECTION
InSecond(f, k) == \E i \in 1..(k - 1) : f[i] = ANALOG_SECTION
SetIn(f, n, s, third) == \E k \in 1..n : f[k] = Setting(s, TRUE) /\ InThird(f, k) = third

ReadSoFar(f, n, x) ==
  /\ x.at = IF InThird(f, n + 1) THEN CHANGES_SECTION
            ELSE IF InSecond(f, n + 1) THEN ANALOG_SECTION ELSE STATE_SECTION
  /\ \A s \in sections : /\ PRESENT \in x.options[s] <=> SetIn(f, n, s, FALSE)
                         /\ ACTIVE \in x.options[s] <=> SetIn(f, n, s, TRUE)

Readings == [at : Lines, options : [sections -> SUBSET {PRESENT, ACTIVE}]]

LEMMA HeadingIsLine == ASSUME NEW at \in Lines, NEW line PROVE Heading(at, line) \in Lines
BY DEF Heading, Lines, Headings

LEMMA ReadingKept ==
  ASSUME NEW x \in Readings, NEW line \in Lines
  PROVE  ReadLine(x, line) \in Readings
<1>1. CASE \E s \in sections : ReadLine(x, line) = [x EXCEPT !.options[s] = @ \union {Flag(x.at)}]
  <2>1. PICK s \in sections : ReadLine(x, line) = [x EXCEPT !.options[s] = @ \union {Flag(x.at)}]
    BY <1>1
  <2>2. Flag(x.at) \in {PRESENT, ACTIVE}
    BY DEF Flag
  <2> QED
    BY <2>1, <2>2 DEF Readings
<1>2. CASE ReadLine(x, line) = [x EXCEPT !.at = Heading(@, line)]
  BY <1>2, HeadingIsLine DEF Readings
<1> QED
  BY <1>1, <1>2, LineCases

LEMMA NextLineRead ==
  ASSUME NEW f \in Seq(Lines), NEW n \in Nat, n > 0, n < Len(f),
         NEW x \in Readings, ReadSoFar(f, n, x)
  PROVE  ReadSoFar(f, n + 1, ReadLine(x, f[n + 1]))
<1> DEFINE line == f[n + 1]
           y == ReadLine(x, line)
<1>1. line \in Lines
  OBVIOUS
<1>2. InSecond(f, n + 2) <=> InSecond(f, n + 1) \/ line = ANALOG_SECTION
  BY DEF InSecond
<1>3. InThird(f, n + 2) <=> InThird(f, n + 1) \/ (InSecond(f, n + 1) /\ line = CHANGES_SECTION)
  BY DEF InThird, InSecond
<1>4. ASSUME NEW s, NEW third
      PROVE  SetIn(f, n + 1, s, third) <=>
               SetIn(f, n, s, third) \/ (line = Setting(s, TRUE) /\ InThird(f, n + 1) = third)
  <2>1. \A k : k \in 1..(n + 1) <=> k \in 1..n \/ k = n + 1
    OBVIOUS
  <2> QED
    BY <2>1 DEF SetIn
<1>5. InThird(f, n + 1) => InSecond(f, n + 1)
  BY DEF InThird, InSecond
<1>6. x.at = IF InThird(f, n + 1) THEN CHANGES_SECTION
             ELSE IF InSecond(f, n + 1) THEN ANALOG_SECTION ELSE STATE_SECTION
  BY DEF ReadSoFar
<1>7. n + 1 + 1 = n + 2
  OBVIOUS
<1>8. CASE \E s \in sections : /\ line = Setting(s, TRUE)
                               /\ y = [x EXCEPT !.options[s] = @ \union {Flag(x.at)}]
  <2>1. PICK s \in sections : /\ line = Setting(s, TRUE)
                              /\ y = [x EXCEPT !.options[s] = @ \union {Flag(x.at)}]
    BY <1>8
  <2>2. line \notin Headings
    <3> HIDE DEF line
    <3> QED
      BY <2>1, SettingFacts
  <2>3. y.at = x.at /\ line # ANALOG_SECTION /\ line # CHANGES_SECTION
    BY <2>1, <2>2 DEF Readings, Headings
  <2>4. y.at = IF InThird(f, n + 2) THEN CHANGES_SECTION
               ELSE IF InSecond(f, n + 2) THEN ANALOG_SECTION ELSE STATE_SECTION
    BY <1>2, <1>3, <1>6, <2>3
  <2>5. Flag(x.at) = IF InThird(f, n + 1) THEN ACTIVE ELSE PRESENT
    BY <1>6, HeadingsDiffer DEF Flag
  <2>6. ASSUME NEW t \in sections
        PROVE  /\ PRESENT \in y.options[t] <=> SetIn(f, n + 1, t, FALSE)
               /\ ACTIVE \in y.options[t] <=> SetIn(f, n + 1, t, TRUE)
    <3>1. /\ PRESENT \in x.options[t] <=> SetIn(f, n, t, FALSE)
          /\ ACTIVE \in x.options[t] <=> SetIn(f, n, t, TRUE)
      BY DEF ReadSoFar
    <3>2. line = Setting(t, TRUE) <=> t = s
      <4>1. Setting(t, TRUE).name = t /\ Setting(s, TRUE).name = s
        BY SettingFacts
      <4>2. line = Setting(s, TRUE)
        BY <2>1
      <4>3. ASSUME line = Setting(t, TRUE) PROVE t = s
        BY <4>1, <4>2, <4>3
      <4> QED
        BY <4>2, <4>3
    <3>3. InThird(f, n + 1) \in BOOLEAN
      BY DEF InThird
    <3>4. /\ t = s => y.options[t] = x.options[t] \union {Flag(x.at)}
          /\ t # s => y.options[t] = x.options[t]
      BY <2>1 DEF Readings
    <3>5. PRESENT # ACTIVE
      BY DEF PRESENT, ACTIVE
    <3>8. /\ SetIn(f, n + 1, t, FALSE)
               <=> SetIn(f, n, t, FALSE) \/ (t = s /\ InThird(f, n + 1) = FALSE)
          /\ SetIn(f, n + 1, t, TRUE)
               <=> SetIn(f, n, t, TRUE) \/ (t = s /\ InThird(f, n + 1) = TRUE)
      BY <1>4, <3>2
    <3>9. /\ SetIn(f, n + 1, t, FALSE) <=> SetIn(f, n, t, FALSE) \/ (t = s /\ ~InThird(f, n + 1))
          /\ SetIn(f, n + 1, t, TRUE) <=> SetIn(f, n, t, TRUE) \/ (t = s /\ InThird(f, n + 1))
      BY <3>3, <3>8, Zenon
    <3> HIDE DEF y
    <3>10. PRESENT \in y.options[t] <=> SetIn(f, n + 1, t, FALSE)
      BY <2>5, <3>1, <3>9, <3>4, <3>5
    <3>11. ACTIVE \in y.options[t] <=> SetIn(f, n + 1, t, TRUE)
      BY <2>5, <3>1, <3>9, <3>4, <3>5
    <3> QED
      BY <3>10, <3>11
  <2> HIDE DEF y
  <2>7. ReadSoFar(f, n + 1, y)
    BY <1>7, <2>4, <2>6 DEF ReadSoFar
  <2> QED
    BY <2>7 DEF y
<1>9. CASE /\ \A s \in sections : line # Setting(s, TRUE)
           /\ y = [x EXCEPT !.at = Heading(@, line)]
  <2>1. y.at = Heading(x.at, line) /\ y.options = x.options
    BY <1>9 DEF Readings
  <2>2. y.at = IF InThird(f, n + 2) THEN CHANGES_SECTION
               ELSE IF InSecond(f, n + 2) THEN ANALOG_SECTION ELSE STATE_SECTION
    BY <1>2, <1>3, <1>5, <1>6, <2>1, HeadingsDiffer DEF Heading
  <2>3. ASSUME NEW t \in sections
        PROVE  /\ PRESENT \in y.options[t] <=> SetIn(f, n + 1, t, FALSE)
               /\ ACTIVE \in y.options[t] <=> SetIn(f, n + 1, t, TRUE)
    BY <1>4, <1>9, <2>1 DEF ReadSoFar
  <2> QED
    BY <1>7, <2>2, <2>3 DEF ReadSoFar
<1> QED
  <2> HIDE DEF y
  <2> QED
    BY <1>1, <1>8, <1>9, LineCases DEF y

LEMMA FirstLineRead ==
  ASSUME NEW f \in Seq(Lines), f # <<>>
  PROVE  /\ FirstRead(f) \in Readings
         /\ f[1] = STATE_SECTION => ReadSoFar(f, 1, FirstRead(f))
<1>1. f[1] \in Lines
  OBVIOUS
<1>2. FirstRead(f) \in Readings
  BY <1>1 DEF FirstRead, Readings, NoOptions
<1>3. FirstRead(f).at = f[1] /\ \A s \in sections : FirstRead(f).options[s] = {}
  BY DEF FirstRead, NoOptions
<1>4. ASSUME f[1] = STATE_SECTION
      PROVE  ~InSecond(f, 2) /\ ~InThird(f, 2) /\ \A s, third : ~SetIn(f, 1, s, third)
  <2>1. f[1] # ANALOG_SECTION
    BY <1>4, HeadingsDiffer
  <2>2. \A s : f[1] # Setting(s, TRUE)
    BY <1>4, SettingFacts DEF Headings
  <2>3. \A k : k \in 1..(2 - 1) => k = 1
    OBVIOUS
  <2>4. \A k : k \in 1..1 => k = 1
    OBVIOUS
  <2> QED
    BY <2>1, <2>2, <2>3, <2>4 DEF InSecond, InThird, SetIn
<1>5. 1 + 1 = 2
  OBVIOUS
<1> HIDE DEF FirstRead
<1> QED
  BY <1>2, <1>3, <1>4, <1>5 DEF ReadSoFar

LEMMA AllLinesRead ==
  ASSUME NEW f \in Seq(Lines), f # <<>>, NEW r, LineTable(f, Len(f), r)
  PROVE  \A n \in 1..Len(f) :
           r[n] \in Readings /\ (f[1] = STATE_SECTION => ReadSoFar(f, n, r[n]))
<1> DEFINE Right(n) == r[n] \in Readings /\ (f[1] = STATE_SECTION => ReadSoFar(f, n, r[n]))
           S == {n \in Nat : n \in 1..Len(f) => Right(n)}
<1>1. Len(f) \in Nat /\ Len(f) > 0
  OBVIOUS
<1>2. r[1] = FirstRead(f)
  BY <1>1 DEF LineTable
<1>3. ASSUME NEW n \in Nat, n > 0, n < Len(f)
      PROVE  r[n + 1] = ReadLine(r[n], f[n + 1])
  BY <1>1, <1>3 DEF LineTable
<1>4. 0 \in S
  OBVIOUS
<1>5. ASSUME NEW n \in Nat, n \in S PROVE n + 1 \in S
  <2> SUFFICES ASSUME n + 1 \in 1..Len(f) PROVE Right(n + 1)
    OBVIOUS
  <2>1. CASE n = 0
    BY <1>2, <2>1, FirstLineRead
  <2>2. CASE n > 0
    <3>1. n \in 1..Len(f) /\ n < Len(f) /\ f[n + 1] \in Lines
      BY <1>1, <2>2
    <3>2. Right(n)
      BY <1>5, <3>1
    <3>3. r[n + 1] = ReadLine(r[n], f[n + 1])
      BY <1>3, <2>2, <3>1
    <3> QED
      BY <2>2, <3>1, <3>2, <3>3, ReadingKept, NextLineRead
  <2> QED
    BY <2>1, <2>2
<1> HIDE DEF S
<1>6. \A n \in Nat : n \in S
  BY <1>4, <1>5, EveryNatural
<1>7. \A n \in 1..Len(f) : Right(n)
  BY <1>1, <1>6 DEF S
<1> QED
  BY <1>7

\* What parse_ini makes of a file.
FlagsSet(f, opts) ==
  \A s \in sections : /\ PRESENT \in opts[s] <=> SetIn(f, Len(f), s, FALSE)
                      /\ ACTIVE \in opts[s] <=> SetIn(f, Len(f), s, TRUE)
ParsedRight(f, parsed) ==
  /\ parsed.options \in [sections -> SUBSET {PRESENT, ACTIVE}]
  /\ f # <<>> /\ f[1] = STATE_SECTION /\ InThird(f, Len(f) + 1) =>
       parsed.returns /\ FlagsSet(f, parsed.options)
  /\ ~parsed.returns => /\ f # <<>> /\ f[1] \in Headings
                        /\ ~(f[1] = STATE_SECTION /\ InThird(f, Len(f) + 1))

LinesOf(f) == IF f = <<>> THEN <<OTHER_LINE>> ELSE f
LastRead(f, r) == r[IF LinesOf(f)[1] \in Headings THEN Len(LinesOf(f)) ELSE 1]
Returns(x) == x.at \notin {STATE_SECTION, ANALOG_SECTION}

LEMMA ParsedFields ==
  ASSUME NEW o, NEW b
  PROVE  [options |-> o, returns |-> b].options = o /\ [options |-> o, returns |-> b].returns = b
OBVIOUS

LEMMA ParseUnfolds ==
  ASSUME NEW f, DOMAIN LinesOf(f) = 1..Len(LinesOf(f)), Len(LinesOf(f)) \in Nat
  PROVE  \E r : /\ LineTable(LinesOf(f), Len(LinesOf(f)), r)
                /\ parse_ini(f).options = LastRead(f, r).options
                /\ parse_ini(f).returns = Returns(LastRead(f, r))
<1> DEFINE lines == IF f = <<>> THEN <<OTHER_LINE>> ELSE f
           T(g) == g = [n \in DOMAIN lines |->
                          IF n = 1 THEN [at |-> lines[1], options |-> NoOptions]
                                   ELSE ReadLine(g[n - 1], lines[n])]
           r == CHOOSE g : T(g)
           last == r[IF lines[1] \in Headings THEN Len(lines) ELSE 1]
           returns == last.at \notin {STATE_SECTION, ANALOG_SECTION}
<1>1. parse_ini(f) = [options |-> last.options, returns |-> returns]
  BY DEF parse_ini
<1>2. parse_ini(f).options = last.options /\ parse_ini(f).returns = returns
  <2> HIDE DEF returns, last
  <2> QED
    BY <1>1, ParsedFields, ZenonT(60)
<1>3. PICK q : LineTable(LinesOf(f), Len(LinesOf(f)), q)
  BY LineTableExists
<1>4. lines = LinesOf(f)
  BY DEF LinesOf
<1> HIDE DEF lines
<1>5. T(q)
  BY <1>3, <1>4 DEF LineTable, FirstRead
<1> HIDE DEF T
<1>6. T(r)
  BY <1>5
<1> HIDE DEF r
<1>7. LineTable(LinesOf(f), Len(LinesOf(f)), r)
  BY <1>4, <1>6 DEF T, LineTable, FirstRead
<1>8. last = LastRead(f, r)
  BY <1>4 DEF LastRead
<1> HIDE DEF last
<1>9. returns = Returns(last)
  BY DEF Returns
<1> QED
  BY <1>2, <1>7, <1>8, <1>9

LEMMA ParseIsRight ==
  ASSUME NEW f \in Seq(Lines)
  PROVE  ParsedRight(f, parse_ini(f))
<1> DEFINE parsed == parse_ini(f)
<1>1. CASE f = <<>>
  <2>1. LinesOf(f) = <<OTHER_LINE>>
    BY <1>1 DEF LinesOf
  <2>2. DOMAIN LinesOf(f) = 1..Len(LinesOf(f)) /\ Len(LinesOf(f)) = 1 /\ LinesOf(f)[1] = OTHER_LINE
    BY <2>1
  <2>3. PICK r : /\ LineTable(LinesOf(f), Len(LinesOf(f)), r)
                 /\ parsed.options = LastRead(f, r).options
                 /\ parsed.returns = Returns(LastRead(f, r))
    BY <2>2, 1 \in Nat, ParseUnfolds
  <2>4. LastRead(f, r) = [at |-> OTHER_LINE, options |-> NoOptions]
    BY <2>2, <2>3 DEF LineTable, FirstRead, LastRead
  <2>5. Returns(LastRead(f, r))
    BY <2>4, OtherFacts DEF Headings, Returns
  <2>6. NoOptions \in [sections -> SUBSET {PRESENT, ACTIVE}] /\ parsed.options = NoOptions
    BY <2>3, <2>4 DEF NoOptions
  <2> HIDE DEF parsed
  <2>8. parsed.returns
    BY <2>3, <2>5, Zenon
  <2>7. ParsedRight(f, parsed)
    BY <1>1, <2>6, <2>8 DEF ParsedRight
  <2> QED
    BY <2>7 DEF parsed
<1>2. CASE f # <<>>
  <2>1. LinesOf(f) = f
    BY <1>2 DEF LinesOf
  <2>2. DOMAIN f = 1..Len(f) /\ Len(f) \in Nat /\ Len(f) > 0
    BY <1>2
  <2>3. PICK r : /\ LineTable(f, Len(f), r)
                 /\ parsed.options = LastRead(f, r).options
                 /\ parsed.returns = Returns(LastRead(f, r))
    BY <2>1, <2>2, ParseUnfolds
  <2> DEFINE last == LastRead(f, r)
  <2>4. \A n \in 1..Len(f) :
           r[n] \in Readings /\ (f[1] = STATE_SECTION => ReadSoFar(f, n, r[n]))
    BY <1>2, <2>3, AllLinesRead
  <2>5. last \in Readings
    BY <2>1, <2>2, <2>4 DEF LastRead
  <2>6. f[1] = STATE_SECTION => ReadSoFar(f, Len(f), last)
    BY <2>1, <2>2, <2>4 DEF Headings, LastRead
  <2>7. f[1] \notin Headings => last.at = f[1]
    BY <2>1, <2>2, <2>3 DEF LineTable, FirstRead, LastRead
  <2> HIDE DEF parsed, last
  <2>8. parsed.options \in [sections -> SUBSET {PRESENT, ACTIVE}]
    BY <2>3, <2>5 DEF Readings, last
  <2>9. parsed.returns <=> Returns(last)
    BY <2>3, Zenon DEF last
  <2>10. f[1] = STATE_SECTION /\ InThird(f, Len(f) + 1) => Returns(last)
    BY <2>6, HeadingsDiffer DEF ReadSoFar, Returns
  <2>11. f[1] = STATE_SECTION => FlagsSet(f, parsed.options)
    BY <2>3, <2>6 DEF ReadSoFar, FlagsSet, last
  <2>12. ~Returns(last) => f[1] \in Headings
    BY <2>7 DEF Headings, Returns
  <2>14. /\ f[1] = STATE_SECTION /\ InThird(f, Len(f) + 1) => parsed.returns
         /\ ~parsed.returns => f[1] \in Headings
    BY <2>9, <2>10, <2>12
  <2>16. ~parsed.returns => /\ f # <<>> /\ f[1] \in Headings
                            /\ ~(f[1] = STATE_SECTION /\ InThird(f, Len(f) + 1))
    BY <1>2, <2>14
  <2>13. ParsedRight(f, parsed)
    BY <2>8, <2>11, <2>14, <2>16 DEF ParsedRight
  <2> QED
    BY <2>13 DEF parsed
<1> QED
  BY <1>1, <1>2

-----------------------------------------------------------------------------
(* The file that is written when there is none. *)

LEMMA NamesAreSections ==
  /\ StateNames \in Seq(sections) /\ Len(StateNames) = 8
  /\ AnalogNames \in Seq(sections) /\ Len(AnalogNames) = 5
  /\ \A s \in StateSections : \E i \in 1..8 : StateNames[i] = s
  /\ \A i \in 1..5 : AnalogNames[i] \in AnalogSections
<1>1. Len(StateNames) = 8 /\ Len(AnalogNames) = 5
  BY DEF StateNames, AnalogNames
<1>2. \A i \in 1..8 : StateNames[i] \in StateSections
  BY DEF StateNames, StateSections
<1>3. \A i \in 1..5 : AnalogNames[i] \in AnalogSections
  BY DEF AnalogNames, AnalogSections
<1>4. StateNames \in Seq(sections)
  BY <1>1, <1>2 DEF StateNames, sections
<1>5. AnalogNames \in Seq(sections)
  BY <1>1, <1>3 DEF AnalogNames, sections
<1>6. \A s \in StateSections : \E i \in 1..8 : StateNames[i] = s
  BY DEF StateNames, StateSections
<1> QED
  BY <1>1, <1>3, <1>4, <1>5, <1>6

LEMMA SettingIsLine ==
  ASSUME NEW s \in sections, NEW on \in BOOLEAN
  PROVE  Setting(s, on) \in Lines
BY DEF Lines

\* A line that sets a section if it is one of some.
Sets(line, name, on) ==
  line \notin Headings /\ \A s : line = Setting(s, TRUE) <=> s = name /\ name \in on

LEMMA SettingsAreLines ==
  ASSUME NEW names \in Seq(sections), NEW on
  PROVE  /\ Settings(names, on) \in Seq(Lines)
         /\ Len(Settings(names, on)) = Len(names)
         /\ \A i \in 1..Len(names) : Sets(Settings(names, on)[i], names[i], on)
<1>1. DOMAIN names = 1..Len(names) /\ Len(names) \in Nat
  OBVIOUS
<1>2. Settings(names, on) = [i \in 1..Len(names) |-> Setting(names[i], names[i] \in on)]
  BY <1>1 DEF Settings
<1>3. ASSUME NEW i \in 1..Len(names)
      PROVE  Settings(names, on)[i] \in Lines /\ Sets(Settings(names, on)[i], names[i], on)
  <2> DEFINE b == names[i] \in on
  <2>1. names[i] \in sections /\ b \in BOOLEAN
    OBVIOUS
  <2>2. Settings(names, on)[i] = Setting(names[i], b)
    BY <1>2
  <2>3. b = TRUE <=> names[i] \in on
    OBVIOUS
  <2> HIDE DEF b
  <2>4. Setting(names[i], b) \notin Headings
    BY SettingFacts
  <2>5. ASSUME NEW s PROVE Setting(names[i], b) = Setting(s, TRUE) <=> s = names[i] /\ b = TRUE
    <3>1. /\ Setting(names[i], b).name = names[i] /\ Setting(names[i], b).on = b
          /\ Setting(s, TRUE).name = s /\ Setting(s, TRUE).on = TRUE
      BY SettingFacts
    <3> QED
      BY <3>1
  <2>6. Sets(Setting(names[i], b), names[i], on)
    BY <2>3, <2>4, <2>5 DEF Sets
  <2> QED
    BY <2>1, <2>2, <2>6, SettingIsLine
<1>4. Settings(names, on) \in [1..Len(names) -> Lines]
  BY <1>2, <1>3
<1>5. Settings(names, on) \in Seq(Lines) /\ Len(Settings(names, on)) = Len(names)
  BY <1>1, <1>4
<1> QED
  BY <1>3, <1>5

Joins(c, a, b, m, n) ==
  /\ Len(c) = m + n
  /\ \A i \in 1..m : c[i] = a[i]
  /\ \A i \in 1..n : c[m + i] = b[i]

LEMMA Joined ==
  ASSUME NEW S, NEW a \in Seq(S), NEW b \in Seq(S), NEW m, Len(a) = m, NEW n, Len(b) = n
  PROVE  a \o b \in Seq(S) /\ Joins(a \o b, a, b, m, n)
BY DEF Joins

DefaultShown == {"ERROR_STATE", "META_STATE", "TRACTION_STATE"}
DefaultListed == {"ERROR_STATE", "TRACTION_STATE"}
AllNames == StateNames \o AnalogNames

LEMMA DefaultFileIs ==
  /\ DefaultFile \in Seq(Lines) /\ Len(DefaultFile) = 29
  /\ DefaultFile[1] = STATE_SECTION
  /\ DefaultFile[10] = ANALOG_SECTION
  /\ DefaultFile[16] = CHANGES_SECTION
  /\ \A i \in 1..8 : Sets(DefaultFile[1 + i], StateNames[i], DefaultShown)
  /\ \A i \in 1..5 : Sets(DefaultFile[10 + i], AnalogNames[i], {})
  /\ \A i \in 1..13 : Sets(DefaultFile[16 + i], AllNames[i], DefaultListed)
<1> DEFINE a1 == <<STATE_SECTION>>
           a2 == Settings(StateNames, DefaultShown)
           a3 == <<ANALOG_SECTION>>
           a4 == Settings(AnalogNames, {})
           a5 == <<CHANGES_SECTION>>
           a6 == Settings(AllNames, DefaultListed)
           b2 == a1 \o a2
           b3 == b2 \o a3
           b4 == b3 \o a4
           b5 == b4 \o a5
           b6 == b5 \o a6
<1>1. /\ a1 \in Seq(Lines) /\ Len(a1) = 1 /\ a1[1] = STATE_SECTION
      /\ a3 \in Seq(Lines) /\ Len(a3) = 1 /\ a3[1] = ANALOG_SECTION
      /\ a5 \in Seq(Lines) /\ Len(a5) = 1 /\ a5[1] = CHANGES_SECTION
  BY DEF Lines, Headings
<1>2. AllNames \in Seq(sections) /\ Len(AllNames) = 13
  <2>1. AllNames \in Seq(sections) /\ Joins(AllNames, StateNames, AnalogNames, 8, 5)
    BY NamesAreSections, Joined DEF AllNames
  <2> QED
    BY <2>1 DEF Joins
<1>3. /\ a2 \in Seq(Lines) /\ Len(a2) = 8
      /\ \A i \in 1..8 : Sets(a2[i], StateNames[i], DefaultShown)
  BY NamesAreSections, SettingsAreLines
<1>4. /\ a4 \in Seq(Lines) /\ Len(a4) = 5
      /\ \A i \in 1..5 : Sets(a4[i], AnalogNames[i], {})
  BY NamesAreSections, SettingsAreLines
<1>5. /\ a6 \in Seq(Lines) /\ Len(a6) = 13
      /\ \A i \in 1..13 : Sets(a6[i], AllNames[i], DefaultListed)
  BY <1>2, SettingsAreLines
<1>6. DefaultFile = b6
  BY DEF DefaultFile, AllNames, DefaultShown, DefaultListed
<1> HIDE DEF a1, a2, a3, a4, a5, a6
<1>7. b2 \in Seq(Lines) /\ Joins(b2, a1, a2, 1, 8)
  BY <1>1, <1>3, Joined
<1> HIDE DEF b2
<1>8. Len(b2) = 9
  BY <1>7 DEF Joins
<1>9. b3 \in Seq(Lines) /\ Joins(b3, b2, a3, 9, 1)
  BY <1>1, <1>7, <1>8, Joined
<1> HIDE DEF b3
<1>10. Len(b3) = 10
  BY <1>9 DEF Joins
<1>11. b4 \in Seq(Lines) /\ Joins(b4, b3, a4, 10, 5)
  BY <1>4, <1>9, <1>10, Joined
<1> HIDE DEF b4
<1>15. Len(b4) = 15
  BY <1>11 DEF Joins
<1>16. b5 \in Seq(Lines) /\ Joins(b5, b4, a5, 15, 1)
  BY <1>1, <1>11, <1>15, Joined
<1> HIDE DEF b5
<1>17. Len(b5) = 16
  BY <1>16 DEF Joins
<1>18. b6 \in Seq(Lines) /\ Joins(b6, b5, a6, 16, 13)
  BY <1>5, <1>16, <1>17, Joined
<1> HIDE DEF b6
<1>19. /\ Len(b6) = 29
       /\ b2[1] = a1[1] /\ \A i \in 1..8 : b2[1 + i] = a2[i]
       /\ \A i \in 1..9 : b3[i] = b2[i]
       /\ b3[9 + 1] = a3[1]
       /\ \A i \in 1..10 : b4[i] = b3[i]
       /\ \A i \in 1..5 : b4[10 + i] = a4[i]
       /\ \A i \in 1..15 : b5[i] = b4[i]
       /\ b5[15 + 1] = a5[1]
       /\ \A i \in 1..16 : b6[i] = b5[i]
       /\ \A i \in 1..13 : b6[16 + i] = a6[i]
  BY <1>7, <1>9, <1>11, <1>16, <1>18 DEF Joins
<1>12. /\ b6[1] = STATE_SECTION
       /\ b6[10] = ANALOG_SECTION
       /\ b6[16] = CHANGES_SECTION
  <2>1. b6[1] = a1[1] /\ b6[10] = a3[1] /\ b6[16] = a5[1]
    BY <1>19
  <2> QED
    BY <1>1, <2>1
<1>13. ASSUME NEW i \in 1..8 PROVE b6[1 + i] = a2[i]
  <2>1. 1 + i \in 1..9 /\ 1 + i \in 1..10 /\ 1 + i \in 1..15 /\ 1 + i \in 1..16
    OBVIOUS
  <2> QED
    BY <1>19, <2>1
<1>14. ASSUME NEW i \in 1..5 PROVE b6[10 + i] = a4[i]
  <2>1. 10 + i \in 1..15 /\ 10 + i \in 1..16
    OBVIOUS
  <2> QED
    BY <1>19, <2>1
<1>20. \A i \in 1..13 : b6[16 + i] = a6[i]
  BY <1>19
<1> QED
  BY <1>3, <1>4, <1>5, <1>6, <1>18, <1>19, <1>12, <1>13, <1>14, <1>20

LEMMA NamesInOrder ==
  /\ \A i \in 1..8 : AllNames[i] = StateNames[i]
  /\ \A i \in 1..5 : AllNames[8 + i] = AnalogNames[i]
<1>1. Joins(AllNames, StateNames, AnalogNames, 8, 5)
  BY NamesAreSections, Joined DEF AllNames
<1> QED
  BY <1>1 DEF Joins

\* Without a file, errors, traction and metadata are shown, and changes of the first two listed.
LEMMA DefaultOptions ==
  /\ DefaultFile # <<>> /\ DefaultFile[1] = STATE_SECTION
  /\ InThird(DefaultFile, Len(DefaultFile) + 1)
  /\ \A s \in sections :
       /\ SetIn(DefaultFile, Len(DefaultFile), s, FALSE) <=> s \in DefaultShown
       /\ SetIn(DefaultFile, Len(DefaultFile), s, TRUE) <=> s \in DefaultListed
<1> DEFINE f == DefaultFile
<1>1. /\ f \in Seq(Lines) /\ Len(f) = 29
      /\ f[1] = STATE_SECTION /\ f[10] = ANALOG_SECTION /\ f[16] = CHANGES_SECTION
      /\ \A i \in 1..8 : Sets(f[1 + i], StateNames[i], DefaultShown)
      /\ \A i \in 1..5 : Sets(f[10 + i], AnalogNames[i], {})
      /\ \A i \in 1..13 : Sets(f[16 + i], AllNames[i], DefaultListed)
  BY DefaultFileIs
<1> HIDE DEF f
<1>2. \A k \in 17..30 : InThird(f, k)
  <2>1. ASSUME NEW k \in 17..30 PROVE InThird(f, k)
    <3>1. 10 \in 1..(k - 1) /\ 16 \in 1..(k - 1) /\ 10 < 16
      OBVIOUS
    <3> QED
      BY <1>1, <3>1 DEF InThird
  <2> QED
    BY <2>1
<1>3. \A i \in 2..15 : f[i] # CHANGES_SECTION
  <2>1. ASSUME NEW i \in 2..15 PROVE f[i] # CHANGES_SECTION
    <3>1. CASE i \in 2..9
      <4>1. i - 1 \in 1..8 /\ 1 + (i - 1) = i
        BY <3>1
      <4>2. Sets(f[i], StateNames[i - 1], DefaultShown)
        BY <1>1, <4>1
      <4> QED
        BY <4>2 DEF Headings, Sets
    <3>2. CASE i = 10
      BY <1>1, <3>2, HeadingsDiffer
    <3>3. CASE i \in 11..15
      <4>1. i - 10 \in 1..5 /\ 10 + (i - 10) = i
        BY <3>3
      <4>2. Sets(f[i], AnalogNames[i - 10], {})
        BY <1>1, <4>1
      <4> QED
        BY <4>2 DEF Headings, Sets
    <3> QED
      BY <3>1, <3>2, <3>3
  <2> QED
    BY <2>1
<1>4. \A k \in 1..16 : ~InThird(f, k)
  <2>1. ASSUME NEW k \in 1..16, InThird(f, k) PROVE FALSE
    <3>1. PICK i, j \in 1..(k - 1) : i < j /\ f[j] = CHANGES_SECTION
      BY <2>1 DEF InThird
    <3>2. j \in 2..15
      BY <3>1
    <3> QED
      BY <1>3, <3>1, <3>2
  <2> QED
    BY <2>1
<1>5. ASSUME NEW s \in sections
      PROVE  SetIn(f, 29, s, FALSE) <=> s \in DefaultShown
  <2>1. ASSUME NEW k \in 1..29, f[k] = Setting(s, TRUE), InThird(f, k) = FALSE
        PROVE  s \in DefaultShown
    <3>1. k \in 1..16
      BY <1>2, <2>1
    <3>2. f[k] \notin Headings
      <4>1. Setting(s, TRUE) \notin Headings
        BY SettingFacts
      <4> QED
        BY <2>1, <4>1
    <3>3. k # 1 /\ k # 10 /\ k # 16
      BY <1>1, <3>2 DEF Headings
    <3>4. CASE k \in 2..9
      <4>1. k - 1 \in 1..8 /\ 1 + (k - 1) = k
        BY <3>4
      <4>2. Sets(f[k], StateNames[k - 1], DefaultShown)
        BY <1>1, <4>1
      <4> QED
        BY <2>1, <4>2 DEF Sets
    <3>5. CASE k \in 11..15
      <4>1. k - 10 \in 1..5 /\ 10 + (k - 10) = k
        BY <3>5
      <4>2. Sets(f[k], AnalogNames[k - 10], {})
        BY <1>1, <4>1
      <4> QED
        BY <2>1, <4>2 DEF Sets
    <3> QED
      BY <3>1, <3>3, <3>4, <3>5
  <2>2. ASSUME s \in DefaultShown PROVE SetIn(f, 29, s, FALSE)
    <3>1. PICK i \in 1..8 : StateNames[i] = s
      BY <2>2, NamesAreSections DEF DefaultShown, StateSections
    <3>2. f[1 + i] = Setting(s, TRUE)
      <4>1. Sets(f[1 + i], StateNames[i], DefaultShown)
        BY <1>1
      <4> QED
        BY <2>2, <3>1, <4>1 DEF Sets
    <3>3. 1 + i \in 1..16 /\ 1 + i \in 1..29
      OBVIOUS
    <3>4. InThird(f, 1 + i) = FALSE
      <4>1. InThird(f, 1 + i) \in BOOLEAN
        BY DEF InThird
      <4> QED
        BY <1>4, <3>3, <4>1
    <3> QED
      BY <3>2, <3>3, <3>4 DEF SetIn
  <2> QED
    BY <2>1, <2>2 DEF SetIn
<1>6. ASSUME NEW s \in sections
      PROVE  SetIn(f, 29, s, TRUE) <=> s \in DefaultListed
  <2>1. ASSUME NEW k \in 1..29, f[k] = Setting(s, TRUE), InThird(f, k) = TRUE
        PROVE  s \in DefaultListed
    <3>1. k \in 17..29
      BY <1>4, <2>1
    <3>2. k - 16 \in 1..13 /\ 16 + (k - 16) = k
      BY <3>1
    <3>3. Sets(f[k], AllNames[k - 16], DefaultListed)
      BY <1>1, <3>2
    <3> QED
      BY <2>1, <3>3 DEF Sets
  <2>2. ASSUME s \in DefaultListed PROVE SetIn(f, 29, s, TRUE)
    <3>1. PICK i \in 1..8 : AllNames[i] = s
      BY <2>2, NamesAreSections, NamesInOrder DEF DefaultListed, StateSections
    <3>2. f[16 + i] = Setting(s, TRUE)
      <4>1. Sets(f[16 + i], AllNames[i], DefaultListed)
        <5>1. i \in 1..13
          OBVIOUS
        <5> QED
          BY <1>1, <5>1
      <4> QED
        BY <2>2, <3>1, <4>1 DEF Sets
    <3>3. 16 + i \in 17..30 /\ 16 + i \in 1..29
      OBVIOUS
    <3>4. InThird(f, 16 + i) = TRUE
      <4>1. InThird(f, 16 + i) \in BOOLEAN
        BY DEF InThird
      <4> QED
        BY <1>2, <3>3, <4>1
    <3> QED
      BY <3>2, <3>3, <3>4 DEF SetIn
  <2> QED
    BY <2>1, <2>2 DEF SetIn
<1>7. InThird(f, 30) /\ f # <<>>
  <2>1. 30 \in 17..30 /\ 29 > 0
    OBVIOUS
  <2>2. f = <<>> => Len(f) = 0
    OBVIOUS
  <2> QED
    BY <1>1, <1>2, <2>1, <2>2
<1>8. /\ f # <<>> /\ f[1] = STATE_SECTION
      /\ InThird(f, Len(f) + 1)
      /\ \A s \in sections :
           /\ SetIn(f, Len(f), s, FALSE) <=> s \in DefaultShown
           /\ SetIn(f, Len(f), s, TRUE) <=> s \in DefaultListed
  <2>1. Len(f) = 29 /\ Len(f) + 1 = 30
    BY <1>1
  <2> QED
    BY <1>1, <1>5, <1>6, <1>7, <2>1
<1> QED
  BY <1>8 DEF f

-----------------------------------------------------------------------------
(* The options while the tool runs. *)

OptionsRight ==
  /\ file \in Files \union {NO_FILE}
  /\ options \in [sections -> SUBSET {PRESENT, ACTIVE}]
  /\ OptionsAreTheFile

LEMMA OptionsInit == ASSUME Init PROVE OptionsRight
<1>1. NoOptions \in [sections -> SUBSET {PRESENT, ACTIVE}]
  BY DEF NoOptions
<1>2. pc = "parse" /\ options = NoOptions /\ file \in Files \union {NO_FILE}
  BY DEF Init
<1> QED
  BY <1>1, <1>2 DEF OptionsRight, OptionsAreTheFile

LEMMA OptionsParsed ==
  ASSUME OptionsRight, Options
  PROVE  OptionsRight'
<1> DEFINE f == IF file = NO_FILE THEN DefaultFile ELSE file
           parsed == Parsed[file]
<1>1. file \in Files \union {NO_FILE} /\ file' = file
  BY DEF OptionsRight, Options
<1>2. f \in Seq(Lines)
  BY <1>1, DefaultFileIs, LiveDataAssumption
<1>3. parsed = parse_ini(f)
  BY <1>1 DEF Parsed
<1>4. ParsedRight(f, parsed)
  BY <1>2, <1>3, ParseIsRight
<1>5. options' = parsed.options /\ pc' = IF parsed.returns THEN "top" ELSE "hung"
  BY DEF Options
<1> HIDE DEF parsed
<1>6. options' \in [sections -> SUBSET {PRESENT, ACTIVE}]
  BY <1>4, <1>5 DEF ParsedRight
<1>7. pc' \in {"top", "hung"} /\ (pc' = "hung" <=> ~parsed.returns)
  BY <1>5
<1>8. CASE file = NO_FILE
  <2>1. f = DefaultFile
    BY <1>8
  <2> HIDE DEF f
  <2>2. parsed.returns /\ FlagsSet(f, parsed.options)
    BY <1>4, <2>1, DefaultOptions DEF ParsedRight
  <2>3. pc' = "top"
    BY <1>7, <2>2
  <2>4. \A s \in sections :
          /\ PRESENT \in options'[s] <=> s \in {"TRACTION_STATE", "ERROR_STATE", "META_STATE"}
          /\ ACTIVE \in options'[s] <=> s \in {"TRACTION_STATE", "ERROR_STATE"}
    BY <1>5, <2>1, <2>2, DefaultOptions DEF FlagsSet, DefaultShown, DefaultListed
  <2>5. file' = NO_FILE
    BY <1>1, <1>8
  <2> QED
    BY <1>1, <1>6, <2>3, <2>4, <2>5 DEF OptionsRight, OptionsAreTheFile
<1>9. CASE file # NO_FILE
  <2>1. f = file
    BY <1>9
  <2> HIDE DEF f
  <2>2. WellFormed <=> f # <<>> /\ f[1] = STATE_SECTION /\ InThird(f, Len(f) + 1)
    BY <2>1 DEF WellFormed, InChanges, InThird
  <2>3. DOMAIN f = 1..Len(f)
    BY <1>2
  <2>4. \A s \in sections : /\ SetUnder(s, FALSE) <=> SetIn(f, Len(f), s, FALSE)
                            /\ SetUnder(s, TRUE) <=> SetIn(f, Len(f), s, TRUE)
    BY <2>1, <2>3 DEF SetUnder, SetIn, InChanges, InThird
  <2>5. WellFormed => parsed.returns /\ FlagsSet(f, parsed.options)
    BY <1>4, <2>2 DEF ParsedRight
  <2>6. WellFormed => \A s \in sections : /\ PRESENT \in options'[s] <=> SetUnder(s, FALSE)
                                          /\ ACTIVE \in options'[s] <=> SetUnder(s, TRUE)
    BY <1>5, <2>4, <2>5 DEF FlagsSet
  <2>7. ~parsed.returns => file # <<>> /\ file[1] \in Headings /\ ~WellFormed
    BY <1>4, <2>1, <2>2 DEF ParsedRight
  <2>8. /\ WellFormed' <=> WellFormed
        /\ \A s \in sections : (SetUnder(s, FALSE))' <=> SetUnder(s, FALSE)
        /\ \A s \in sections : (SetUnder(s, TRUE))' <=> SetUnder(s, TRUE)
    BY <1>1 DEF WellFormed, SetUnder, InChanges
  <2>9. file' # NO_FILE
    BY <1>1, <1>9
  <2>10. /\ WellFormed' => pc' # "hung"
         /\ WellFormed' => \A s \in sections : /\ PRESENT \in options'[s] <=> (SetUnder(s, FALSE))'
                                               /\ ACTIVE \in options'[s] <=> (SetUnder(s, TRUE))'
         /\ pc' = "hung" => file' # <<>> /\ file'[1] \in Headings /\ ~(WellFormed')
    BY <1>1, <1>7, <2>5, <2>6, <2>7, <2>8
  <2> QED
    BY <1>1, <1>6, <2>9, <2>10 DEF OptionsRight, OptionsAreTheFile
<1> QED
  BY <1>8, <1>9

LEMMA OptionsKept ==
  ASSUME OptionsRight, [Next]_vars
  PROVE  OptionsRight'
<1>1. CASE Options
  BY <1>1, OptionsParsed
<1>2. CASE ~Options
  <2>1. /\ UNCHANGED <<file, options>>
        /\ pc' = "hung" => pc = "hung"
        /\ pc = "parse" => pc' = "parse"
    <3>1. CASE CheckWindow
      BY <3>1 DEF CheckWindow
    <3>2. CASE Frame
      BY <3>2 DEF Frame, Receive
    <3>3. CASE TimeOut
      BY <3>3 DEF TimeOut
    <3>4. CASE KinetekFault \/ Resume \/ Resize \/ Outlast
      BY <3>4 DEF KinetekFault, Resume, Resize, Outlast
    <3>5. CASE UNCHANGED vars
      BY <3>5 DEF vars
    <3> QED
      BY <1>2, <3>1, <3>2, <3>3, <3>4, <3>5 DEF Next
  <2>2. pc' # "parse" => pc # "parse"
    BY <2>1
  <2>3. /\ WellFormed' <=> WellFormed
        /\ \A s \in sections : (SetUnder(s, FALSE))' <=> SetUnder(s, FALSE)
        /\ \A s \in sections : (SetUnder(s, TRUE))' <=> SetUnder(s, TRUE)
    BY <2>1 DEF WellFormed, SetUnder, InChanges
  <2> QED
    BY <2>1, <2>2, <2>3 DEF OptionsRight, OptionsAreTheFile
<1> QED
  BY <1>1, <1>2

-----------------------------------------------------------------------------
(* A page, parameter by parameter. *)

LEMMA PageFacts ==
  ASSUME NEW p \in 1..10
  PROVE  p \in DOMAIN Page /\ Page[p] \in Seq(sections) /\ Len(Page[p]) \in Nat
<1>1. p \in DOMAIN Page
  BY DEF Page
<1>2. Page[p] \in Seq(sections)
  BY <1>1, EveryFieldIsShown
<1> QED
  BY <1>1, <1>2

UpdateTable(start, p, changed, n, g) ==
  g = [i \in 0..n |-> IF i = 0 THEN start ELSE update_param(g[i - 1], <<p, i>>, changed)]

LEMMA UpdateTableExists ==
  ASSUME NEW start, NEW p, NEW changed
  PROVE  \A n \in Nat : \E g : UpdateTable(start, p, changed, n, g)
<1> DEFINE S == {n \in Nat : \E g : UpdateTable(start, p, changed, n, g)}
           Next1(new, i) == update_param(new, <<p, i>>, changed)
<1>1. 0 \in S
  <2> DEFINE g == [i \in 0..0 |-> start]
  <2>1. UpdateTable(start, p, changed, 0, g)
    <3>1. g = [i \in 0..0 |-> IF i = 0 THEN start ELSE Next1(g[i - 1], i)]
      <4> HIDE DEF Next1
      <4> QED
        OBVIOUS
    <3> QED
      BY <3>1 DEF UpdateTable
  <2> QED
    BY <2>1
<1>2. ASSUME NEW n \in Nat, n \in S PROVE n + 1 \in S
  <2>1. PICK g : UpdateTable(start, p, changed, n, g)
    BY <1>2
  <2>2. g = [i \in 0..n |-> IF i = 0 THEN start ELSE Next1(g[i - 1], i)]
    BY <2>1 DEF UpdateTable
  <2> DEFINE new == Next1(g[n], n + 1)
             h == [i \in 0..(n + 1) |-> IF i = n + 1 THEN new ELSE g[i]]
  <2> HIDE DEF Next1
  <2>3. ASSUME NEW i \in 0..(n + 1)
        PROVE  h[i] = IF i = 0 THEN start ELSE Next1(h[i - 1], i)
    <3>1. CASE i = n + 1
      <4>1. h[i - 1] = g[n] /\ h[i] = new /\ i # 0
        BY <3>1
      <4> QED
        BY <3>1, <4>1
    <3>2. CASE i # n + 1
      <4>1. i \in 0..n /\ (i # 0 => i - 1 \in 0..n /\ i - 1 \in 0..(n + 1) /\ i - 1 # n + 1)
        BY <3>2
      <4>2. h[i] = g[i] /\ (i # 0 => h[i - 1] = g[i - 1])
        BY <3>2, <4>1
      <4>3. g[i] = IF i = 0 THEN start ELSE Next1(g[i - 1], i)
        BY <2>2, <4>1
      <4> QED
        BY <4>2, <4>3
    <3> QED
      BY <3>1, <3>2
  <2>4. h = [i \in 0..(n + 1) |-> h[i]]
    OBVIOUS
  <2> HIDE DEF h
  <2>5. h = [i \in 0..(n + 1) |-> IF i = 0 THEN start ELSE Next1(h[i - 1], i)]
    BY <2>3, <2>4
  <2>6. UpdateTable(start, p, changed, n + 1, h)
    BY <2>5 DEF UpdateTable, Next1
  <2> QED
    BY <2>6
<1> HIDE DEF S
<1>3. \A n \in Nat : n \in S
  BY <1>1, <1>2, EveryNatural
<1> QED
  BY <1>3 DEF S

\* What a page comes to is anything that its parameters keep to, one after the other.
LEMMA PageSteps ==
  ASSUME NEW p \in 1..10, NEW changed, UpdatePage(p, changed), NEW G,
         [display |-> display, log |-> log] \in G[0],
         \A i \in 1..Len(Page[p]) : \A new \in G[i - 1] :
           update_param(new, <<p, i>>, changed) \in G[i]
  PROVE  \E new \in G[Len(Page[p])] :
           /\ display' = [new.display EXCEPT !.finished_loading = @ \/ p = 10]
           /\ log' = new.log
<1> DEFINE start == [display |-> display, log |-> log]
           n == Len(Page[p])
           Made(g) == g = [i \in 0..Len(Page[p]) |->
                             IF i = 0 THEN [display |-> display, log |-> log]
                                      ELSE update_param(g[i - 1], <<p, i>>, changed)]
           after == CHOOSE g : Made(g)
           new == after[Len(Page[p])]
<1>1. /\ display' = [new.display EXCEPT !.finished_loading = @ \/ p = 10]
      /\ log' = new.log
  BY DEF UpdatePage
<1>2. n \in Nat
  BY PageFacts
<1>3. \E g : Made(g)
  <2>1. PICK g : UpdateTable(start, p, changed, n, g)
    BY <1>2, UpdateTableExists
  <2>2. Made(g)
    BY <2>1 DEF UpdateTable
  <2> HIDE DEF Made
  <2> QED
    BY <2>2
<1>4. Made(after)
  <2> HIDE DEF Made
  <2> QED
    BY <1>3
<1>5. /\ after[0] = start
      /\ \A i \in 1..n : after[i] = update_param(after[i - 1], <<p, i>>, changed)
  <2> HIDE DEF after
  <2>1. 0 \in 0..n /\ \A i \in 1..n : i \in 0..n /\ i # 0
    BY <1>2
  <2> QED
    BY <1>4, <2>1
<1> HIDE DEF after, start, Made
<1>6. \A i \in Nat : i \in {k \in Nat : k <= n => after[k] \in G[k]}
  <2> DEFINE S == {k \in Nat : k <= n => after[k] \in G[k]}
  <2>1. 0 \in S
    BY <1>5 DEF start
  <2>2. ASSUME NEW k \in Nat, k \in S PROVE k + 1 \in S
    <3>1. CASE k + 1 <= n
      <4>1. after[k] \in G[k]
        BY <1>2, <2>2, <3>1
      <4>2. k + 1 \in 1..n /\ (k + 1) - 1 = k
        BY <1>2, <3>1
      <4>3. after[k + 1] = update_param(after[k], <<p, k + 1>>, changed)
        BY <1>5, <4>2
      <4>4. update_param(after[k], <<p, k + 1>>, changed) \in G[k + 1]
        <5>1. \A x \in G[(k + 1) - 1] : update_param(x, <<p, k + 1>>, changed) \in G[k + 1]
          BY <4>2
        <5> QED
          BY <4>1, <4>2, <5>1
      <4> QED
        BY <4>3, <4>4
    <3> QED
      BY <3>1
  <2> HIDE DEF S
  <2> QED
    BY <2>1, <2>2, EveryNatural DEF S
<1>7. after[n] \in G[n]
  BY <1>2, <1>6
<1> QED
  BY <1>1, <1>7

-----------------------------------------------------------------------------
(* What a display is made of. *)

Cells == Nat \X Nat
Places == [x : Int, y : Int]
Displays ==
  [params : [sections -> Seq(Params)], place : [sections -> Places],
   param_index : [sections -> Int],
   last : [x : Int, y : Int, width : Int, height : Int],
   finished_loading : BOOLEAN, refresh : BOOLEAN, cleared : BOOLEAN,
   top_10 : Seq(Cells), width : Nat, rows : Seq(Seq(Cells)),
   mislabelled : SUBSET sections]
Progress == [display : Displays, log : Seq(Seq(Cells))]
Changes == {c \in Seq(Cells) : Len(c) \in {2, 3}}

LEMMA ChangeFacts ==
  ASSUME NEW n \in Nat, NEW wide \in BOOLEAN
  PROVE  /\ Change(n, wide) \in Changes
         /\ Len(Change(n, wide)) = IF wide THEN 3 ELSE 2
<1> DEFINE m == IF wide THEN 3 ELSE 2
<1>1. Change(n, wide) = [k \in 1..m |-> <<n, k>>]
  BY DEF Change
<1>2. m \in {2, 3}
  OBVIOUS
<1> HIDE DEF m
<1>3. \A k \in 1..m : <<n, k>> \in Cells
  BY <1>2 DEF Cells
<1>4. Change(n, wide) \in Seq(Cells) /\ Len(Change(n, wide)) = m
  BY <1>1, <1>2, <1>3
<1> QED
  BY <1>2, <1>4 DEF Changes, m

\* The rows a list is cut into.
LEMMA RowsFacts ==
  ASSUME NEW list \in Seq(Cells), NEW w \in {2, 3}
  PROVE  /\ Rows(list, w) \in Seq(Seq(Cells))
         /\ Len(Rows(list, w)) = Len(list) \div w
         /\ \A i \in 1..(Len(list) \div w) :
              /\ 1 <= (i - 1) * w + 1 /\ i * w <= Len(list)
              /\ Rows(list, w)[i] = SubSeq(list, (i - 1) * w + 1, i * w)
<1> DEFINE n == Len(list) \div w
<1>1. n \in Nat /\ n * w <= Len(list)
  <2>1. CASE w = 2 BY <2>1
  <2>2. CASE w = 3 BY <2>2
  <2> QED BY <2>1, <2>2
<1>2. ASSUME NEW i \in 1..n
      PROVE  /\ 1 <= (i - 1) * w + 1 /\ i * w <= Len(list)
             /\ SubSeq(list, (i - 1) * w + 1, i * w) \in Seq(Cells)
  <2>1. 1 <= (i - 1) * w + 1 /\ i * w <= Len(list) /\ (i - 1) * w + 1 \in Int /\ i * w \in Int
    <3> HIDE DEF n
    <3>1. CASE w = 2 BY <1>1, <3>1
    <3>2. CASE w = 3 BY <1>1, <3>2
    <3> QED BY <3>1, <3>2
  <2> QED
    BY <2>1
<1>3. Rows(list, w) = [i \in 1..n |-> SubSeq(list, (i - 1) * w + 1, i * w)]
  BY DEF Rows
<1> HIDE DEF n
<1>4. Rows(list, w) \in Seq(Seq(Cells)) /\ Len(Rows(list, w)) = n
  BY <1>1, <1>2, <1>3
<1> QED
  BY <1>2, <1>3, <1>4 DEF n

\* The list the code goes on with: `kept' has room for one more change.
Kept(d, w) ==
  IF Len(d.top_10) >= w * LIST_LEN THEN SubSeq(d.top_10, 1, Len(d.top_10) - w) ELSE d.top_10

LEMMA ListUpdated ==
  ASSUME NEW d \in Displays, NEW c \in Changes, NEW again \in BOOLEAN
  PROVE  LET e == update_changes(d, c, again)
             list == IF again THEN d.top_10 ELSE c \o Kept(d, Len(c))
         IN /\ e \in Displays
            /\ e.width = Len(c) /\ e.top_10 = list /\ e.rows = Rows(list, Len(c))
            /\ e.refresh = (IF again THEN FALSE ELSE d.refresh)
            /\ e.params = d.params /\ e.place = d.place /\ e.param_index = d.param_index
            /\ e.last = d.last /\ e.finished_loading = d.finished_loading
            /\ e.cleared = d.cleared /\ e.mislabelled = d.mislabelled
<1> DEFINE e == update_changes(d, c, again)
           w == Len(c)
           kept == Kept(d, w)
           list == IF again THEN d.top_10 ELSE c \o kept
           rows == Rows(list, w)
           refresh == IF again THEN FALSE ELSE d.refresh
<1>1. e = [d EXCEPT !.width = w, !.top_10 = list, !.rows = rows,
                    !.refresh = IF again THEN FALSE ELSE @]
  BY DEF update_changes, Kept
<1>2. w \in {2, 3} /\ c \in Seq(Cells)
  BY DEF Changes
<1>3. d.top_10 \in Seq(Cells) /\ d.refresh \in BOOLEAN
  BY DEF Displays
<1> HIDE DEF w
<1>4. kept \in Seq(Cells)
  <2>1. Len(d.top_10) >= w * LIST_LEN => Len(d.top_10) - w \in 0..Len(d.top_10)
    <3>1. LIST_LEN >= 1 /\ LIST_LEN \in Nat
      BY LiveDataAssumption
    <3>2. Len(d.top_10) \in Nat
      BY <1>3
    <3>3. CASE w = 2 BY <3>1, <3>2, <3>3
    <3>4. CASE w = 3 BY <3>1, <3>2, <3>4
    <3> QED BY <1>2, <3>3, <3>4
  <2> QED
    BY <1>3, <2>1 DEF Kept
<1> HIDE DEF kept
<1>5. list \in Seq(Cells)
  BY <1>2, <1>3, <1>4
<1> HIDE DEF list
<1>6. rows \in Seq(Seq(Cells))
  BY <1>2, <1>5, RowsFacts
<1> HIDE DEF rows
<1>7. refresh \in BOOLEAN
  <2>1. CASE again
    <3>1. refresh = FALSE
      BY <2>1
    <3> QED
      BY <3>1
  <2>2. CASE ~again
    <3>1. refresh = d.refresh
      BY <2>2
    <3> QED
      BY <1>3, <3>1
  <2> QED
    BY <2>1, <2>2
<1>11. w \in Nat
  BY <1>2
<1>8. e = [d EXCEPT !.width = w, !.top_10 = list, !.rows = rows, !.refresh = refresh]
  BY <1>1
<1> HIDE DEF e, refresh
<1>9. e \in Displays
  BY <1>5, <1>6, <1>7, <1>8, <1>11 DEF Displays
<1>10. /\ e.width = w /\ e.top_10 = list /\ e.rows = rows /\ e.refresh = refresh
       /\ e.params = d.params /\ e.place = d.place /\ e.param_index = d.param_index
       /\ e.last = d.last /\ e.finished_loading = d.finished_loading
       /\ e.cleared = d.cleared /\ e.mislabelled = d.mislabelled
  BY <1>8 DEF Displays
<1> QED
  BY <1>9, <1>10 DEF e, refresh, rows, list, kept, w

-----------------------------------------------------------------------------
(* Where sections go, and what a parameter does to them. *)

LEMMA WidthFacts == \A s \in sections : Width[s] \in 8..28
<1> SUFFICES ASSUME NEW s \in sections PROVE Width[s] \in 8..28
  OBVIOUS
<1>1. \/ s = "TRACTION_STATE" \/ s = "SCRUBBER_STATE" \/ s = "RECOVERY_STATE"
      \/ s = "BATTERY_STATE" \/ s = "META_STATE" \/ s = "ERROR_STATE" \/ s = "MISC_STATE"
      \/ s = "UNKNOWN_STATE" \/ s = "TRACTION_ANALOG" \/ s = "SCRUBBER_ANALOG"
      \/ s = "RECOVERY_ANALOG" \/ s = "MISC_ANALOG" \/ s = "BATTERY_ANALOG"
  BY DEF sections, StateSections, AnalogSections
<1> QED
  BY <1>1 DEF Width

LEMMA ParamFacts ==
  /\ \A p \in 1..10 : \A i \in 1..Len(Page[p]) : <<p, i>> \in Params
  /\ \A id \in Params : /\ Section(id) \in sections
                        /\ id[1] \in 1..10 /\ id[2] \in 1..Len(Page[id[1]])
                        /\ id = <<id[1], id[2]>>
<1>1. DOMAIN Page = 1..10
  BY DEF Page
<1>2. ASSUME NEW p \in 1..10 PROVE DOMAIN Page[p] = 1..Len(Page[p])
  <2>1. Page[p] \in Seq(sections)
    BY PageFacts
  <2> QED
    BY <2>1
<1>3. ASSUME NEW p \in 1..10, NEW i \in 1..Len(Page[p]) PROVE <<p, i>> \in Params
  <2>1. <<p, i>> \in {<<p, j>> : j \in DOMAIN Page[p]}
    BY <1>2
  <2>2. {<<p, j>> : j \in DOMAIN Page[p]}
          \in {{<<q, j>> : j \in DOMAIN Page[q]} : q \in DOMAIN Page}
    BY <1>1
  <2> QED
    BY <2>1, <2>2 DEF Params
<1>4. ASSUME NEW id \in Params
      PROVE  /\ Section(id) \in sections
             /\ id[1] \in 1..10 /\ id[2] \in 1..Len(Page[id[1]])
             /\ id = <<id[1], id[2]>>
  <2>1. PICK p \in 1..10 : id \in {<<p, i>> : i \in DOMAIN Page[p]}
    BY <1>1, <1>4 DEF Params
  <2>2. PICK i \in 1..Len(Page[p]) : id = <<p, i>>
    BY <1>2, <2>1
  <2>3. Page[p][i] \in sections
    <3>1. Page[p] \in Seq(sections)
      BY PageFacts
    <3> HIDE DEF sections
    <3> QED
      BY <2>2, <3>1
  <2> QED
    BY <2>2, <2>3 DEF Section
<1> QED
  BY <1>3, <1>4

WindowTyped == window_size \in Terminals \union {JUNK}

LEMMA WindowFacts ==
  ASSUME WindowTyped
  PROVE  window_size.col \in Nat /\ window_size.row \in Nat
BY LiveDataAssumption DEF WindowTyped, JUNK

Positions ==
  [x : Int, y : Int, last : [x : Int, y : Int, width : Int, height : Int]]

LEMMA DisplayFields ==
  ASSUME NEW d \in Displays
  PROVE  /\ d.params \in [sections -> Seq(Params)]
         /\ d.place \in [sections -> Places]
         /\ d.param_index \in [sections -> Int]
         /\ d.last \in [x : Int, y : Int, width : Int, height : Int]
         /\ d.mislabelled \in SUBSET sections
         /\ d.width \in Nat
         /\ d.finished_loading \in BOOLEAN
BY DEF Displays

LEMMA SizeFacts ==
  ASSUME NEW d \in Displays, NEW s \in sections
  PROVE  Height(d, s) \in Nat /\ Width[s] \in Nat /\ Width[s] > 0
<1>1. d.params[s] \in Seq(Params)
  BY DisplayFields
<1>2. Height(d, s) \in Nat
  BY <1>1 DEF Height
<1>3. Width[s] \in 8..28
  BY WidthFacts
<1> QED
  BY <1>2, <1>3

LEMMA PositionType ==
  ASSUME NEW d \in Displays, NEW s \in sections, WindowTyped
  PROVE  /\ NextPosition(d, s) \in Positions
         /\ AwayFromChanges(d, s, NextPosition(d, s)) \in Positions
<1>1. Width[s] \in Int /\ Height(d, s) \in Int /\ d.width \in Nat
  <2>1. Width[s] \in Nat /\ Height(d, s) \in Nat
    BY SizeFacts
  <2>2. d.width \in Nat
    BY DisplayFields
  <2> QED
    BY <2>1, <2>2
<1>2. d.last \in [x : Int, y : Int, width : Int, height : Int]
  BY DisplayFields
<1>3. window_size.col \in Nat /\ window_size.row \in Nat
  BY WindowFacts
<1>4. NextPosition(d, s) \in Positions
  <2> DEFINE last == d.last
             x == last.x + last.width + PADDING
             y == last.y + last.height + PADDING
             moved == [last EXCEPT !.height = Height(d, s), !.width = Width[s]]
  <2>1. /\ x \in Int /\ y \in Int /\ last.y \in Int
        /\ moved \in [x : Int, y : Int, width : Int, height : Int]
    <3>1. last.x \in Int /\ last.y \in Int /\ last.width \in Int /\ last.height \in Int
      BY <1>2
    <3>2. \A h, w \in Int : [last EXCEPT !.height = h, !.width = w]
                               \in [x : Int, y : Int, width : Int, height : Int]
      BY <1>2
    <3> HIDE DEF last
    <3>3. moved \in [x : Int, y : Int, width : Int, height : Int]
      BY <1>1, <3>2
    <3> QED
      BY <3>1, <3>3 DEF PADDING
  <2>2. NextPosition(d, s) \in {[x |-> 0, y |-> 0, last |-> last],
                               [x |-> x, y |-> last.y, last |-> last],
                               [x |-> 0, y |-> y, last |-> moved],
                               [x |-> -1, y |-> -1, last |-> last]}
    BY DEF NextPosition
  <2> HIDE DEF x, y, moved
  <2> QED
    BY <1>2, <2>1, <2>2 DEF Positions
<1>5. ASSUME NEW p \in Positions PROVE AwayFromChanges(d, s, p) \in Positions
  <2>1. Bytes(d.width) \in Int
    BY <1>1 DEF Bytes
  <2>2. \/ AwayFromChanges(d, s, p) = p
        \/ AwayFromChanges(d, s, p) = [p EXCEPT !.x = Bytes(d.width)]
        \/ AwayFromChanges(d, s, p) = [x |-> -1, y |-> -1, last |-> d.last]
    BY DEF AwayFromChanges
  <2> QED
    BY <1>2, <2>1, <2>2 DEF Positions
<1> QED
  BY <1>4, <1>5

NewPosition(d, s) == AwayFromChanges(d, s, NextPosition(d, s))
NewLast(d, s, size) ==
  LET p == NewPosition(d, s)
  IN IF p.x = -1 THEN p.last
     ELSE [x |-> p.x, y |-> p.y, width |-> Width[s] + 1 + size,
           height |-> IF Height(d, s) > p.last.height THEN Height(d, s) ELSE p.last.height]

SameList(d, e) ==
  /\ e.top_10 = d.top_10 /\ e.width = d.width /\ e.rows = d.rows
  /\ e.refresh = d.refresh /\ e.cleared = d.cleared
SameLayout(d, e) ==
  e.place = d.place /\ e.param_index = d.param_index /\ e.last = d.last

LEMMA SectionPlaced ==
  ASSUME NEW d \in Displays, NEW s \in sections, NEW size \in Nat, WindowTyped
  PROVE  LET e == PlaceSection(d, s, size)
         IN /\ e \in Displays
            /\ SameList(d, e)
            /\ e.params = d.params
            /\ e.finished_loading = d.finished_loading /\ e.mislabelled = d.mislabelled
            /\ e.param_index = [d.param_index EXCEPT ![s] = 0]
            /\ e.place = [d.place EXCEPT ![s] =
                          [x |-> NewPosition(d, s).x, y |-> NewPosition(d, s).y]]
            /\ e.last = NewLast(d, s, size)
<1> DEFINE e == PlaceSection(d, s, size)
           p == NewPosition(d, s)
           last == NewLast(d, s, size)
           place == [d.place EXCEPT ![s] = [x |-> p.x, y |-> p.y]]
           index == [d.param_index EXCEPT ![s] = 0]
<1>1. e = [d EXCEPT !.param_index[s] = 0, !.place[s] = [x |-> p.x, y |-> p.y],
                    !.last = last]
  BY DEF PlaceSection, NewPosition, NewLast
<1>2. p \in Positions
  BY PositionType DEF NewPosition
<1>3. Width[s] \in Int /\ Height(d, s) \in Int
  BY SizeFacts
<1>4. last = IF p.x = -1 THEN p.last
             ELSE [x |-> p.x, y |-> p.y, width |-> Width[s] + 1 + size,
                   height |-> IF Height(d, s) > p.last.height THEN Height(d, s)
                              ELSE p.last.height]
  BY DEF NewLast
<1> HIDE DEF p, last
<1>5. last \in [x : Int, y : Int, width : Int, height : Int]
  BY <1>2, <1>3, <1>4 DEF Positions
<1>6. place \in [sections -> Places] /\ index \in [sections -> Int]
  BY <1>2, DisplayFields DEF Positions, Places
<1>7. e = [d EXCEPT !.param_index = index, !.place = place, !.last = last]
  BY <1>1
<1> HIDE DEF place, index, e
<1>8. e \in Displays
  BY <1>5, <1>6, <1>7 DEF Displays
<1>9. /\ SameList(d, e)
      /\ e.params = d.params
      /\ e.finished_loading = d.finished_loading /\ e.mislabelled = d.mislabelled
      /\ e.param_index = index /\ e.place = place /\ e.last = last
  BY <1>7 DEF Displays, SameList
<1> QED
  BY <1>8, <1>9 DEF e, place, index, p, last

\* The three things update_section can do.
Appends(d, e, id) ==
  /\ ~d.finished_loading
  /\ e.params = [d.params EXCEPT ![Section(id)] = Append(@, id)]
  /\ SameLayout(d, e)
Places1(d, e, s, size) ==
  /\ d.finished_loading /\ d.param_index[s] < 0 /\ PRESENT \in options[s]
  /\ e.params = d.params
  /\ e.param_index = [d.param_index EXCEPT ![s] = 0]
  /\ e.place = [d.place EXCEPT ![s] = [x |-> NewPosition(d, s).x, y |-> NewPosition(d, s).y]]
  /\ e.last = NewLast(d, s, size)

LEMMA SectionUpdated ==
  ASSUME NEW d \in Displays, NEW id \in Params, NEW size \in Nat, WindowTyped
  PROVE  LET e == update_section(d, id, size)
         IN /\ e \in Displays
            /\ SameList(d, e)
            /\ e.finished_loading = d.finished_loading /\ e.mislabelled = d.mislabelled
            /\ \/ Appends(d, e, id)
               \/ Places1(d, e, Section(id), size)
               \/ /\ d.finished_loading
                  /\ ~(d.param_index[Section(id)] < 0 /\ PRESENT \in options[Section(id)])
                  /\ e = d
<1> DEFINE e == update_section(d, id, size)
           s == Section(id)
<1>1. s \in sections
  BY ParamFacts
<1>2. CASE ~d.finished_loading
  <2> DEFINE params == [d.params EXCEPT ![s] = Append(@, id)]
  <2>1. e = [d EXCEPT !.params[s] = Append(@, id)]
    BY <1>2 DEF update_section
  <2>2. params \in [sections -> Seq(Params)]
    BY <1>1, DisplayFields
  <2>3. e = [d EXCEPT !.params = params]
    BY <2>1
  <2> HIDE DEF e, params
  <2>4. e \in Displays
    BY <2>2, <2>3 DEF Displays
  <2>5. /\ SameList(d, e) /\ SameLayout(d, e) /\ e.params = params
        /\ e.finished_loading = d.finished_loading /\ e.mislabelled = d.mislabelled
    BY <2>3 DEF Displays, SameList, SameLayout
  <2>6. Appends(d, e, id)
    BY <1>2, <2>5 DEF Appends, params
  <2> QED
    BY <2>4, <2>5, <2>6 DEF e
<1>3. CASE d.finished_loading /\ d.param_index[s] < 0 /\ PRESENT \in options[s]
  <2>1. e = PlaceSection(d, s, size)
    BY <1>3 DEF update_section
  <2> HIDE DEF e, s
  <2>2. /\ e \in Displays
        /\ SameList(d, e)
        /\ e.finished_loading = d.finished_loading /\ e.mislabelled = d.mislabelled
        /\ Places1(d, e, s, size)
    <3>1. /\ e \in Displays
          /\ SameList(d, e)
          /\ e.params = d.params
          /\ e.finished_loading = d.finished_loading /\ e.mislabelled = d.mislabelled
          /\ e.param_index = [d.param_index EXCEPT ![s] = 0]
          /\ e.place = [d.place EXCEPT ![s] =
                        [x |-> NewPosition(d, s).x, y |-> NewPosition(d, s).y]]
          /\ e.last = NewLast(d, s, size)
      BY <1>1, <2>1, SectionPlaced
    <3> QED
      BY <1>3, <3>1 DEF Places1
  <2> QED
    BY <2>2 DEF e, s
<1>4. CASE d.finished_loading /\ ~(d.param_index[s] < 0 /\ PRESENT \in options[s])
  <2>1. e = d
    BY <1>4 DEF update_section
  <2>2. SameList(d, d)
    BY DEF SameList
  <2> QED
    BY <1>4, <2>1, <2>2
<1> QED
  BY <1>2, <1>3, <1>4

Row(d, s) == IF d.param_index[s] = Height(d, s) THEN 0 ELSE d.param_index[s]
Shows(d, e, id) ==
  LET s == Section(id)
  IN /\ d.finished_loading /\ OnDisplay(d, s)
     /\ e.param_index = [d.param_index EXCEPT ![s] = Row(d, s) + 1]
     /\ e.mislabelled = IF d.params[s][Row(d, s) + 1] = id THEN d.mislabelled
                        ELSE d.mislabelled \union {s}

LEMMA Published ==
  ASSUME NEW d \in Displays, NEW id \in Params
  PROVE  LET e == Publish(d, id)
         IN /\ e \in Displays
            /\ SameList(d, e)
            /\ e.params = d.params /\ e.place = d.place /\ e.last = d.last
            /\ e.finished_loading = d.finished_loading
            /\ \/ Shows(d, e, id)
               \/ e = d /\ ~(d.finished_loading /\ OnDisplay(d, Section(id)))
<1> DEFINE e == Publish(d, id)
           s == Section(id)
           index == [d.param_index EXCEPT ![s] = Row(d, s) + 1]
           wrong == IF d.params[s][Row(d, s) + 1] = id THEN d.mislabelled
                    ELSE d.mislabelled \union {s}
<1>1. s \in sections
  BY ParamFacts
<1>2. CASE d.finished_loading /\ OnDisplay(d, s)
  <2>1. e = [d EXCEPT !.param_index[s] = Row(d, s) + 1, !.mislabelled = wrong]
    BY <1>2 DEF Publish, Row
  <2>2. e = [d EXCEPT !.param_index = index, !.mislabelled = wrong]
    BY <2>1
  <2>3. Row(d, s) \in Int
    <3>1. d.param_index[s] \in Int
      BY <1>1, DisplayFields
    <3> QED
      BY <3>1 DEF Row
  <2>4. index \in [sections -> Int] /\ wrong \in SUBSET sections
    <3>1. d.param_index \in [sections -> Int] /\ d.mislabelled \in SUBSET sections
      BY DisplayFields
    <3> HIDE DEF s
    <3> QED
      BY <1>1, <2>3, <3>1
  <2> HIDE DEF index, wrong, e
  <2>5. e \in Displays
    BY <2>2, <2>4 DEF Displays
  <2>6. /\ SameList(d, e)
        /\ e.params = d.params /\ e.place = d.place /\ e.last = d.last
        /\ e.finished_loading = d.finished_loading
        /\ e.param_index = index /\ e.mislabelled = wrong
    BY <2>2 DEF Displays, SameList
  <2>7. Shows(d, e, id)
    BY <1>2, <2>6 DEF Shows, index, wrong
  <2> QED
    BY <2>5, <2>6, <2>7 DEF e
<1>3. CASE ~(d.finished_loading /\ OnDisplay(d, s))
  <2>1. e = d
    BY <1>3 DEF Publish
  <2>2. SameList(d, d)
    BY DEF SameList
  <2> QED
    BY <1>3, <2>1, <2>2
<1> QED
  BY <1>2, <1>3

LEMMA SizeOfValue ==
  ASSUME NEW id \in Params, digits \in VALUE_SIZES
  PROVE  Size(id) \in 1..10
<1>1. digits \in 1..3
  BY LiveDataAssumption
<1>2. Size(id) \in {7 + digits, digits, 1}
  BY DEF Size
<1> QED
  BY <1>1, <1>2

\* A parameter takes the list, the section and the value, one after the other.
ChangeOf(new) == Change(Len(new.log) + 1, Wide(new.display))
IsListed(new, id, changed) == Listed(id, changed) /\ ~new.display.refresh
ListStep(new, d, id, changed) ==
  \/ new.display.refresh /\ d = update_changes(new.display, ChangeOf(new), TRUE)
  \/ IsListed(new, id, changed) /\ d = update_changes(new.display, ChangeOf(new), FALSE)
  \/ ~new.display.refresh /\ ~IsListed(new, id, changed) /\ d = new.display

LEMMA ParamSteps ==
  ASSUME NEW new \in Progress, NEW id \in Params, NEW changed, WindowTyped,
         digits \in VALUE_SIZES
  PROVE  \E d1, d2, d3 \in Displays :
           /\ ListStep(new, d1, id, changed)
           /\ d2 = update_section(d1, id, Size(id))
           /\ d3 = Publish(d2, id)
           /\ update_param(new, id, changed) =
                [display |-> d3,
                 log |-> IF IsListed(new, id, changed) THEN <<ChangeOf(new)>> \o new.log
                         ELSE new.log]
<1> DEFINE d == new.display
           change == ChangeOf(new)
           listed == IsListed(new, id, changed)
           d1 == CASE d.refresh -> update_changes(d, change, TRUE)
                   [] listed -> update_changes(d, change, FALSE)
                   [] OTHER -> d
           d2 == update_section(d1, id, Size(id))
           d3 == Publish(d2, id)
<1>1. update_param(new, id, changed) =
        [display |-> d3, log |-> IF listed THEN <<change>> \o new.log ELSE new.log]
  BY DEF update_param, ChangeOf, IsListed
<1>2. d \in Displays /\ new.log \in Seq(Seq(Cells))
  BY DEF Progress
<1>3. change \in Changes
  <2>1. Len(new.log) + 1 \in Nat
    BY <1>2
  <2>2. Wide(new.display) \in BOOLEAN
    BY DEF Wide
  <2> QED
    BY <2>1, <2>2, ChangeFacts DEF ChangeOf
<1>4. ListStep(new, d1, id, changed)
  <2>1. listed => ~d.refresh
    BY DEF IsListed
  <2> HIDE DEF listed
  <2>2. \/ d.refresh /\ d1 = update_changes(d, change, TRUE)
        \/ listed /\ d1 = update_changes(d, change, FALSE)
        \/ ~d.refresh /\ ~listed /\ d1 = d
    BY <2>1
  <2> HIDE DEF d1
  <2> QED
    BY <2>2 DEF ListStep, listed
<1> HIDE DEF d1
<1>5. d1 \in Displays
  <2>1. /\ update_changes(d, change, TRUE) \in Displays
        /\ update_changes(d, change, FALSE) \in Displays
    BY <1>2, <1>3, ListUpdated
  <2> QED
    BY <1>2, <1>4, <2>1 DEF ListStep
<1>6. Size(id) \in Nat
  BY SizeOfValue
<1>7. d2 \in Displays
  BY <1>5, <1>6, SectionUpdated
<1> HIDE DEF d2
<1>8. d3 \in Displays
  BY <1>7, Published
<1> QED
  BY <1>1, <1>4, <1>5, <1>7, <1>8 DEF d2

-----------------------------------------------------------------------------
(* The list of changes. *)

\* The i latest changes are w cells wide; the i-th of them is where it belongs in the list.
Uniform(l, w, i) == \A j \in 1..i : Len(l[j]) = w
Holds(list, l, w, i) ==
  i * w <= Len(list) /\ \A k \in 1..w : list[(i - 1) * w + k] = l[i][k]
InList(list, l) ==
  \A w \in {2, 3} : \A i \in 1..Len(l) :
    i <= LIST_LEN /\ Uniform(l, w, i) => Holds(list, l, w, i)
NoMoreThan(list, l) ==
  \A w \in {2, 3} : Uniform(l, w, Len(l)) => Len(list) <= w * Len(l)
LatestCount(l) == IF Len(l) < LIST_LEN THEN Len(l) ELSE LIST_LEN
ShortList(list, l) ==
  /\ Len(list) < 3 * LIST_LEN + 3
  /\ uptime # "over" \/ Uniform(l, 2, LatestCount(l)) => Len(list) < 2 * LIST_LEN + 2
ListInv(d, l) ==
  /\ \A i \in 1..Len(l) : Len(l[i]) \in {2, 3}
  /\ d.width \in {0, 2, 3}
  /\ d.width = 0 => l = <<>> /\ d.top_10 = <<>> /\ d.rows = <<>>
  /\ d.width # 0 => d.rows = Rows(d.top_10, d.width)
  /\ InList(d.top_10, l)
  /\ NoMoreThan(d.top_10, l)
  /\ ShortList(d.top_10, l)

LEMMA ListLength == LIST_LEN \in Nat /\ LIST_LEN >= 1
BY LiveDataAssumption

LEMMA ListSame ==
  ASSUME NEW d, NEW e, NEW l, ListInv(d, l), SameList(d, e)
  PROVE  ListInv(e, l)
BY DEF ListInv, SameList

\* A refresh cuts the same list into other rows.
LEMMA ListAgain ==
  ASSUME NEW d \in Displays, NEW l, ListInv(d, l), NEW c \in Changes
  PROVE  ListInv(update_changes(d, c, TRUE), l)
<1> DEFINE e == update_changes(d, c, TRUE)
<1>1. /\ e.width = Len(c) /\ e.top_10 = d.top_10 /\ e.rows = Rows(d.top_10, Len(c))
  BY ListUpdated
<1>2. Len(c) \in {2, 3}
  BY DEF Changes
<1> HIDE DEF e
<1>3. ListInv(e, l)
  <2>1. /\ \A i \in 1..Len(l) : Len(l[i]) \in {2, 3}
        /\ InList(d.top_10, l)
        /\ NoMoreThan(d.top_10, l)
        /\ ShortList(d.top_10, l)
    BY DEF ListInv
  <2>2. e.width \in {2, 3} /\ e.rows = Rows(e.top_10, e.width)
    BY <1>1, <1>2
  <2>3. /\ InList(e.top_10, l)
        /\ NoMoreThan(e.top_10, l)
        /\ ShortList(e.top_10, l)
    BY <1>1, <2>1
  <2>4. /\ e.width \in {0, 2, 3}
        /\ e.width = 0 => l = <<>> /\ e.top_10 = <<>> /\ e.rows = <<>>
        /\ e.width # 0 => e.rows = Rows(e.top_10, e.width)
    BY <2>2
  <2> HIDE DEF e
  <2> QED
    BY <2>1, <2>3, <2>4, Zenon DEF ListInv
<1> QED
  BY <1>3 DEF e

\* What stays of a list when there is to be room for one more change.
LEMMA KeptFacts ==
  ASSUME NEW d \in Displays, NEW w \in {2, 3}
  PROVE  LET list == d.top_10
             kept == Kept(d, w)
         IN /\ kept \in Seq(Cells)
            /\ Len(list) >= w * LIST_LEN => Len(kept) = Len(list) - w
            /\ Len(list) < w * LIST_LEN => Len(kept) = Len(list)
            /\ \A k \in 1..Len(kept) : kept[k] = list[k]
<1> DEFINE list == d.top_10
<1>1. list \in Seq(Cells) /\ Len(list) \in Nat
  BY DEF Displays
<1>2. w * LIST_LEN \in Nat /\ w * LIST_LEN >= w
  <2>1. CASE w = 2 BY <2>1, ListLength
  <2>2. CASE w = 3 BY <2>2, ListLength
  <2> QED BY <2>1, <2>2
<1>3. CASE Len(list) >= w * LIST_LEN
  <2>1. Kept(d, w) = SubSeq(list, 1, Len(list) - w)
    BY <1>3 DEF Kept
  <2>2. Len(list) - w \in 0..Len(list)
    BY <1>1, <1>2, <1>3
  <2> HIDE DEF list
  <2> QED
    BY <1>1, <1>2, <1>3, <2>1, <2>2 DEF list
<1>4. CASE Len(list) < w * LIST_LEN
  <2>1. Kept(d, w) = list
    BY <1>1, <1>2, <1>4 DEF Kept
  <2> QED
    BY <1>1, <1>2, <1>4, <2>1
<1> QED
  BY <1>1, <1>2, <1>3, <1>4

\* A new change is put in front.
LEMMA InListKept ==
  ASSUME NEW d \in Displays, NEW l \in Seq(Seq(Cells)), NEW c \in Changes,
         InList(d.top_10, l)
  PROVE  InList(c \o Kept(d, Len(c)), <<c>> \o l)
<1> DEFINE list == d.top_10
           n == Len(c)
           kept == Kept(d, n)
           new == c \o kept
           m == <<c>> \o l
<1>1. n \in {2, 3} /\ c \in Seq(Cells) /\ n \in Nat
  BY DEF Changes
<1>2. /\ kept \in Seq(Cells)
      /\ Len(list) >= n * LIST_LEN => Len(kept) = Len(list) - n
      /\ Len(list) < n * LIST_LEN => Len(kept) = Len(list)
      /\ \A k \in 1..Len(kept) : kept[k] = list[k]
  BY <1>1, KeptFacts
<1>3. /\ Len(new) = n + Len(kept)
      /\ \A k \in 1..n : new[k] = c[k]
      /\ \A k \in 1..Len(kept) : new[n + k] = kept[k]
  <2> HIDE DEF kept
  <2> QED
    BY <1>1, <1>2
<1>4. /\ Len(m) = 1 + Len(l) /\ m[1] = c
      /\ \A k \in 1..Len(l) : m[1 + k] = l[k]
  OBVIOUS
<1>5. list \in Seq(Cells) /\ Len(list) \in Nat
  BY DEF Displays
<1>6. Len(kept) \in Nat /\ Len(l) \in Nat
  BY <1>2
<1> HIDE DEF list, kept, new, m, n
<1>7. ASSUME NEW w \in {2, 3}, NEW i \in 1..Len(m), i <= LIST_LEN, Uniform(m, w, i)
      PROVE  Holds(new, m, w, i)
  <2>1. w = n
    <3>1. 1 \in 1..i
      BY <1>4, <1>6
    <3>2. Len(m[1]) = w
      BY <1>7, <3>1 DEF Uniform
    <3> QED
      BY <1>4, <3>2 DEF n
  <2>2. CASE i = 1
    <3>1. ASSUME NEW k \in 1..n
          PROVE  new[(1 - 1) * n + k] = m[1][k]
      <4>1. (1 - 1) * n + k = k
        BY <1>1
      <4> QED
        BY <1>3, <1>4, <4>1
    <3>2. 1 * n <= Len(new)
      BY <1>1, <1>3, <1>6
    <3> QED
      BY <2>1, <2>2, <3>1, <3>2 DEF Holds
  <2>3. CASE i # 1
    <3> DEFINE j == i - 1
    <3>1. j \in 1..Len(l) /\ j + 1 = i /\ j <= LIST_LEN /\ j + 1 <= LIST_LEN
      BY <1>4, <1>6, <1>7, <2>3, ListLength
    <3>2. Uniform(l, w, j)
      <4>1. ASSUME NEW k \in 1..j PROVE Len(l[k]) = w
        <5>1. 1 + k \in 1..i /\ k \in 1..Len(l)
          BY <3>1
        <5> QED
          BY <1>4, <1>7, <5>1 DEF Uniform
      <4> QED
        BY <4>1 DEF Uniform
    <3>3. Holds(list, l, w, j)
      BY <3>1, <3>2 DEF InList, list
    <3>4. m[i] = l[j]
      <4>1. 1 + j = i
        BY <3>1
      <4> QED
        BY <1>4, <3>1, <4>1
    <3> HIDE DEF j
    <3>5. j * w <= Len(list) /\ \A k \in 1..w : list[(j - 1) * w + k] = l[j][k]
      BY <3>3 DEF Holds
    <3>6. j * w <= Len(kept) /\ j * w \in Nat /\ i * w = w + j * w
      <4> DEFINE before == Len(list)
                 after == Len(kept)
      <4>3. /\ before \in Nat /\ after \in Nat /\ j \in Nat /\ i = j + 1 /\ j * w <= before
            /\ before >= w * LIST_LEN => after = before - w
            /\ before < w * LIST_LEN => after = before
        BY <1>2, <1>5, <1>6, <2>1, <3>1, <3>5
      <4> HIDE DEF before, after
      <4>4. j + 1 <= LIST_LEN /\ LIST_LEN \in Nat
        BY <3>1, ListLength
      <4>1. CASE w = 2
        <5>1. /\ j * 2 <= before
              /\ before >= 2 * LIST_LEN => after = before - 2
              /\ before < 2 * LIST_LEN => after = before
          BY <4>1, <4>3
        <5>2. j * 2 <= after /\ j * 2 \in Nat /\ i * 2 = 2 + j * 2
          BY <4>3, <4>4, <5>1
        <5> QED
          BY <4>1, <5>2 DEF after
      <4>2. CASE w = 3
        <5>1. /\ j * 3 <= before
              /\ before >= 3 * LIST_LEN => after = before - 3
              /\ before < 3 * LIST_LEN => after = before
          BY <4>2, <4>3
        <5>2. j * 3 <= after /\ j * 3 \in Nat /\ i * 3 = 3 + j * 3
          BY <4>3, <4>4, <5>1
        <5> QED
          BY <4>2, <5>2 DEF after
      <4> QED
        BY <4>1, <4>2
    <3>7. i * w <= Len(new)
      BY <1>1, <1>3, <1>6, <2>1, <3>6
    <3>8. ASSUME NEW k \in 1..w PROVE new[(i - 1) * w + k] = m[i][k]
      <4> DEFINE q == (j - 1) * w + k
      <4>1. q \in 1..Len(kept) /\ (i - 1) * w + k = w + q
        <5>1. CASE w = 2
          BY <1>6, <3>1, <3>6, <5>1
        <5>2. CASE w = 3
          BY <1>6, <3>1, <3>6, <5>2
        <5> QED
          BY <5>1, <5>2
      <4>2. list[q] = l[j][k]
        BY <3>5
      <4> HIDE DEF q
      <4>3. new[w + q] = kept[q] /\ kept[q] = list[q]
        BY <1>2, <1>3, <2>1, <4>1
      <4> QED
        BY <3>4, <4>1, <4>2, <4>3
    <3> QED
      BY <3>7, <3>8 DEF Holds
  <2> QED
    BY <2>2, <2>3
<1>8. InList(new, m)
  BY <1>7 DEF InList
<1> QED
  BY <1>8 DEF new, m, kept, n

LEMMA NoMoreKept ==
  ASSUME NEW d \in Displays, NEW l \in Seq(Seq(Cells)), NEW c \in Changes,
         NoMoreThan(d.top_10, l)
  PROVE  NoMoreThan(c \o Kept(d, Len(c)), <<c>> \o l)
<1> DEFINE list == d.top_10
           n == Len(c)
           kept == Kept(d, n)
           new == c \o kept
           m == <<c>> \o l
<1>1. n \in {2, 3} /\ c \in Seq(Cells) /\ n \in Nat
  BY DEF Changes
<1>2. /\ kept \in Seq(Cells)
      /\ Len(list) >= n * LIST_LEN => Len(kept) = Len(list) - n
      /\ Len(list) < n * LIST_LEN => Len(kept) = Len(list)
  BY <1>1, KeptFacts
<1>3. Len(new) = n + Len(kept)
  <2> HIDE DEF kept
  <2> QED
    BY <1>1, <1>2
<1>4. /\ Len(m) = 1 + Len(l) /\ m[1] = c
      /\ \A k \in 1..Len(l) : m[1 + k] = l[k]
  OBVIOUS
<1>5. Len(list) \in Nat /\ Len(kept) \in Nat /\ Len(l) \in Nat /\ n * LIST_LEN \in Int
  <2>1. n * LIST_LEN \in Int
    BY <1>1, ListLength
  <2> QED
    BY <1>2, <2>1 DEF Displays
<1> HIDE DEF list, kept, new, m
<1>6. Len(kept) <= Len(list)
  BY <1>1, <1>2, <1>5
<1>7. ASSUME NEW w \in {2, 3}, Uniform(m, w, Len(m)) PROVE Len(new) <= w * Len(m)
  <2>1. w = n
    <3>1. 1 \in 1..Len(m)
      BY <1>4, <1>5
    <3> QED
      BY <1>4, <1>7, <3>1 DEF Uniform
  <2>2. Uniform(l, w, Len(l))
    <3>1. ASSUME NEW k \in 1..Len(l) PROVE Len(l[k]) = w
      <4>1. 1 + k \in 1..Len(m)
        BY <1>4, <1>5
      <4> QED
        BY <1>4, <1>7, <4>1 DEF Uniform
    <3> QED
      BY <3>1 DEF Uniform
  <2>3. Len(list) <= w * Len(l)
    BY <2>2 DEF NoMoreThan, list
  <2> HIDE DEF n
  <2>4. CASE w = 2
    BY <1>3, <1>4, <1>5, <1>6, <2>1, <2>3, <2>4
  <2>5. CASE w = 3
    BY <1>3, <1>4, <1>5, <1>6, <2>1, <2>3, <2>5
  <2> QED
    BY <2>4, <2>5
<1>8. NoMoreThan(new, m)
  BY <1>7 DEF NoMoreThan
<1> QED
  BY <1>8 DEF new, m, kept, n

\* One change at most is wider than the ones behind it, and it is the first.
WideInTime(d, c) ==
  /\ uptime = "over" => Len(c) = 3
  /\ uptime # "over" => Len(c) = 2 \/ d.top_10 = <<>>

LEMMA ShortKept ==
  ASSUME NEW d \in Displays, NEW l \in Seq(Seq(Cells)), NEW c \in Changes,
         ShortList(d.top_10, l), WideInTime(d, c)
  PROVE  ShortList(c \o Kept(d, Len(c)), <<c>> \o l)
<1> DEFINE list == d.top_10
           n == Len(c)
           kept == Kept(d, n)
           new == c \o kept
           m == <<c>> \o l
<1>1. n \in {2, 3} /\ c \in Seq(Cells) /\ n \in Nat
  BY DEF Changes
<1>2. /\ kept \in Seq(Cells)
      /\ Len(list) >= n * LIST_LEN => Len(kept) = Len(list) - n
      /\ Len(list) < n * LIST_LEN => Len(kept) = Len(list)
  BY <1>1, KeptFacts
<1>3. Len(new) = n + Len(kept)
  <2> HIDE DEF kept
  <2> QED
    BY <1>1, <1>2
<1>4. /\ Len(m) = 1 + Len(l) /\ m[1] = c
  OBVIOUS
<1>5. Len(list) \in Nat /\ Len(kept) \in Nat /\ Len(l) \in Nat
  BY <1>2 DEF Displays
<1>6. list = <<>> => Len(list) = 0
  OBVIOUS
<1>7. uptime = "over" => n = 3
  BY DEF WideInTime
<1>8. uptime # "over" => n = 2 \/ Len(list) = 0
  BY <1>6 DEF WideInTime
<1>9. /\ Len(list) < 3 * LIST_LEN + 3
      /\ uptime # "over" => Len(list) < 2 * LIST_LEN + 2
  BY DEF ShortList
<1>10. Uniform(m, 2, LatestCount(m)) => n = 2
  <2>1. 1 \in 1..LatestCount(m)
    BY <1>4, <1>5, ListLength DEF LatestCount
  <2> HIDE DEF m
  <2> QED
    BY <1>4, <2>1 DEF Uniform
<1> HIDE DEF list, kept, new, m, n
<1>11. Len(new) < 3 * LIST_LEN + 3
  <2>1. CASE n = 2
    BY <1>2, <1>3, <1>5, <1>9, <2>1, ListLength
  <2>2. CASE n = 3
    BY <1>2, <1>3, <1>5, <1>9, <2>2, ListLength
  <2> QED
    BY <1>1, <2>1, <2>2
<1>12. uptime # "over" => Len(new) < 2 * LIST_LEN + 2
  <2>1. CASE n = 2
    BY <1>2, <1>3, <1>5, <1>9, <2>1, ListLength
  <2>2. CASE n = 3
    <3>1. ASSUME uptime # "over" PROVE Len(new) = 3
      <4>1. Len(list) = 0
        BY <1>8, <2>2, <3>1
      <4>2. Len(list) < n * LIST_LEN
        BY <2>2, <4>1, ListLength
      <4> QED
        BY <1>2, <1>3, <2>2, <4>1, <4>2
    <3>2. 3 < 2 * LIST_LEN + 2
      BY ListLength
    <3> QED
      BY <3>1, <3>2
  <2> QED
    BY <1>1, <2>1, <2>2
<1>13. Uniform(m, 2, LatestCount(m)) => uptime # "over"
  BY <1>7, <1>10
<1>14. ShortList(new, m)
  BY <1>11, <1>12, <1>13 DEF ShortList
<1> QED
  BY <1>14 DEF new, m, kept, n

LEMMA ListGrows ==
  ASSUME NEW d \in Displays, NEW l \in Seq(Seq(Cells)), NEW c \in Changes,
         ListInv(d, l), WideInTime(d, c)
  PROVE  ListInv(update_changes(d, c, FALSE), <<c>> \o l)
<1> DEFINE e == update_changes(d, c, FALSE)
           m == <<c>> \o l
<1>1. /\ e.width = Len(c) /\ e.top_10 = c \o Kept(d, Len(c))
      /\ e.rows = Rows(c \o Kept(d, Len(c)), Len(c))
  BY ListUpdated
<1>2. Len(c) \in {2, 3}
  BY DEF Changes
<1>3. InList(e.top_10, m) /\ NoMoreThan(e.top_10, m) /\ ShortList(e.top_10, m)
  <2>1. InList(d.top_10, l) /\ NoMoreThan(d.top_10, l) /\ ShortList(d.top_10, l)
    BY DEF ListInv
  <2> HIDE DEF e
  <2> QED
    BY <1>1, <2>1, InListKept, NoMoreKept, ShortKept
<1>4. ASSUME NEW i \in 1..Len(m) PROVE Len(m[i]) \in {2, 3}
  <2>1. CASE i = 1
    BY <1>2, <2>1
  <2>2. CASE i # 1
    <3>1. i - 1 \in 1..Len(l) /\ m[i] = l[i - 1]
      BY <2>2
    <3>2. Len(l[i - 1]) \in {2, 3}
      BY <3>1 DEF ListInv
    <3> QED
      BY <3>1, <3>2
  <2> QED
    BY <2>1, <2>2
<1>6. e.width # 0 /\ e.width \in {0, 2, 3} /\ e.rows = Rows(e.top_10, e.width)
  <2> DEFINE w == Len(c)
  <2>1. w \in {2, 3} /\ e.width = w
    BY <1>1, <1>2
  <2>2. e.rows = Rows(e.top_10, e.width)
    <3> HIDE DEF e
    <3> QED
      BY <1>1
  <2> HIDE DEF e, w
  <2> QED
    BY <2>1, <2>2
<1> HIDE DEF e, m
<1>5. ListInv(e, m)
  BY <1>3, <1>4, <1>6 DEF ListInv
<1> QED
  BY <1>5 DEF e, m

LEMMA Halves ==
  ASSUME NEW m \in Nat, NEW n \in Nat
  PROVE  /\ n * 2 <= m /\ m < 2 * n + 2 => m \div 2 = n
         /\ n * 3 <= m /\ m < 3 * n + 3 => m \div 3 = n
<1>1. m \div 2 \in Int /\ 2 * (m \div 2) <= m /\ m < 2 * (m \div 2) + 2
  OBVIOUS
<1>2. m \div 3 \in Int /\ 3 * (m \div 3) <= m /\ m < 3 * (m \div 3) + 3
  OBVIOUS
<1> QED
  BY <1>1, <1>2

LEMMA SameSequence ==
  ASSUME NEW a \in Seq(Cells), NEW b \in Seq(Cells), Len(a) = Len(b),
         \A k \in 1..Len(a) : a[k] = b[k]
  PROVE  a = b
OBVIOUS

\* The latest changes are what the rows hold, when they are as wide as the rows.
LEMMA ListIsLatest ==
  ASSUME display \in Displays, log \in Seq(Seq(Cells)), ListInv(display, log)
  PROVE  ListShowsLatest
<1> DEFINE n == LatestCount(log)
           list == display.top_10
           w == display.width
<1>1. list \in Seq(Cells) /\ Len(list) \in Nat /\ Len(log) \in Nat
  BY DEF Displays
<1>2. /\ n \in Nat /\ n <= Len(log) /\ n <= LIST_LEN
      /\ n = Len(log) \/ n = LIST_LEN
  BY <1>1, ListLength DEF LatestCount
<1>3. Latest = SubSeq(log, 1, n)
  BY DEF Latest, LatestCount
<1>4. Latest \in Seq(Seq(Cells)) /\ Len(Latest) = n /\ \A i \in 1..n : Latest[i] = log[i]
  <2> HIDE DEF n
  <2> QED
    BY <1>2, <1>3
<1>5. /\ w \in {0, 2, 3}
      /\ w = 0 => display.rows = <<>>
      /\ w # 0 => display.rows = Rows(list, w)
      /\ InList(list, log) /\ NoMoreThan(list, log) /\ ShortList(list, log)
  BY DEF ListInv
<1> HIDE DEF n, list, w
<1>6. ASSUME w # 0, \A i \in DOMAIN Latest : Len(Latest[i]) = w
      PROVE  Rows(list, w) = Latest
  <2>1. w \in {2, 3}
    BY <1>5, <1>6
  <2>2. \A i \in 1..n : Len(log[i]) = w
    <3>1. DOMAIN Latest = 1..n
      BY <1>4
    <3> QED
      BY <1>4, <1>6, <3>1
  <2>3. ASSUME NEW i \in 1..n PROVE Holds(list, log, w, i)
    <3>1. Uniform(log, w, i)
      BY <1>2, <2>2 DEF Uniform
    <3>2. i \in 1..Len(log) /\ i <= LIST_LEN
      BY <1>1, <1>2, ListLength
    <3> QED
      BY <1>5, <2>1, <3>1, <3>2 DEF InList
  <2>4. n * w <= Len(list)
    <3>1. CASE n = 0
      BY <1>1, <2>1, <3>1
    <3>2. CASE n # 0
      <4>1. n \in 1..n
        BY <1>2, <3>2
      <4> QED
        BY <2>3, <4>1 DEF Holds
    <3> QED
      BY <3>1, <3>2
  <2>5. Uniform(log, w, n)
    BY <2>2 DEF Uniform
  <2>6. CASE w = 2
    <3>1. Len(list) < 2 * n + 2
      <4>1. n = Len(log) => Len(list) <= 2 * n
        BY <1>5, <2>5, <2>6 DEF NoMoreThan
      <4>2. Len(list) < 2 * LIST_LEN + 2
        BY <1>5, <2>5, <2>6 DEF ShortList, n
      <4> QED
        BY <1>1, <1>2, <4>1, <4>2
    <3>2. Len(list) \div 2 = n
      <4>1. n * 2 <= Len(list)
        BY <2>4, <2>6
      <4> QED
        BY <1>1, <1>2, <3>1, <4>1, Halves
    <3>3. /\ Rows(list, 2) \in Seq(Seq(Cells)) /\ Len(Rows(list, 2)) = n
          /\ \A i \in 1..n : Rows(list, 2)[i] = SubSeq(list, (i - 1) * 2 + 1, i * 2)
      BY <1>1, <3>2, RowsFacts
    <3>4. ASSUME NEW i \in 1..n PROVE Rows(list, 2)[i] = Latest[i]
      <4>1. /\ i * 2 <= Len(list) /\ log[i] \in Seq(Cells) /\ Len(log[i]) = 2
            /\ \A k \in 1..2 : list[(i - 1) * 2 + k] = log[i][k]
        BY <1>1, <1>2, <2>2, <2>3, <2>6 DEF Holds
      <4> DEFINE a == (i - 1) * 2 + 1
      <4>2. a \in Nat /\ a >= 1 /\ i * 2 = a + 1 /\ a + 1 <= Len(list) /\ (i - 1) * 2 + 2 = a + 1
        BY <1>1, <4>1
      <4>3. list[a] = log[i][1] /\ list[a + 1] = log[i][2]
        BY <4>1, <4>2
      <4> HIDE DEF a
      <4>4. SubSeq(list, a, a + 1) = log[i]
        <5>1. SubSeq(list, a, a + 1) \in Seq(Cells) /\ Len(SubSeq(list, a, a + 1)) = 2
          BY <1>1, <4>2
        <5>2. SubSeq(list, a, a + 1)[1] = list[a] /\ SubSeq(list, a, a + 1)[2] = list[a + 1]
          BY <1>1, <4>2
        <5> DEFINE b == SubSeq(list, a, a + 1)
        <5>5. b \in Seq(Cells) /\ Len(b) = 2 /\ b[1] = log[i][1] /\ b[2] = log[i][2]
          BY <4>3, <5>1, <5>2
        <5> HIDE DEF b
        <5>3. \A k \in 1..Len(b) : b[k] = log[i][k]
          <6>1. \A k \in 1..2 : k = 1 \/ k = 2
            OBVIOUS
          <6> QED
            BY <5>5, <6>1
        <5>4. b = log[i]
          BY <4>1, <5>5, <5>3, SameSequence
        <5> QED
          BY <5>4 DEF b
      <4> QED
        BY <1>4, <3>3, <4>2, <4>4 DEF a
    <3> QED
      BY <1>4, <2>6, <3>3, <3>4
  <2>7. CASE w = 3
    <3>1. Len(list) < 3 * n + 3
      <4>1. n = Len(log) => Len(list) <= 3 * n
        BY <1>5, <2>5, <2>7 DEF NoMoreThan
      <4>2. Len(list) < 3 * LIST_LEN + 3
        BY <1>5 DEF ShortList
      <4> QED
        BY <1>1, <1>2, <4>1, <4>2
    <3>2. Len(list) \div 3 = n
      <4>1. n * 3 <= Len(list)
        BY <2>4, <2>7
      <4> QED
        BY <1>1, <1>2, <3>1, <4>1, Halves
    <3>3. /\ Rows(list, 3) \in Seq(Seq(Cells)) /\ Len(Rows(list, 3)) = n
          /\ \A i \in 1..n : Rows(list, 3)[i] = SubSeq(list, (i - 1) * 3 + 1, i * 3)
      BY <1>1, <3>2, RowsFacts
    <3>4. ASSUME NEW i \in 1..n PROVE Rows(list, 3)[i] = Latest[i]
      <4>1. /\ i * 3 <= Len(list) /\ log[i] \in Seq(Cells) /\ Len(log[i]) = 3
            /\ \A k \in 1..3 : list[(i - 1) * 3 + k] = log[i][k]
        BY <1>1, <1>2, <2>2, <2>3, <2>7 DEF Holds
      <4> DEFINE a == (i - 1) * 3 + 1
      <4>2. /\ a \in Nat /\ a >= 1 /\ i * 3 = a + 2 /\ a + 2 <= Len(list)
            /\ (i - 1) * 3 + 2 = a + 1 /\ (i - 1) * 3 + 3 = a + 2
        BY <1>1, <4>1
      <4>3. list[a] = log[i][1] /\ list[a + 1] = log[i][2] /\ list[a + 2] = log[i][3]
        BY <4>1, <4>2
      <4> HIDE DEF a
      <4>4. SubSeq(list, a, a + 2) = log[i]
        <5>1. SubSeq(list, a, a + 2) \in Seq(Cells) /\ Len(SubSeq(list, a, a + 2)) = 3
          BY <1>1, <4>2
        <5>2. /\ SubSeq(list, a, a + 2)[1] = list[a] /\ SubSeq(list, a, a + 2)[2] = list[a + 1]
              /\ SubSeq(list, a, a + 2)[3] = list[a + 2]
          BY <1>1, <4>2
        <5> DEFINE b == SubSeq(list, a, a + 2)
        <5>5. /\ b \in Seq(Cells) /\ Len(b) = 3
              /\ b[1] = log[i][1] /\ b[2] = log[i][2] /\ b[3] = log[i][3]
          BY <4>3, <5>1, <5>2
        <5> HIDE DEF b
        <5>3. \A k \in 1..Len(b) : b[k] = log[i][k]
          <6>1. \A k \in 1..3 : k = 1 \/ k = 2 \/ k = 3
            OBVIOUS
          <6> QED
            BY <5>5, <6>1
        <5>4. b = log[i]
          BY <4>1, <5>5, <5>3, SameSequence
        <5> QED
          BY <5>4 DEF b
      <4> QED
        BY <1>4, <3>3, <4>2, <4>4 DEF a
    <3> QED
      BY <1>4, <2>7, <3>3, <3>4
  <2> QED
    BY <2>1, <2>6, <2>7
<1> QED
  BY <1>5, <1>6 DEF ListShowsLatest, w

-----------------------------------------------------------------------------
(* The list while the tool runs. *)

LEMMA ListParam ==
  ASSUME NEW new \in Progress, NEW id \in Params, NEW changed, WindowTyped,
         digits \in VALUE_SIZES, ListInv(new.display, new.log)
  PROVE  LET next == update_param(new, id, changed)
         IN /\ next \in Progress /\ ListInv(next.display, next.log)
            /\ next.log = IF IsListed(new, id, changed) THEN <<ChangeOf(new)>> \o new.log
                          ELSE new.log
<1> DEFINE d == new.display
           c == ChangeOf(new)
           l == IF IsListed(new, id, changed) THEN <<c>> \o new.log ELSE new.log
<1>1. PICK d1, d2, d3 \in Displays :
        /\ ListStep(new, d1, id, changed)
        /\ d2 = update_section(d1, id, Size(id))
        /\ d3 = Publish(d2, id)
        /\ update_param(new, id, changed) = [display |-> d3, log |-> l]
  BY ParamSteps
<1>2. d \in Displays /\ new.log \in Seq(Seq(Cells))
  BY DEF Progress
<1>3. c \in Changes /\ Len(c) = IF Wide(d) THEN 3 ELSE 2
  <2>1. Len(new.log) + 1 \in Nat
    BY <1>2
  <2>2. Wide(d) \in BOOLEAN
    BY DEF Wide
  <2> QED
    BY <2>1, <2>2, ChangeFacts DEF ChangeOf
<1>4. WideInTime(d, c)
  BY <1>3 DEF WideInTime, Wide, ListInv
<1>5. l \in Seq(Seq(Cells))
  <2>1. c \in Seq(Cells)
    BY <1>3 DEF Changes
  <2> HIDE DEF c
  <2> QED
    BY <1>2, <2>1
<1> HIDE DEF c
<1>6. ListInv(d1, l)
  <2>1. CASE d.refresh /\ d1 = update_changes(d, c, TRUE)
    <3>1. ~IsListed(new, id, changed)
      BY <2>1 DEF IsListed
    <3> HIDE DEF d
    <3>2. l = new.log
      BY <3>1
    <3> HIDE DEF l
    <3> QED
      BY <1>2, <1>3, <2>1, <3>2, ListAgain DEF d
  <2>2. CASE IsListed(new, id, changed) /\ d1 = update_changes(d, c, FALSE)
    <3>1. l = <<c>> \o new.log
      BY <2>2
    <3> HIDE DEF l
    <3> QED
      BY <1>2, <1>3, <1>4, <2>2, <3>1, ListGrows
  <2>3. CASE ~IsListed(new, id, changed) /\ d1 = d
    BY <2>3
  <2> QED
    BY <1>1, <2>1, <2>2, <2>3 DEF ListStep, c
<1>11. l = IF IsListed(new, id, changed) THEN <<ChangeOf(new)>> \o new.log ELSE new.log
  BY DEF c
<1> HIDE DEF l, d
<1>7. SameList(d1, d2)
  <2>1. Size(id) \in Nat
    BY SizeOfValue
  <2> QED
    BY <1>1, <2>1, SectionUpdated
<1>8. SameList(d2, d3)
  BY <1>1, Published
<1>9. ListInv(d3, l)
  BY <1>6, <1>7, <1>8, ListSame
<1>10. [display |-> d3, log |-> l] \in Progress
  BY <1>5 DEF Progress
<1> QED
  BY <1>1, <1>9, <1>10, <1>11

ChangedOn(p, changed) == changed \subseteq {<<p, i>> : i \in 1..Len(Page[p])}

LEMMA ChangedCounted ==
  ASSUME NEW p \in 1..10, NEW changed, ChangedOn(p, changed)
  PROVE  /\ IsFiniteSet(changed) /\ Cardinality(changed) \in Nat
         /\ Cardinality({id \in changed : id[2] <= 0}) = 0
         /\ {id \in changed : id[2] <= Len(Page[p])} = changed
         /\ \A i \in 1..Len(Page[p]) :
              /\ Cardinality({id \in changed : id[2] <= i - 1}) \in Nat
              /\ Cardinality({id \in changed : id[2] <= i}) =
                   Cardinality({id \in changed : id[2] <= i - 1})
                   + (IF <<p, i>> \in changed THEN 1 ELSE 0)
<1> DEFINE n == Len(Page[p])
           Taken(i) == {id \in changed : id[2] <= i}
<1>1. n \in Nat
  BY PageFacts
<1>2. IsFiniteSet(changed)
  <2>1. IsFiniteSet(1..n)
    BY <1>1, FS_Interval
  <2>2. IsFiniteSet({<<p, i>> : i \in 1..n})
    <3> DEFINE f == [i \in 1..n |-> <<p, i>>]
    <3>1. f \in Surjection(1..n, {<<p, i>> : i \in 1..n})
      BY DEF Surjection
    <3> HIDE DEF f
    <3> QED
      BY <2>1, <3>1, FS_Surjection
  <2> QED
    BY <2>2, FS_Subset DEF ChangedOn
<1>3. \A id \in changed : id[2] \in 1..n /\ id = <<p, id[2]>>
  BY DEF ChangedOn
<1>4. Taken(0) = {}
  BY <1>1, <1>3
<1>5. Taken(n) = changed
  BY <1>1, <1>3
<1>6. \A i \in Int : IsFiniteSet(Taken(i)) /\ Cardinality(Taken(i)) \in Nat
  <2>1. ASSUME NEW i \in Int PROVE IsFiniteSet(Taken(i)) /\ Cardinality(Taken(i)) \in Nat
    <3>1. Taken(i) \subseteq changed
      OBVIOUS
    <3> HIDE DEF Taken
    <3> QED
      BY <1>2, <3>1, FS_Subset, FS_CardinalityType
  <2> QED
    BY <2>1
<1>7. ASSUME NEW i \in 1..n
      PROVE  /\ Cardinality(Taken(i - 1)) \in Nat
             /\ Cardinality(Taken(i)) =
                  Cardinality(Taken(i - 1)) + (IF <<p, i>> \in changed THEN 1 ELSE 0)
  <2>1. CASE <<p, i>> \in changed
    <3>1. Taken(i) = Taken(i - 1) \union {<<p, i>>}
      BY <1>1, <1>3, <2>1
    <3>2. <<p, i>> \notin Taken(i - 1)
      BY <1>1
    <3> HIDE DEF Taken
    <3>3. i - 1 \in Int
      BY <1>1
    <3>4. IsFiniteSet(Taken(i - 1)) /\ Cardinality(Taken(i - 1)) \in Nat
      BY <1>6, <3>3
    <3>5. Cardinality(Taken(i)) = Cardinality(Taken(i - 1)) + 1
      BY <3>1, <3>2, <3>4, FS_AddElement
    <3> QED
      BY <2>1, <3>4, <3>5
  <2>2. CASE <<p, i>> \notin changed
    <3>1. Taken(i) = Taken(i - 1)
      BY <1>1, <1>3, <2>2
    <3> HIDE DEF Taken
    <3>3. i - 1 \in Int
      BY <1>1
    <3>4. Cardinality(Taken(i - 1)) \in Nat
      BY <1>6, <3>3
    <3> QED
      BY <2>2, <3>1, <3>4
  <2> QED
    BY <2>1, <2>2
<1>8. Cardinality(Taken(0)) = 0
  BY <1>4, FS_EmptySet
<1> QED
  BY <1>2, <1>5, <1>7, <1>8, FS_CardinalityType

-----------------------------------------------------------------------------
(* Counting the parameters of a section in the order of the pages. *)

Before(s, p, i) ==
  {id \in Params : Section(id) = s /\ (id[1] < p \/ (id[1] = p /\ id[2] <= i))}
Count(s, p, i) == Cardinality(Before(s, p, i))
Total(s) == Cardinality(ParamsOf[s])
\* The place of a parameter in its section, from 1 on.
Place(id) == Count(Section(id), id[1], id[2])

LEMMA ParamsFinite == IsFiniteSet(Params)
<1> DEFINE OnPage(p) == {<<p, i>> : i \in DOMAIN Page[p]}
           all == {OnPage(p) : p \in DOMAIN Page}
<1>1. ASSUME NEW p \in DOMAIN Page PROVE IsFiniteSet(OnPage(p))
  <2>1. DOMAIN Page = 1..10
    BY DEF Page
  <2>2. DOMAIN Page[p] = 1..Len(Page[p]) /\ Len(Page[p]) \in Nat
    <3>1. Page[p] \in Seq(sections) /\ Len(Page[p]) \in Nat
      BY <2>1, PageFacts
    <3> HIDE DEF sections
    <3> QED
      BY <3>1
  <2>3. IsFiniteSet(DOMAIN Page[p])
    BY <2>2, FS_Interval
  <2> DEFINE f == [i \in DOMAIN Page[p] |-> <<p, i>>]
  <2>4. f \in Surjection(DOMAIN Page[p], OnPage(p))
    BY DEF Surjection
  <2> HIDE DEF f, OnPage
  <2> QED
    BY <2>3, <2>4, FS_Surjection
<1>2. IsFiniteSet(all)
  <2>1. IsFiniteSet(DOMAIN Page)
    <3>1. DOMAIN Page = 1..10
      BY DEF Page
    <3>2. IsFiniteSet(1..10)
      <4> DEFINE n == 10
      <4>1. n \in Int
        OBVIOUS
      <4> HIDE DEF n
      <4>2. IsFiniteSet(1..n)
        BY <4>1, FS_Interval
      <4> QED
        BY <4>2 DEF n
    <3> QED
      BY <3>1, <3>2
  <2> DEFINE f == [p \in DOMAIN Page |-> OnPage(p)]
  <2>2. f \in Surjection(DOMAIN Page, all)
    <3> HIDE DEF OnPage
    <3> QED
      BY DEF Surjection
  <2> HIDE DEF f, all
  <2> QED
    BY <2>1, <2>2, FS_Surjection
<1>3. \A S \in all : IsFiniteSet(S)
  <2> HIDE DEF OnPage
  <2> QED
    BY <1>1
<1>4. Params = UNION all
  BY DEF Params
<1> HIDE DEF all
<1> QED
  BY <1>2, <1>3, <1>4, FS_UNION

LEMMA BeforeFacts ==
  ASSUME NEW s \in sections, NEW p, NEW i
  PROVE  /\ IsFiniteSet(ParamsOf[s]) /\ Total(s) \in Nat
         /\ Before(s, p, i) \subseteq ParamsOf[s]
         /\ IsFiniteSet(Before(s, p, i))
         /\ Count(s, p, i) \in Nat /\ Count(s, p, i) <= Total(s)
<1>1. ParamsOf[s] = {id \in Params : Section(id) = s}
  BY DEF ParamsOf
<1>2. IsFiniteSet(ParamsOf[s])
  BY <1>1, ParamsFinite, FS_Subset
<1>3. Before(s, p, i) \subseteq ParamsOf[s]
  BY <1>1 DEF Before
<1> QED
  BY <1>2, <1>3, FS_Subset, FS_CardinalityType DEF Total, Count

\* One parameter further, of this section or of another.
LEMMA CountNext ==
  ASSUME NEW s \in sections, NEW p \in 1..10, NEW i \in 1..Len(Page[p])
  PROVE  /\ Section(<<p, i>>) = s =>
              /\ Before(s, p, i) = Before(s, p, i - 1) \union {<<p, i>>}
              /\ Count(s, p, i) = Count(s, p, i - 1) + 1
              /\ Count(s, p, i - 1) < Total(s)
         /\ Section(<<p, i>>) # s =>
              /\ Before(s, p, i) = Before(s, p, i - 1)
              /\ Count(s, p, i) = Count(s, p, i - 1)
<1> DEFINE id == <<p, i>>
<1>1. id \in Params /\ i \in Int
  <2>1. Len(Page[p]) \in Nat
    BY PageFacts
  <2> QED
    BY <2>1, ParamFacts
<1>2. \A x \in Params : x[1] \in 1..10 /\ x[2] \in Int /\ x = <<x[1], x[2]>>
  <2>1. ASSUME NEW x \in Params PROVE x[1] \in 1..10 /\ x[2] \in Int /\ x = <<x[1], x[2]>>
    <3>1. x[1] \in 1..10 /\ x[2] \in 1..Len(Page[x[1]]) /\ x = <<x[1], x[2]>>
      BY ParamFacts
    <3>2. Len(Page[x[1]]) \in Nat
      BY <3>1, PageFacts
    <3> QED
      BY <3>1, <3>2
  <2> QED
    BY <2>1
<1>3. ASSUME NEW x \in Params
      PROVE  x[1] < p \/ (x[1] = p /\ x[2] <= i)
               <=> (x[1] < p \/ (x[1] = p /\ x[2] <= i - 1)) \/ x = id
  <2>1. x[1] \in Int /\ x[2] \in Int /\ x = <<x[1], x[2]>>
    BY <1>2
  <2>2. x = id <=> x[1] = p /\ x[2] = i
    BY <2>1
  <2> HIDE DEF id
  <2> QED
    BY <1>1, <2>1, <2>2
<1>4. id \notin Before(s, p, i - 1)
  BY <1>1 DEF Before
<1>5. CASE Section(id) = s
  <2>1. Before(s, p, i) = Before(s, p, i - 1) \union {id}
    <3> HIDE DEF id
    <3> QED
      BY <1>1, <1>3, <1>5 DEF Before
  <2> HIDE DEF id
  <2>2. Count(s, p, i) = Count(s, p, i - 1) + 1
    BY <1>4, <2>1, BeforeFacts, FS_AddElement DEF Count
  <2>3. Count(s, p, i) <= Total(s) /\ Count(s, p, i - 1) \in Nat /\ Total(s) \in Nat
    BY BeforeFacts
  <2> QED
    BY <1>5, <2>1, <2>2, <2>3 DEF id
<1>6. CASE Section(id) # s
  <2>1. Before(s, p, i) = Before(s, p, i - 1)
    <3> HIDE DEF id
    <3> QED
      BY <1>1, <1>3, <1>6 DEF Before
  <2> QED
    BY <1>6, <2>1 DEF Count
<1> QED
  BY <1>5, <1>6

\* From page to page.
LEMMA CountPages ==
  ASSUME NEW s \in sections
  PROVE  /\ Before(s, 1, 0) = {} /\ Count(s, 1, 0) = 0
         /\ \A p \in 1..9 : Before(s, p + 1, 0) = Before(s, p, Len(Page[p]))
         /\ \A p \in 1..9 : Count(s, p + 1, 0) = Count(s, p, Len(Page[p]))
         /\ Before(s, 10, Len(Page[10])) = ParamsOf[s]
         /\ Count(s, 10, Len(Page[10])) = Total(s)
<1>1. \A x \in Params : x[1] \in 1..10 /\ x[2] \in 1..Len(Page[x[1]])
  BY ParamFacts
<1>2. \A p \in 1..10 : Len(Page[p]) \in Nat
  BY PageFacts
<1>3. Before(s, 1, 0) = {}
  <2>1. ASSUME NEW x \in Params, x[1] < 1 \/ (x[1] = 1 /\ x[2] <= 0) PROVE FALSE
    <3>1. x[1] \in 1..10 /\ x[2] \in 1..Len(Page[x[1]]) /\ Len(Page[x[1]]) \in Nat
      BY <1>1, <1>2
    <3>2. x[1] \in Int /\ x[2] \in Int /\ 1 <= x[1] /\ 1 <= x[2]
      BY <3>1
    <3> QED
      BY <2>1, <3>2
  <2> QED
    BY <2>1 DEF Before
<1>4. ASSUME NEW p \in 1..9 PROVE Before(s, p + 1, 0) = Before(s, p, Len(Page[p]))
  <2>1. ASSUME NEW x \in Params
        PROVE  x[1] < p + 1 \/ (x[1] = p + 1 /\ x[2] <= 0)
                 <=> x[1] < p \/ (x[1] = p /\ x[2] <= Len(Page[p]))
    <3>1. x[1] \in 1..10 /\ x[2] \in 1..Len(Page[x[1]]) /\ Len(Page[x[1]]) \in Nat
      BY <1>1, <1>2
    <3>2. x[1] = p => x[2] <= Len(Page[p])
      BY <3>1
    <3>3. ~(x[2] <= 0) /\ x[2] \in Int /\ x[1] \in Int
      BY <3>1
    <3> QED
      BY <3>2, <3>3
  <2> QED
    BY <2>1 DEF Before
<1>5. Before(s, 10, Len(Page[10])) = ParamsOf[s]
  <2>1. ASSUME NEW x \in Params PROVE x[1] < 10 \/ (x[1] = 10 /\ x[2] <= Len(Page[10]))
    <3>1. x[1] \in 1..10 /\ x[2] \in 1..Len(Page[x[1]]) /\ Len(Page[x[1]]) \in Nat
      BY <1>1, <1>2
    <3> QED
      BY <3>1
  <2> QED
    BY <2>1 DEF Before, ParamsOf
<1> QED
  BY <1>3, <1>4, <1>5, FS_EmptySet DEF Count, Total

\* Places follow the order of the pages.
LEMMA PlacesInOrder ==
  ASSUME NEW a \in Params, NEW b \in Params, Section(a) = Section(b)
  PROVE  /\ Earlier(a, b) => Place(a) < Place(b)
         /\ Place(a) < Place(b) => Earlier(a, b)
         /\ Place(a) = Place(b) => a = b
<1>1. \A x \in Params : /\ x[1] \in Int /\ x[2] \in Int /\ x = <<x[1], x[2]>>
                        /\ Section(x) \in sections
  <2>1. ASSUME NEW x \in Params
        PROVE  x[1] \in Int /\ x[2] \in Int /\ x = <<x[1], x[2]>> /\ Section(x) \in sections
    <3>1. /\ x[1] \in 1..10 /\ x[2] \in 1..Len(Page[x[1]]) /\ x = <<x[1], x[2]>>
          /\ Section(x) \in sections
      BY ParamFacts
    <3>2. Len(Page[x[1]]) \in Nat
      BY <3>1, PageFacts
    <3> QED
      BY <3>1, <3>2
  <2> QED
    BY <2>1
<1>2. ASSUME NEW x \in Params, NEW y \in Params, Section(x) = Section(y), Earlier(x, y)
      PROVE  Place(x) < Place(y)
  <2> DEFINE X == Before(Section(x), x[1], x[2])
             Y == Before(Section(y), y[1], y[2])
  <2>1. X \subseteq Y /\ y \in Y /\ y \notin X
    BY <1>1, <1>2 DEF Before, Earlier
  <2>2. IsFiniteSet(Y) /\ Cardinality(Y) \in Nat /\ Cardinality(X) \in Nat
    BY <1>1, BeforeFacts DEF Count
  <2>3. Cardinality(X) <= Cardinality(Y) /\ Cardinality(X) # Cardinality(Y)
    <3> HIDE DEF X, Y
    <3> QED
      BY <2>1, <2>2, FS_Subset
  <2> QED
    BY <2>2, <2>3 DEF Place, Count
<1>3. a = b \/ Earlier(a, b) \/ Earlier(b, a)
  BY <1>1 DEF Earlier
<1>4. Place(a) \in Nat /\ Place(b) \in Nat
  BY <1>1, BeforeFacts DEF Place
<1> QED
  BY <1>2, <1>3, <1>4

-----------------------------------------------------------------------------
(* Loading the sections and going round in them. *)

Ordered(list) == \A k \in 1..Len(list) : Place(list[k]) = k
\* The parameters up to the i-th of page p have been loaded, perhaps more than once.
Loading(d, s, p, i) ==
  /\ d.place[s] = NOWHERE /\ d.param_index[s] = -1
  /\ d.params[s] \in Seq(ParamsOf[s])
  /\ Before(s, p, i) \subseteq ToSet(d.params[s])
  /\ Count(s, p, i) <= Len(d.params[s])
  /\ Len(d.params[s]) = Count(s, p, i) => Ordered(d.params[s])
\* They have been shown in this round, if the section is on display.
Loaded(d, s, p, i) ==
  /\ d.params[s] \in Seq(ParamsOf[s])
  /\ ToSet(d.params[s]) = ParamsOf[s]
  /\ Total(s) <= Len(d.params[s])
  /\ Len(d.params[s]) = Total(s) => Ordered(d.params[s])
  /\ d.param_index[s] \in -1..Len(d.params[s])
  /\ d.param_index[s] = -1 =>
       d.place[s] = NOWHERE /\ (PRESENT \in options[s] => Count(s, p, i) \in {0, Total(s)})
  /\ OnDisplay(d, s) /\ Len(d.params[s]) = Total(s) =>
       d.param_index[s] = Count(s, p, i) \/ (d.param_index[s] = Total(s) /\ Count(s, p, i) = 0)
  /\ s \in d.mislabelled => Len(d.params[s]) > Total(s)
LoadInv(d, p, i) ==
  /\ ~d.finished_loading => d.mislabelled = {} /\ \A s \in sections : Loading(d, s, p, i)
  /\ d.finished_loading => \A s \in sections : Loaded(d, s, p, i)

SameSections(d, e) ==
  /\ e.params = d.params /\ e.place = d.place /\ e.param_index = d.param_index
  /\ e.finished_loading = d.finished_loading /\ e.mislabelled = d.mislabelled

LEMMA LoadSame ==
  ASSUME NEW d, NEW e, NEW p, NEW i, LoadInv(d, p, i), SameSections(d, e)
  PROVE  LoadInv(e, p, i)
BY DEF LoadInv, SameSections, Loading, Loaded, OnDisplay

LEMMA NotNowhere ==
  ASSUME NEW d, NEW s, d.place[s] = NOWHERE
  PROVE  ~OnDisplay(d, s)
BY DEF OnDisplay, NOWHERE

\* A parameter is appended to its section, once a pass.
LEMMA LoadingNext ==
  ASSUME NEW d \in Displays, NEW e \in Displays, NEW s \in sections,
         NEW p \in 1..10, NEW i \in 1..Len(Page[p]),
         Loading(d, s, p, i - 1), Appends(d, e, <<p, i>>)
  PROVE  Loading(e, s, p, i)
<1> DEFINE id == <<p, i>>
           list == d.params[s]
<1>1. /\ e.params = [d.params EXCEPT ![Section(id)] = Append(@, id)]
      /\ e.place = d.place /\ e.param_index = d.param_index
  BY DEF Appends, SameLayout
<1>2. d.params \in [sections -> Seq(Params)]
  BY DisplayFields
<1>3. id \in Params
  BY ParamFacts
<1>4. list \in Seq(ParamsOf[s]) /\ Len(list) \in Nat
  BY DEF Loading
<1>5. CASE Section(id) = s
  <2> DEFINE new == Append(list, id)
  <2>1. e.params[s] = new
    <3> HIDE DEF id
    <3> QED
      BY <1>1, <1>2, <1>5
  <2>2. /\ Before(s, p, i) = Before(s, p, i - 1) \union {id}
        /\ Count(s, p, i) = Count(s, p, i - 1) + 1
    BY <1>5, CountNext
  <2>3. id \in ParamsOf[s]
    BY <1>3, <1>5 DEF ParamsOf
  <2> HIDE DEF id
  <2>4. /\ new \in Seq(ParamsOf[s]) /\ Len(new) = Len(list) + 1 /\ new[Len(list) + 1] = id
        /\ \A k \in 1..Len(list) : new[k] = list[k]
    <3> HIDE DEF list
    <3> QED
      BY <1>4, <2>3
  <2>5. Count(s, p, i - 1) \in Nat
    BY BeforeFacts
  <2>6. Before(s, p, i) \subseteq ToSet(new)
    <3>1. \A x \in ToSet(list) : x \in ToSet(new)
      <4> SUFFICES ASSUME NEW x \in ToSet(list) PROVE x \in ToSet(new)
        OBVIOUS
      <4>1. PICK k \in 1..Len(list) : x = list[k]
        BY <1>4 DEF ToSet
      <4>2. k \in DOMAIN new /\ new[k] = x
        BY <1>4, <2>4, <4>1
      <4> HIDE DEF new
      <4> QED
        BY <4>2 DEF ToSet
    <3>2. id \in ToSet(new)
      <4>1. Len(list) + 1 \in DOMAIN new
        BY <1>4, <2>4
      <4> HIDE DEF new
      <4> QED
        BY <2>4, <4>1 DEF ToSet
    <3>3. Before(s, p, i - 1) \subseteq ToSet(list)
      BY DEF Loading
    <3> HIDE DEF new, list
    <3> QED
      BY <2>2, <3>1, <3>2, <3>3
  <2>7. ASSUME Len(new) = Count(s, p, i) PROVE Ordered(new)
    <3>1. Len(list) = Count(s, p, i - 1)
      BY <1>4, <2>2, <2>4, <2>5, <2>7
    <3>2. Ordered(list)
      BY <3>1 DEF Loading
    <3>3. Place(id) = Len(list) + 1
      <4>1. id[1] = p /\ id[2] = i
        BY DEF id
      <4> QED
        BY <1>5, <2>2, <3>1, <4>1 DEF Place
    <3> HIDE DEF new, list
    <3>4. ASSUME NEW k \in 1..Len(new) PROVE Place(new[k]) = k
      <4>1. CASE k \in 1..Len(list)
        BY <2>4, <3>2, <4>1 DEF Ordered
      <4>2. CASE k = Len(list) + 1
        BY <2>4, <3>3, <4>2
      <4> QED
        BY <1>4, <2>4, <4>1, <4>2
    <3> QED
      BY <3>4 DEF Ordered
  <2>8. Count(s, p, i) <= Len(new)
    <3>1. Count(s, p, i - 1) <= Len(list)
      BY DEF Loading
    <3> HIDE DEF new, list
    <3> QED
      BY <1>4, <2>2, <2>4, <2>5, <3>1
  <2> HIDE DEF new
  <2> QED
    BY <1>1, <2>1, <2>4, <2>6, <2>7, <2>8 DEF Loading
<1>6. CASE Section(id) # s
  <2>1. e.params[s] = list
    <3> HIDE DEF id
    <3> QED
      BY <1>1, <1>2, <1>6
  <2>2. Before(s, p, i) = Before(s, p, i - 1) /\ Count(s, p, i) = Count(s, p, i - 1)
    BY <1>6, CountNext
  <2> QED
    BY <1>1, <2>1, <2>2 DEF Loading
<1> QED
  BY <1>5, <1>6

\* The label a value belongs to is the next one.
LEMMA NextLabel ==
  ASSUME NEW d \in Displays, NEW p \in 1..10, NEW i \in 1..Len(Page[p]),
         Loaded(d, Section(<<p, i>>), p, i - 1),
         Len(d.params[Section(<<p, i>>)]) = Total(Section(<<p, i>>))
  PROVE  LET s == Section(<<p, i>>)
         IN d.params[s][Count(s, p, i - 1) + 1] = <<p, i>>
<1> DEFINE id == <<p, i>>
           s == Section(id)
           c == Count(s, p, i - 1)
           list == d.params[s]
<1>1. id \in Params /\ s \in sections /\ id[1] = p /\ id[2] = i
  <2>1. id \in Params
    BY ParamFacts
  <2>2. s \in sections
    <3> HIDE DEF id
    <3> QED
      BY <2>1, ParamFacts
  <2> QED
    BY <2>1, <2>2
<1>2. c \in Nat /\ c < Total(s) /\ Count(s, p, i) = c + 1
  BY <1>1, BeforeFacts, CountNext
<1>3. Place(id) = c + 1
  BY <1>1, <1>2 DEF Place
<1>4. list \in Seq(ParamsOf[s]) /\ Ordered(list) /\ Len(list) = Total(s)
  BY DEF Loaded
<1> HIDE DEF list, c, s, id
<1>5. c + 1 \in 1..Len(list)
  BY <1>2, <1>4
<1>6. list[c + 1] \in ParamsOf[s] /\ Place(list[c + 1]) = c + 1
  BY <1>4, <1>5 DEF Ordered
<1>7. list[c + 1] \in Params /\ Section(list[c + 1]) = s
  BY <1>1, <1>6 DEF ParamsOf
<1>8. list[c + 1] = id
  BY <1>1, <1>3, <1>6, <1>7, PlacesInOrder DEF s
<1> QED
  BY <1>8 DEF list, c, s, id

\* A parameter of a loaded section: the section is placed and the value shown.
LEMMA LoadedNext ==
  ASSUME NEW d1 \in Displays, NEW d2 \in Displays, NEW d3 \in Displays,
         NEW p \in 1..10, NEW i \in 1..Len(Page[p]), NEW size,
         d1.finished_loading, Loaded(d1, Section(<<p, i>>), p, i - 1),
         \/ Places1(d1, d2, Section(<<p, i>>), size)
         \/ /\ ~(d1.param_index[Section(<<p, i>>)] < 0 /\ PRESENT \in options[Section(<<p, i>>)])
            /\ d2 = d1,
         d2.mislabelled = d1.mislabelled,
         d3.params = d2.params, d3.place = d2.place,
         Shows(d2, d3, <<p, i>>) \/ (d3 = d2 /\ ~OnDisplay(d2, Section(<<p, i>>)))
  PROVE  Loaded(d3, Section(<<p, i>>), p, i)
<1> DEFINE id == <<p, i>>
           s == Section(id)
           c == Count(s, p, i - 1)
           list == d1.params[s]
           n == Len(list)
<1>1. s \in sections
  <2>1. id \in Params
    BY ParamFacts
  <2> HIDE DEF id
  <2> QED
    BY <2>1, ParamFacts
<1>2. c \in Nat /\ c < Total(s) /\ Count(s, p, i) = c + 1 /\ Total(s) \in Nat
  BY <1>1, BeforeFacts, CountNext
<1>3. /\ list \in Seq(ParamsOf[s]) /\ n \in Nat
      /\ ToSet(list) = ParamsOf[s] /\ Total(s) <= n
      /\ n = Total(s) => Ordered(list)
      /\ d1.param_index[s] \in -1..n
      /\ d1.param_index[s] = -1 =>
           d1.place[s] = NOWHERE /\ (PRESENT \in options[s] => c \in {0, Total(s)})
      /\ OnDisplay(d1, s) /\ n = Total(s) =>
           d1.param_index[s] = c \/ (d1.param_index[s] = Total(s) /\ c = 0)
      /\ s \in d1.mislabelled => n > Total(s)
  BY DEF Loaded
<1>4. n = Total(s) => list[c + 1] = id
  BY NextLabel
<1>5. d2.params = d1.params /\ d3.params[s] = list /\ Height(d2, s) = n
  BY DEF Places1, Height
<1>6. /\ d2.param_index \in [sections -> Int] /\ d3.param_index \in [sections -> Int]
  BY DisplayFields
\* The row the value goes to.
<1>7. /\ d2.param_index[s] \in -1..n
      /\ OnDisplay(d2, s) => d2.param_index[s] \in 0..n
      /\ d2.param_index[s] = -1 => d2.place[s] = NOWHERE /\ PRESENT \notin options[s]
      /\ OnDisplay(d2, s) /\ n = Total(s) =>
           d2.param_index[s] = c \/ (d2.param_index[s] = Total(s) /\ c = 0)
  <2>1. CASE Places1(d1, d2, s, size)
    <3>1. d2.param_index = [d1.param_index EXCEPT ![s] = 0] /\ d1.param_index[s] < 0
          /\ PRESENT \in options[s]
      BY <2>1 DEF Places1
    <3>2. d1.param_index \in [sections -> Int]
      BY DisplayFields
    <3> HIDE DEF s, n, c, list
    <3>3. d2.param_index[s] = 0
      BY <1>1, <3>1, <3>2
    <3>4. d1.param_index[s] = -1
      BY <1>3, <3>1
    <3>5. c = 0
      BY <1>2, <1>3, <3>1, <3>4
    <3> QED
      BY <1>3, <3>3, <3>5
  <2>2. CASE ~(d1.param_index[s] < 0 /\ PRESENT \in options[s]) /\ d2 = d1
    <3>1. OnDisplay(d1, s) => d1.place[s] # NOWHERE
      BY NotNowhere
    <3> HIDE DEF s, n, c, list
    <3> QED
      BY <1>3, <2>2, <3>1
  <2> QED
    BY <2>1, <2>2
<1>8. CASE Shows(d2, d3, id)
  <2> DEFINE row == Row(d2, s)
  <2>1. /\ OnDisplay(d2, s)
        /\ d3.param_index = [d2.param_index EXCEPT ![s] = row + 1]
        /\ d3.mislabelled = IF d2.params[s][row + 1] = id THEN d2.mislabelled
                           ELSE d2.mislabelled \union {s}
    BY <1>8 DEF Shows
  <2>2. /\ row \in Nat /\ row + 1 \in 1..n
        /\ n = Total(s) => row = c
    <3>1. row = IF d2.param_index[s] = n THEN 0 ELSE d2.param_index[s]
      BY <1>5 DEF Row
    <3> HIDE DEF s, n, c, list, row
    <3>2. d2.param_index[s] \in 0..n
      BY <1>7, <2>1
    <3> DEFINE k == d2.param_index[s]
               t == Total(s)
    <3>3. row = (IF k = n THEN 0 ELSE k) /\ k \in 0..n
      BY <3>1, <3>2
    <3>4. c \in Nat /\ t \in Nat /\ n \in Nat /\ c < t /\ t <= n
      BY <1>2, <1>3
    <3>5. n = t => k = c \/ (k = t /\ c = 0)
      BY <1>7, <2>1
    <3> HIDE DEF k, t
    <3>6. row \in Nat /\ row + 1 \in 1..n
      BY <3>3, <3>4
    <3>7. n = t => row = c
      BY <3>3, <3>4, <3>5
    <3> QED
      BY <3>6, <3>7 DEF t
  <2>3. d2.params[s] = list
    BY <1>5
  <2> HIDE DEF s, n, c, list, row, id
  <2>4. d3.param_index[s] = row + 1
    BY <1>1, <1>6, <2>1
  <2>5. s \in d3.mislabelled => n > Total(s)
    <3>1. CASE n = Total(s)
      <4>1. d2.params[s][row + 1] = id
        BY <1>4, <2>2, <2>3, <3>1
      <4>2. d3.mislabelled = d1.mislabelled
        BY <2>1, <4>1
      <4> QED
        BY <1>3, <4>2
    <3>2. CASE n # Total(s)
      BY <1>2, <1>3, <3>2
    <3> QED
      BY <3>1, <3>2
  <2>6. /\ d3.param_index[s] \in -1..n /\ d3.param_index[s] # -1
        /\ n = Total(s) => d3.param_index[s] = Count(s, p, i)
    BY <1>2, <1>3, <2>2, <2>4
  <2>7. Loaded(d3, s, p, i)
    BY <1>3, <1>5, <2>5, <2>6 DEF Loaded, n
  <2> QED
    BY <2>7 DEF s, id
<1>9. CASE d3 = d2 /\ ~OnDisplay(d2, s)
  <2> HIDE DEF s, n, c, list, id
  <2>1. Loaded(d3, s, p, i)
    BY <1>3, <1>5, <1>7, <1>9 DEF Loaded, n
  <2> QED
    BY <2>1 DEF s, id
<1> QED
  BY <1>8, <1>9

\* A parameter of another section.
LEMMA LoadedOther ==
  ASSUME NEW d \in Displays, NEW e \in Displays, NEW s \in sections,
         NEW p \in 1..10, NEW i \in 1..Len(Page[p]), Section(<<p, i>>) # s,
         Loaded(d, s, p, i - 1),
         e.params = d.params, e.place[s] = d.place[s], e.param_index[s] = d.param_index[s],
         s \in e.mislabelled => s \in d.mislabelled
  PROVE  Loaded(e, s, p, i)
<1>1. Count(s, p, i) = Count(s, p, i - 1)
  BY CountNext
<1> QED
  BY <1>1 DEF Loaded, OnDisplay

LEMMA SectionsNext ==
  ASSUME NEW d1 \in Displays, NEW p \in 1..10, NEW i \in 1..Len(Page[p]), NEW size \in Nat,
         WindowTyped, LoadInv(d1, p, i - 1)
  PROVE  LoadInv(Publish(update_section(d1, <<p, i>>, size), <<p, i>>), p, i)
<1> DEFINE id == <<p, i>>
           d2 == update_section(d1, id, size)
           d3 == Publish(d2, id)
<1>1. id \in Params
  BY ParamFacts
<1>2. Section(id) \in sections
  <2> HIDE DEF id
  <2> QED
    BY <1>1, ParamFacts
<1>3. /\ d2 \in Displays
      /\ d2.finished_loading = d1.finished_loading /\ d2.mislabelled = d1.mislabelled
      /\ \/ Appends(d1, d2, id)
         \/ Places1(d1, d2, Section(id), size)
         \/ /\ d1.finished_loading
            /\ ~(d1.param_index[Section(id)] < 0 /\ PRESENT \in options[Section(id)])
            /\ d2 = d1
  <2> HIDE DEF id
  <2> QED
    BY <1>1, SectionUpdated
<1>4. /\ d3 \in Displays
      /\ d3.params = d2.params /\ d3.place = d2.place
      /\ d3.finished_loading = d2.finished_loading
      /\ \/ Shows(d2, d3, id)
         \/ d3 = d2 /\ ~(d2.finished_loading /\ OnDisplay(d2, Section(id)))
  <2> HIDE DEF id, d2
  <2> QED
    BY <1>1, <1>3, Published
<1> HIDE DEF d2, d3
<1>5. CASE ~d1.finished_loading
  <2>1. Appends(d1, d2, id)
    BY <1>3, <1>5 DEF Places1
  <2>2. d3 = d2
    BY <1>3, <1>4, <1>5 DEF Shows
  <2>3. d3.mislabelled = {} /\ ~d3.finished_loading
    <3>1. d1.mislabelled = {}
      BY <1>5 DEF LoadInv
    <3> QED
      BY <1>3, <1>4, <1>5, <2>2, <3>1
  <2>4. ASSUME NEW s \in sections PROVE Loading(d3, s, p, i)
    <3>1. Loading(d1, s, p, i - 1)
      BY <1>5 DEF LoadInv
    <3> QED
      BY <1>3, <2>1, <2>2, <3>1, LoadingNext
  <2>5. LoadInv(d3, p, i)
    BY <2>3, <2>4 DEF LoadInv
  <2> QED
    BY <2>5 DEF d3, d2
<1>6. CASE d1.finished_loading
  <2>1. d3.finished_loading
    BY <1>3, <1>4, <1>6
  <2>2. ~Appends(d1, d2, id)
    BY <1>6 DEF Appends
  <2>3. \/ Shows(d2, d3, id)
        \/ d3 = d2 /\ ~OnDisplay(d2, Section(id))
    BY <1>3, <1>4, <1>6
  <2>4. Loaded(d3, Section(id), p, i)
    <3>1. Loaded(d1, Section(id), p, i - 1)
      BY <1>2, <1>6 DEF LoadInv
    <3> QED
      BY <1>3, <1>4, <1>6, <2>2, <2>3, <3>1, LoadedNext
  <2>5. ASSUME NEW s \in sections, s # Section(id) PROVE Loaded(d3, s, p, i)
    <3>1. Loaded(d1, s, p, i - 1)
      BY <1>6 DEF LoadInv
    <3>2. d2.params = d1.params
      BY <1>3, <2>2 DEF Places1
    <3>3. d2.place[s] = d1.place[s] /\ d2.param_index[s] = d1.param_index[s]
      <4>1. d1.place \in [sections -> Places] /\ d1.param_index \in [sections -> Int]
        BY DisplayFields
      <4> HIDE DEF id
      <4> QED
        BY <1>3, <2>2, <2>5, <4>1 DEF Places1
    <3>4. d3.param_index[s] = d2.param_index[s] /\ (s \in d3.mislabelled => s \in d2.mislabelled)
      <4>1. d2.param_index \in [sections -> Int]
        BY <1>3, DisplayFields
      <4> HIDE DEF id
      <4> QED
        BY <2>3, <2>5, <4>1 DEF Shows
    <3>5. /\ d3.params = d1.params /\ d3.place[s] = d1.place[s]
          /\ d3.param_index[s] = d1.param_index[s]
          /\ s \in d3.mislabelled => s \in d1.mislabelled
      BY <1>3, <1>4, <3>2, <3>3, <3>4
    <3> QED
      BY <1>4, <2>5, <3>1, <3>5, LoadedOther
  <2>6. LoadInv(d3, p, i)
    <3> HIDE DEF id
    <3> QED
      BY <2>1, <2>4, <2>5 DEF LoadInv
  <2> QED
    BY <2>6 DEF d3, d2
<1> QED
  BY <1>5, <1>6

\* What the list of changes leaves alone; a refresh is due no longer.
LEMMA ListStepFacts ==
  ASSUME NEW new \in Progress, NEW d1, NEW id, NEW changed,
         ListStep(new, d1, id, changed)
  PROVE  LET d == new.display
         IN /\ d1 \in Displays
            /\ SameSections(d, d1) /\ d1.last = d.last /\ d1.cleared = d.cleared
            /\ ~d1.refresh
            /\ d.refresh \/ d.width # 0 => d1.width # 0
<1> DEFINE d == new.display
           c == ChangeOf(new)
<1>1. d \in Displays /\ new.log \in Seq(Seq(Cells))
  BY DEF Progress
<1>2. c \in Changes
  <2>1. Len(new.log) + 1 \in Nat
    BY <1>1
  <2>2. Wide(d) \in BOOLEAN
    BY DEF Wide
  <2> QED
    BY <2>1, <2>2, ChangeFacts DEF ChangeOf
<1>3. Len(c) # 0
  BY <1>2 DEF Changes
<1> HIDE DEF d, c
<1>4. CASE d.refresh /\ d1 = update_changes(d, c, TRUE)
  <2>3. d1 = update_changes(d, c, TRUE)
    BY <1>4
  <2>1. /\ d1 \in Displays /\ d1.width = Len(c)
        /\ d1.params = d.params /\ d1.place = d.place /\ d1.param_index = d.param_index
        /\ d1.last = d.last /\ d1.finished_loading = d.finished_loading
        /\ d1.cleared = d.cleared /\ d1.mislabelled = d.mislabelled
    BY <1>1, <1>2, <2>3, ListUpdated
  <2>2. ~d1.refresh
    <3> DEFINE refresh == IF TRUE THEN FALSE ELSE d.refresh
    <3>1. d1.refresh = refresh
      BY <1>1, <1>2, <2>3, ListUpdated
    <3>2. refresh = FALSE
      OBVIOUS
    <3> HIDE DEF refresh
    <3>3. d1.refresh = FALSE
      BY <3>1, <3>2
    <3> QED
      BY <3>3
  <2> QED
    BY <1>3, <2>1, <2>2 DEF SameSections, d
<1>5. CASE IsListed(new, id, changed) /\ d1 = update_changes(d, c, FALSE)
  <2>1. ~d.refresh /\ d.refresh \in BOOLEAN
    BY <1>1, <1>5 DEF IsListed, d, Displays
  <2>2. /\ d1 \in Displays /\ d1.width = Len(c)
        /\ d1.params = d.params /\ d1.place = d.place /\ d1.param_index = d.param_index
        /\ d1.last = d.last /\ d1.finished_loading = d.finished_loading
        /\ d1.cleared = d.cleared /\ d1.mislabelled = d.mislabelled
    BY <1>1, <1>2, <1>5, ListUpdated
  <2>3. ~d1.refresh
    <3> DEFINE refresh == IF FALSE THEN FALSE ELSE d.refresh
    <3>1. d1.refresh = refresh
      BY <1>1, <1>2, <1>5, ListUpdated
    <3>2. refresh = d.refresh
      OBVIOUS
    <3> HIDE DEF refresh
    <3>3. d1.refresh = d.refresh
      BY <3>1, <3>2
    <3> QED
      BY <2>1, <3>3
  <2> QED
    BY <1>3, <2>2, <2>3 DEF SameSections, d
<1>6. CASE ~d.refresh /\ d1 = d
  BY <1>1, <1>6 DEF SameSections, d
<1> QED
  BY <1>4, <1>5, <1>6 DEF ListStep, d, c

-----------------------------------------------------------------------------
(* The layout. *)

Shown(d) == {s \in sections : OnDisplay(d, s)}
TallFor(d) == \A s \in sections : window_size.row >= Height(d, s) + CHANGES_HEIGHT + 2
\* A section on display is in the row of the section placed last, or above that row.
InRow(d, s) ==
  /\ d.place[s].y = d.last.y
  /\ d.place[s].x + Width[s] + 1 <= d.last.x + d.last.width
  /\ Height(d, s) <= d.last.height
AboveRow(d, s) == d.place[s].y + Height(d, s) < d.last.y
ApartIn(d, s, t) ==
  \/ d.place[s].x + Width[s] + 1 < d.place[t].x
  \/ d.place[t].x + Width[t] + 1 < d.place[s].x
  \/ d.place[s].y + Height(d, s) < d.place[t].y
  \/ d.place[t].y + Height(d, t) < d.place[s].y
Inside(d, s) ==
  /\ d.place[s].y + Height(d, s) < window_size.row
  /\ d.place[s].x > 0 => d.place[s].x + Width[s] < window_size.col
Clear(d, s) ==
  d.place[s].x >= 81 \/ d.place[s].y + Height(d, s) < window_size.row - CHANGES_HEIGHT - 1
LastInv(d) ==
  /\ d.last.x >= 0 /\ d.last.y >= -1 /\ d.last.width >= 0 /\ d.last.height >= 0
  /\ ~d.finished_loading => d.last = ORIGIN
  /\ d.last.width = 0 => d.last = ORIGIN /\ Shown(d) = {}
  /\ TallFor(d) => d.last.y >= 0
LayoutInv(d) ==
  /\ LastInv(d)
  /\ \A s \in sections : d.place[s].x >= -1 /\ d.place[s].y >= -1
  /\ d.cleared => d.refresh \/ d.width # 0
  /\ \A s \in Shown(d) : Inside(d, s) /\ (d.cleared => Clear(d, s))
  /\ TallFor(d) => /\ \A s \in Shown(d) : InRow(d, s) \/ AboveRow(d, s)
                   /\ \A s, t \in Shown(d) : s # t => ApartIn(d, s, t)

LEMMA LayoutSame ==
  ASSUME NEW d, NEW e, LayoutInv(d),
         e.params = d.params, e.place = d.place, e.last = d.last,
         e.finished_loading = d.finished_loading, e.cleared = d.cleared,
         e.cleared => e.refresh \/ e.width # 0
  PROVE  LayoutInv(e)
<1>1. /\ \A s : Height(e, s) = Height(d, s) /\ (OnDisplay(e, s) <=> OnDisplay(d, s))
      /\ Shown(e) = Shown(d)
  BY DEF Height, OnDisplay, Shown
<1>2. TallFor(e) <=> TallFor(d)
  BY <1>1 DEF TallFor
<1>3. LastInv(e)
  BY <1>1, <1>2 DEF LayoutInv, LastInv
<1>4. \A s : /\ Inside(e, s) <=> Inside(d, s)
             /\ Clear(e, s) <=> Clear(d, s)
             /\ InRow(e, s) <=> InRow(d, s)
             /\ AboveRow(e, s) <=> AboveRow(d, s)
             /\ \A t : ApartIn(e, s, t) <=> ApartIn(d, s, t)
  BY <1>1 DEF Inside, Clear, InRow, AboveRow, ApartIn
<1>5. /\ \A s \in sections : e.place[s].x >= -1 /\ e.place[s].y >= -1
      /\ \A s \in Shown(e) : Inside(e, s) /\ (e.cleared => Clear(e, s))
  BY <1>1, <1>4 DEF LayoutInv
<1>6. TallFor(e) => /\ \A s \in Shown(e) : InRow(e, s) \/ AboveRow(e, s)
                    /\ \A s, t \in Shown(e) : s # t => ApartIn(e, s, t)
  BY <1>1, <1>2, <1>4 DEF LayoutInv
<1> QED
  BY <1>3, <1>5, <1>6 DEF LayoutInv

\* Where a section may go, from where the last one is.
NoPlace(d, p) == p = [x |-> -1, y |-> -1, last |-> d.last]
Beside(d, s, p) ==
  /\ p.last = d.last /\ p.y = d.last.y
  /\ d.last.width # 0 => p.x >= d.last.x + d.last.width + PADDING
  /\ d.last.width = 0 => p.x >= 0
  /\ p.y + Height(d, s) < window_size.row
  /\ p.x > 0 => p.x + Width[s] < window_size.col
Below(d, s, p) ==
  /\ p.last = [d.last EXCEPT !.height = Height(d, s), !.width = Width[s]]
  /\ p.x >= 0 /\ p.y = d.last.y + d.last.height + PADDING
  /\ p.y + Height(d, s) < window_size.row
  /\ p.x > 0 => p.x + Width[s] < window_size.col

LEMMA NextPositionCases ==
  ASSUME NEW d \in Displays, NEW s \in sections, WindowTyped, LastInv(d)
  PROVE  LET p == NextPosition(d, s)
         IN NoPlace(d, p) \/ Beside(d, s, p) \/ Below(d, s, p)
<1> DEFINE p == NextPosition(d, s)
           last == d.last
           h == Height(d, s)
           w == Width[s]
           row == window_size.row
           col == window_size.col
           beside == col - (last.x + last.width) > w + PADDING /\ row - last.y > h
           below == row - (last.y + last.height) > h + PADDING
<1>1. /\ h \in Nat /\ w \in Nat /\ w > 0 /\ row \in Nat /\ col \in Nat
  BY SizeFacts, WindowFacts
<1>2. /\ last.x \in Nat /\ last.y \in Int /\ last.width \in Nat /\ last.height \in Nat
      /\ last.width = 0 => last = ORIGIN
  <2>1. last \in [x : Int, y : Int, width : Int, height : Int]
    BY DisplayFields
  <2> QED
    BY <2>1 DEF LastInv
<1>3. \/ beside /\ last.width = 0 /\ p = [x |-> 0, y |-> 0, last |-> last]
      \/ /\ beside /\ last.width # 0
         /\ p = [x |-> last.x + last.width + PADDING, y |-> last.y, last |-> last]
      \/ /\ ~beside /\ below
         /\ p = [x |-> 0, y |-> last.y + last.height + PADDING,
                 last |-> [last EXCEPT !.height = h, !.width = w]]
      \/ p = [x |-> -1, y |-> -1, last |-> last]
  BY DEF NextPosition
<1> HIDE DEF p
<1>4. CASE beside /\ last.width = 0 /\ p = [x |-> 0, y |-> 0, last |-> last]
  <2>1. p.x = 0 /\ p.y = 0 /\ p.last = last
    BY <1>4
  <2>2. last.y = 0
    BY <1>2, <1>4 DEF ORIGIN
  <2> HIDE DEF h, w, row, col
  <2>3. p.y + h < row
    BY <1>1, <1>4, <2>1, <2>2
  <2> QED
    BY <1>4, <2>1, <2>2, <2>3 DEF Beside, h, row, p
<1>5. CASE /\ beside /\ last.width # 0
           /\ p = [x |-> last.x + last.width + PADDING, y |-> last.y, last |-> last]
  <2>1. p.x = last.x + last.width + PADDING /\ p.y = last.y /\ p.last = last
    BY <1>5
  <2> HIDE DEF h, w, row, col, last
  <2>2. p.y + h < row /\ p.x + w < col /\ p.x >= last.x + last.width + PADDING
    BY <1>1, <1>2, <1>5, <2>1 DEF PADDING
  <2> QED
    BY <1>5, <2>1, <2>2 DEF Beside, h, row, w, col, last, p
<1>6. CASE /\ ~beside /\ below
           /\ p = [x |-> 0, y |-> last.y + last.height + PADDING,
                   last |-> [last EXCEPT !.height = h, !.width = w]]
  <2>1. p.x = 0 /\ p.y = last.y + last.height + PADDING
        /\ p.last = [last EXCEPT !.height = h, !.width = w]
    BY <1>6
  <2> HIDE DEF h, w, row, col, last
  <2>2. p.y + h < row
    BY <1>1, <1>2, <1>6, <2>1 DEF PADDING
  <2> QED
    BY <2>1, <2>2 DEF Below, h, row, w, col, last, p
<1>7. CASE p = [x |-> -1, y |-> -1, last |-> last]
  BY <1>7 DEF NoPlace, p
<1> QED
  BY <1>3, <1>4, <1>5, <1>6, <1>7

\* A section that has no place, moved to the right of the changes: a low window only.
Odd(d, s, p) ==
  /\ p.x >= 0 /\ p.y = -1 /\ p.last = d.last
  /\ Height(d, s) + CHANGES_HEIGHT + 2 > window_size.row
ClearOfChanges(d, s, p) ==
  p.x >= 0 /\ p.y >= 0 /\ p.y + Height(d, s) < window_size.row =>
    p.x >= 81 \/ p.y + Height(d, s) < window_size.row - CHANGES_HEIGHT - 1

LEMMA PositionCases ==
  ASSUME NEW d \in Displays, NEW s \in sections, WindowTyped, LastInv(d),
         d.width \in {0, 2, 3}
  PROVE  LET q == NewPosition(d, s)
         IN /\ NoPlace(d, q) \/ Beside(d, s, q) \/ Below(d, s, q) \/ Odd(d, s, q)
            /\ d.width # 0 => ClearOfChanges(d, s, q)
<1> DEFINE p == NextPosition(d, s)
           q == NewPosition(d, s)
           h == Height(d, s)
           w == Width[s]
           row == window_size.row
           col == window_size.col
           bytes == Bytes(d.width)
<1>1. /\ h \in Nat /\ w \in Nat /\ w > 0 /\ row \in Nat /\ col \in Nat
  BY SizeFacts, WindowFacts
<1>2. bytes \in Nat /\ (d.width # 0 => bytes >= 81)
  BY DEF Bytes
<1>3. NoPlace(d, p) \/ Beside(d, s, p) \/ Below(d, s, p)
  BY NextPositionCases
<1>4. p \in Positions
  BY PositionType
<1>5. MeetsChanges(d, s, p) <=> /\ d.width # 0 /\ p.x < bytes /\ p.x + w > 0 /\ p.y < row
                                /\ p.y + h + PADDING > row - CHANGES_HEIGHT
  BY DEF MeetsChanges
<1>6. \/ ~MeetsChanges(d, s, p) /\ q = p
      \/ MeetsChanges(d, s, p) /\ col - bytes > w + PADDING /\ q = [p EXCEPT !.x = bytes]
      \/ MeetsChanges(d, s, p) /\ q = [x |-> -1, y |-> -1, last |-> d.last]
  BY DEF NewPosition, AwayFromChanges
<1>7. p.x \in Int /\ p.y \in Int
  BY <1>4 DEF Positions
<1> HIDE DEF p, q, bytes
<1>8. CASE ~MeetsChanges(d, s, p) /\ q = p
  <2> HIDE DEF h, w, row, col
  <2>1. d.width # 0 => (p.x >= 0 /\ p.y >= 0 /\ p.y + h < row =>
                          p.x >= 81 \/ p.y + h < row - CHANGES_HEIGHT - 1)
    BY <1>1, <1>2, <1>5, <1>7, <1>8 DEF PADDING, CHANGES_HEIGHT
  <2>2. d.width # 0 => ClearOfChanges(d, s, p)
    BY <2>1 DEF ClearOfChanges, h, row
  <2> QED
    BY <1>3, <1>8, <2>2 DEF q
<1>9. CASE /\ MeetsChanges(d, s, p) /\ col - bytes > w + PADDING
           /\ q = [p EXCEPT !.x = bytes]
  <2>1. q.x = bytes /\ q.y = p.y /\ q.last = p.last
    BY <1>4, <1>9 DEF Positions
  <2>2. ClearOfChanges(d, s, q)
    BY <1>2, <1>5, <1>9, <2>1 DEF ClearOfChanges
  <2>3. q.x > p.x /\ q.x >= 0 /\ q.x + w < col /\ q.x \in Int
    <3> HIDE DEF h, w, row, col
    <3> QED
      BY <1>1, <1>2, <1>5, <1>7, <1>9, <2>1 DEF PADDING
  <2>4. CASE NoPlace(d, p)
    <3>1. p.x = -1 /\ p.y = -1 /\ p.last = d.last
      BY <2>4 DEF NoPlace
    <3>2. h + CHANGES_HEIGHT + 2 > row
      <4> HIDE DEF h, w, row, col
      <4> QED
        BY <1>1, <1>5, <1>9, <3>1 DEF PADDING, CHANGES_HEIGHT
    <3>3. Odd(d, s, q)
      BY <2>1, <2>3, <3>1, <3>2 DEF Odd, h, row
    <3> QED
      BY <2>2, <3>3 DEF q
  <2>5. CASE Beside(d, s, p)
    <3>1. d.last.x \in Int /\ d.last.width \in Int
      BY DisplayFields
    <3>2. Beside(d, s, q)
      <4>1. /\ p.last = d.last /\ p.y = d.last.y
            /\ d.last.width # 0 => p.x >= d.last.x + d.last.width + PADDING
            /\ d.last.width = 0 => p.x >= 0
            /\ p.y + h < row
        BY <2>5 DEF Beside, h, row
      <4> HIDE DEF h, w, row, col
      <4>2. d.last.width # 0 => q.x >= d.last.x + d.last.width + PADDING
        BY <1>7, <2>3, <3>1, <4>1 DEF PADDING
      <4> QED
        BY <2>1, <2>3, <4>1, <4>2 DEF Beside, h, w, row, col
    <3> QED
      BY <2>2, <3>2 DEF q
  <2>6. CASE Below(d, s, p)
    <3>1. Below(d, s, q)
      BY <2>1, <2>3, <2>6 DEF Below
    <3> QED
      BY <2>2, <3>1 DEF q
  <2> QED
    BY <1>3, <2>4, <2>5, <2>6
<1>10. CASE q = [x |-> -1, y |-> -1, last |-> d.last]
  <2>1. NoPlace(d, q) /\ q.x = -1
    BY <1>10 DEF NoPlace
  <2>2. ClearOfChanges(d, s, q)
    BY <2>1 DEF ClearOfChanges
  <2> QED
    BY <2>1, <2>2 DEF q
<1> QED
  BY <1>6, <1>8, <1>9, <1>10

\* What a place does to the layout: the sections displayed before stay apart from the new one.
LEMMA LayoutPlaced ==
  ASSUME NEW d \in Displays, NEW e \in Displays, NEW s \in sections, NEW size \in Nat,
         WindowTyped, LayoutInv(d), d.finished_loading, d.width \in {0, 2, 3},
         d.cleared => d.width # 0,
         d.place[s] = NOWHERE,
         SameList(d, e), e.params = d.params, e.finished_loading = d.finished_loading,
         e.place = [d.place EXCEPT ![s] = [x |-> NewPosition(d, s).x, y |-> NewPosition(d, s).y]],
         e.last = NewLast(d, s, size)
  PROVE  LayoutInv(e)
<1> DEFINE p == NewPosition(d, s)
           h == Height(d, s)
           w == Width[s]
<1>1. h \in Nat /\ w \in Nat /\ w > 0 /\ window_size.row \in Nat
  BY SizeFacts, WindowFacts
<1>2. \A t \in sections : /\ Height(d, t) \in Nat /\ Width[t] \in Nat /\ Width[t] > 0
                          /\ Height(e, t) = Height(d, t)
                          /\ d.place[t].x \in Int /\ d.place[t].y \in Int
  <2>1. \A t \in sections : Height(d, t) \in Nat /\ Width[t] \in Nat /\ Width[t] > 0
    BY SizeFacts
  <2>2. \A t \in sections : Height(e, t) = Height(d, t)
    BY DEF Height
  <2>3. \A t \in sections : d.place[t].x \in Int /\ d.place[t].y \in Int
    <3>1. d.place \in [sections -> [x : Int, y : Int]]
      BY DisplayFields DEF Places
    <3> HIDE DEF sections
    <3> QED
      BY <3>1
  <2> QED
    BY <2>1, <2>2, <2>3
<1>3. p \in Positions
  BY PositionType DEF NewPosition
<1>4. /\ e.place[s].x = p.x /\ e.place[s].y = p.y
      /\ \A t \in sections : t # s => e.place[t] = d.place[t]
  <2>1. d.place \in [sections -> Places]
    BY DisplayFields
  <2>2. e.place = [d.place EXCEPT ![s] = [x |-> p.x, y |-> p.y]]
    OBVIOUS
  <2> HIDE DEF p, sections
  <2>3. e.place[s] = [x |-> p.x, y |-> p.y]
    BY <2>1, <2>2
  <2>4. \A t \in sections : t # s => e.place[t] = d.place[t]
    BY <2>1, <2>2
  <2> QED
    BY <2>3, <2>4
<1>5. s \notin Shown(d)
  BY NotNowhere DEF Shown
<1>6. Shown(e) = Shown(d) \union (IF p.x >= 0 /\ p.y >= 0 THEN {s} ELSE {})
  <2>1. ASSUME NEW t \in sections, t # s PROVE t \in Shown(e) <=> t \in Shown(d)
    BY <1>4, <2>1 DEF Shown, OnDisplay
  <2>2. s \in Shown(e) <=> p.x >= 0 /\ p.y >= 0
    BY <1>4 DEF Shown, OnDisplay
  <2>3. Shown(e) \subseteq sections /\ Shown(d) \subseteq sections
    BY DEF Shown
  <2> HIDE DEF p, sections
  <2> QED
    BY <1>5, <2>1, <2>2, <2>3
<1>7. LastInv(d)
  BY DEF LayoutInv
<1>8. /\ NoPlace(d, p) \/ Beside(d, s, p) \/ Below(d, s, p) \/ Odd(d, s, p)
      /\ d.width # 0 => ClearOfChanges(d, s, p)
  BY <1>7, PositionCases
<1>9. e.last = IF p.x = -1 THEN p.last
               ELSE [x |-> p.x, y |-> p.y, width |-> w + 1 + size,
                     height |-> IF h > p.last.height THEN h ELSE p.last.height]
  BY DEF NewLast
<1>10. /\ d.last.x \in Nat /\ d.last.y \in Int /\ d.last.width \in Nat /\ d.last.height \in Nat
       /\ d.last.y >= -1
       /\ d.last \in [x : Int, y : Int, width : Int, height : Int]
  <2>1. d.last \in [x : Int, y : Int, width : Int, height : Int]
    BY DisplayFields
  <2> QED
    BY <1>7, <2>1 DEF LastInv
<1>11. TallFor(e) <=> TallFor(d)
  BY <1>2 DEF TallFor
<1>12. e.cleared => e.refresh \/ e.width # 0
  BY DEF SameList
<1>13. e.cleared = d.cleared
  BY DEF SameList
<1> HIDE DEF p, h, w
\* Sections that were on display before.
<1>14. ASSUME NEW t \in Shown(d)
       PROVE  /\ t \in sections /\ t # s
              /\ Inside(e, t) /\ (e.cleared => Clear(e, t))
  <2>1. t \in sections /\ t # s
    BY <1>5 DEF Shown
  <2>2. Inside(d, t) /\ (d.cleared => Clear(d, t))
    BY DEF LayoutInv
  <2> QED
    BY <1>2, <1>4, <1>13, <2>1, <2>2 DEF Inside, Clear
<1>15. ASSUME NEW t \in Shown(d), NEW u \in Shown(d), t # u, TallFor(d)
       PROVE  ApartIn(e, t, u)
  <2>1. ApartIn(d, t, u)
    BY <1>15 DEF LayoutInv
  <2> QED
    BY <1>2, <1>4, <1>14, <2>1 DEF ApartIn
<1>16. CASE NoPlace(d, p)
  <2>1. p.x = -1 /\ p.y = -1 /\ p.last = d.last
    BY <1>16 DEF NoPlace
  <2>2. e.last = d.last /\ Shown(e) = Shown(d)
    BY <1>6, <1>9, <2>1
  <2>3. LastInv(e)
    BY <1>7, <1>11, <2>2 DEF LastInv
  <2>4. \A t \in sections : e.place[t].x >= -1 /\ e.place[t].y >= -1
    BY <1>4, <2>1 DEF LayoutInv
  <2>5. ASSUME TallFor(d), NEW t \in Shown(d) PROVE InRow(e, t) \/ AboveRow(e, t)
    <3>1. InRow(d, t) \/ AboveRow(d, t)
      BY <2>5 DEF LayoutInv
    <3> QED
      BY <1>2, <1>4, <1>14, <2>2, <3>1 DEF InRow, AboveRow
  <2> QED
    BY <1>11, <1>12, <1>14, <1>15, <2>2, <2>3, <2>4, <2>5 DEF LayoutInv
<1>17. CASE Beside(d, s, p) \/ Below(d, s, p) \/ Odd(d, s, p)
  <2> DEFINE x == p.x
             y == p.y
             height == p.last.height
  <2>1. /\ x \in Int /\ y \in Int /\ height \in Int
    BY <1>3 DEF Positions
  <2>2. x >= 0 /\ y >= -1 /\ height >= 0
    <3>1. CASE Beside(d, s, p)
      BY <1>10, <2>1, <3>1 DEF Beside, PADDING
    <3>2. CASE Below(d, s, p)
      <4>1. height = h /\ x >= 0 /\ y = d.last.y + d.last.height + PADDING
        BY <1>10, <3>2 DEF Below, h
      <4> HIDE DEF x, y, height
      <4> QED
        BY <1>1, <1>10, <4>1 DEF PADDING
    <3>3. CASE Odd(d, s, p)
      BY <1>10, <3>3 DEF Odd
    <3> QED
      BY <1>17, <3>1, <3>2, <3>3
  <2>3. /\ e.last.x = x /\ e.last.y = y /\ e.last.width = w + 1 + size
        /\ e.last.height = IF h > height THEN h ELSE height
    <3>1. x # -1
      BY <2>1, <2>2
    <3> QED
      BY <1>9, <3>1
  <2>4. e.place[s].x = x /\ e.place[s].y = y
    BY <1>4
  <2>5. /\ y >= 0 => y + h < window_size.row
        /\ y >= 0 /\ x > 0 => x + w < window_size.col
    <3>1. Odd(d, s, p) => y = -1
      BY DEF Odd
    <3> QED
      BY <1>17, <3>1 DEF Beside, Below, h, w
  <2>6. TallFor(d) => ~Odd(d, s, p) /\ y >= 0
    <3>1. ASSUME TallFor(d) PROVE ~Odd(d, s, p) /\ y >= 0
      <4>1. window_size.row >= h + CHANGES_HEIGHT + 2 /\ d.last.y >= 0
        BY <1>7, <3>1 DEF TallFor, LastInv, h
      <4>2. ~Odd(d, s, p)
        BY <1>1, <4>1 DEF Odd, CHANGES_HEIGHT, h
      <4>3. CASE Beside(d, s, p)
        BY <4>1, <4>2, <4>3 DEF Beside
      <4>4. CASE Below(d, s, p)
        <5>1. y = d.last.y + d.last.height + PADDING
          BY <4>4 DEF Below
        <5> HIDE DEF y
        <5> QED
          BY <1>10, <4>1, <4>2, <5>1 DEF PADDING
      <4> QED
        BY <1>17, <4>2, <4>3, <4>4
    <3> QED
      BY <3>1
  <2>7. /\ s \in Shown(e) <=> y >= 0
        /\ \A t \in Shown(e) : t = s \/ t \in Shown(d)
    BY <1>5, <1>6, <2>1, <2>2
  <2>8. /\ e.last.width \in Nat /\ e.last.width > 0 /\ e.last.height \in Nat
        /\ e.last.height >= h /\ e.last.height >= height
        /\ e.place[s].x + w + 1 <= e.last.x + e.last.width
    <3> HIDE DEF x, y, height
    <3> QED
      BY <1>1, <2>1, <2>2, <2>3, <2>4
  <2>9. LastInv(e)
    <3>1. TallFor(e) => e.last.y >= 0
      BY <1>11, <2>3, <2>6
    <3> HIDE DEF x, y, height
    <3> QED
      BY <2>1, <2>2, <2>3, <2>8, <3>1 DEF LastInv
  <2>10. \A t \in sections : e.place[t].x >= -1 /\ e.place[t].y >= -1
    <3>1. \A t \in sections : d.place[t].x >= -1 /\ d.place[t].y >= -1
      BY DEF LayoutInv
    <3> HIDE DEF x, y, height
    <3> QED
      BY <1>4, <2>1, <2>2, <2>4, <3>1
  <2>11. ASSUME s \in Shown(e) PROVE Inside(e, s) /\ (e.cleared => Clear(e, s))
    <3>1. y >= 0
      BY <2>7, <2>11
    <3>2. Height(e, s) = h
      BY <1>2 DEF h
    <3>3. Inside(e, s)
      BY <2>4, <2>5, <3>1, <3>2 DEF Inside, w
    <3>4. e.cleared => ClearOfChanges(d, s, p)
      BY <1>8, <1>13
    <3>5. e.cleared => Clear(e, s)
      BY <2>2, <2>4, <2>5, <3>1, <3>2, <3>4 DEF Clear, ClearOfChanges, h
    <3> QED
      BY <3>3, <3>5
  <2>12. ASSUME TallFor(d), NEW t \in Shown(d)
         PROVE  /\ InRow(e, t) \/ AboveRow(e, t)
                /\ ApartIn(e, t, s) /\ ApartIn(e, s, t)
    <3> DEFINE xt == d.place[t].x
               yt == d.place[t].y
               ht == Height(d, t)
               wt == Width[t]
    <3>1. /\ xt \in Int /\ yt \in Int /\ ht \in Nat /\ wt \in Nat
          /\ e.place[t].x = xt /\ e.place[t].y = yt /\ Height(e, t) = ht
      BY <1>2, <1>4, <1>14
    <3>2. \/ yt = d.last.y /\ xt + wt + 1 <= d.last.x + d.last.width /\ ht <= d.last.height
          \/ yt + ht < d.last.y
      BY <2>12 DEF LayoutInv, InRow, AboveRow
    <3>3. d.last.width # 0
      BY <1>7 DEF LastInv
    <3> HIDE DEF xt, yt, ht, wt, x, y, height
    <3>4. CASE Beside(d, s, p)
      <4>1. y = d.last.y /\ x >= d.last.x + d.last.width + 3 /\ height = d.last.height
        BY <3>3, <3>4 DEF Beside, PADDING, x, y, height
      <4>2. \/ yt = e.last.y /\ xt + wt + 1 <= e.last.x + e.last.width /\ ht <= e.last.height
            \/ yt + ht < e.last.y
        BY <1>10, <2>1, <2>3, <2>8, <3>1, <3>2, <4>1
      <4>3. xt + wt + 1 < x \/ yt + ht < y
        BY <1>10, <2>1, <3>1, <3>2, <4>1
      <4> QED
        BY <2>4, <3>1, <4>2, <4>3 DEF InRow, AboveRow, ApartIn, wt
    <3>5. CASE Below(d, s, p)
      <4>1. y = d.last.y + d.last.height + 3
        BY <3>5 DEF Below, PADDING, y
      <4>2. yt + ht < y
        BY <1>10, <2>1, <3>1, <3>2, <4>1
      <4> QED
        BY <2>3, <2>4, <3>1, <4>2 DEF AboveRow, ApartIn
    <3> QED
      BY <1>17, <2>6, <2>12, <3>4, <3>5
  <2>13. InRow(e, s)
    <3>1. Height(e, s) = h
      BY <1>2 DEF h
    <3> QED
      BY <2>3, <2>4, <2>8, <3>1 DEF InRow, w
  <2>14. \A t \in Shown(e) : Inside(e, t) /\ (e.cleared => Clear(e, t))
    BY <1>14, <2>7, <2>11
  <2>15. TallFor(e) => /\ \A t \in Shown(e) : InRow(e, t) \/ AboveRow(e, t)
                       /\ \A t, u \in Shown(e) : t # u => ApartIn(e, t, u)
    BY <1>11, <1>15, <2>7, <2>12, <2>13
  <2> QED
    BY <1>12, <2>9, <2>10, <2>14, <2>15 DEF LayoutInv
<1> QED
  BY <1>8, <1>16, <1>17

-----------------------------------------------------------------------------
(* A page keeps the list, the sections and the layout in order. *)

\* With no section on display there is nothing to cover.
LEMMA FreshLayout ==
  ASSUME NEW d, d.last = ORIGIN, \A s \in sections : d.place[s] = NOWHERE,
         d.cleared => d.refresh \/ d.width # 0
  PROVE  LayoutInv(d)
<1>1. Shown(d) = {}
  BY NotNowhere DEF Shown
<1>2. LastInv(d)
  BY <1>1 DEF LastInv, ORIGIN
<1>3. \A s \in sections : d.place[s].x >= -1 /\ d.place[s].y >= -1
  BY DEF NOWHERE
<1> QED
  BY <1>1, <1>2, <1>3 DEF LayoutInv

\* The list, the sections and the layout behind the i-th parameter of page p.
DisplayInv(new, p, i) ==
  /\ ListInv(new.display, new.log)
  /\ LoadInv(new.display, p, i)
  /\ LayoutInv(new.display)

\* One parameter: its change is listed, its section loaded or placed, its value shown.
LEMMA ParamKeeps ==
  ASSUME NEW new \in Progress, NEW p \in 1..10, NEW i \in 1..Len(Page[p]), NEW changed,
         WindowTyped, digits \in VALUE_SIZES, DisplayInv(new, p, i - 1)
  PROVE  LET next == update_param(new, <<p, i>>, changed)
         IN /\ next \in Progress /\ DisplayInv(next, p, i)
            /\ next.log = IF IsListed(new, <<p, i>>, changed)
                          THEN <<ChangeOf(new)>> \o new.log ELSE new.log
<1> DEFINE id == <<p, i>>
           next == update_param(new, id, changed)
           d == new.display
           s == Section(id)
<1>1. id \in Params
  BY ParamFacts
<1>2. s \in sections
  <2> HIDE DEF id
  <2> QED
    BY <1>1, ParamFacts
<1>3. /\ next \in Progress /\ ListInv(next.display, next.log)
      /\ next.log = IF IsListed(new, id, changed) THEN <<ChangeOf(new)>> \o new.log
                    ELSE new.log
  <2>1. ListInv(new.display, new.log)
    BY DEF DisplayInv
  <2> HIDE DEF id
  <2> QED
    BY <1>1, <2>1, ListParam
<1>4. \E d1, d2, d3 \in Displays :
        /\ ListStep(new, d1, id, changed)
        /\ d2 = update_section(d1, id, Size(id))
        /\ d3 = Publish(d2, id)
        /\ next.display = d3
  <2> HIDE DEF id
  <2>1. PICK d1, d2, d3 \in Displays :
          /\ ListStep(new, d1, id, changed)
          /\ d2 = update_section(d1, id, Size(id))
          /\ d3 = Publish(d2, id)
          /\ update_param(new, id, changed) =
               [display |-> d3,
                log |-> IF IsListed(new, id, changed) THEN <<ChangeOf(new)>> \o new.log
                        ELSE new.log]
    BY <1>1, ParamSteps
  <2> QED
    BY <2>1
<1>5. PICK d1, d2, d3 \in Displays :
        /\ ListStep(new, d1, id, changed)
        /\ d2 = update_section(d1, id, Size(id))
        /\ d3 = Publish(d2, id)
        /\ next.display = d3
  BY <1>4
<1>6. /\ d1 \in Displays
      /\ SameSections(d, d1) /\ d1.last = d.last /\ d1.cleared = d.cleared
      /\ ~d1.refresh
      /\ d.refresh \/ d.width # 0 => d1.width # 0
  <2> HIDE DEF id
  <2> QED
    BY <1>5, ListStepFacts
<1>7. LoadInv(d, p, i - 1) /\ LayoutInv(d)
  BY DEF DisplayInv
<1>8. Size(id) \in Nat
  <2> HIDE DEF id
  <2>1. Size(id) \in 1..10
    BY <1>1, SizeOfValue
  <2> QED
    BY <2>1
<1> HIDE DEF d, next
<1>9. LoadInv(d1, p, i - 1)
  BY <1>6, <1>7, LoadSame
<1>10. LoadInv(d3, p, i)
  BY <1>5, <1>8, <1>9, SectionsNext
<1>11. d1.cleared => d1.width # 0
  BY <1>6, <1>7 DEF LayoutInv
<1>12. LayoutInv(d1)
  BY <1>6, <1>7, <1>11, LayoutSame DEF SameSections
<1> HIDE DEF s
<1>13. /\ SameList(d1, d2)
       /\ d2.finished_loading = d1.finished_loading
       /\ \/ Appends(d1, d2, id)
          \/ Places1(d1, d2, s, Size(id))
          \/ d2 = d1
  <2> HIDE DEF id
  <2> QED
    BY <1>1, <1>5, <1>8, SectionUpdated DEF s
<1>14. /\ SameList(d2, d3)
       /\ d3.params = d2.params /\ d3.place = d2.place /\ d3.last = d2.last
       /\ d3.finished_loading = d2.finished_loading
  <2> HIDE DEF id
  <2> QED
    BY <1>1, <1>5, Published
<1>15. d1.width \in {0, 2, 3}
  BY <1>3, <1>5, <1>13, <1>14 DEF ListInv, SameList
<1> HIDE DEF id
<1>16. LayoutInv(d2)
  <2>1. CASE Appends(d1, d2, id)
    <3>1. ~d1.finished_loading /\ d2.place = d1.place /\ d2.last = d1.last
      BY <2>1 DEF Appends, SameLayout
    <3>2. \A t \in sections : d2.place[t] = NOWHERE
      BY <1>9, <3>1 DEF LoadInv, Loading
    <3>3. d2.last = ORIGIN
      BY <1>12, <3>1 DEF LayoutInv, LastInv
    <3>4. d2.cleared => d2.width # 0
      BY <1>11, <1>13 DEF SameList
    <3> QED
      BY <3>2, <3>3, <3>4, FreshLayout
  <2>2. CASE Places1(d1, d2, s, Size(id))
    <3>1. /\ d1.finished_loading /\ d1.param_index[s] < 0
          /\ d2.params = d1.params
          /\ d2.place = [d1.place EXCEPT ![s] =
                        [x |-> NewPosition(d1, s).x, y |-> NewPosition(d1, s).y]]
          /\ d2.last = NewLast(d1, s, Size(id))
      BY <2>2 DEF Places1
    <3>2. d1.place[s] = NOWHERE
      <4>1. Loaded(d1, s, p, i - 1)
        BY <1>2, <1>9, <3>1 DEF LoadInv
      <4>2. d1.param_index[s] \in -1..Len(d1.params[s]) /\ Len(d1.params[s]) \in Nat
        BY <4>1 DEF Loaded
      <4>3. d1.param_index[s] = -1
        BY <3>1, <4>2
      <4> QED
        BY <4>1, <4>3 DEF Loaded
    <3> QED
      BY <1>2, <1>5, <1>8, <1>11, <1>12, <1>13, <1>15, <3>1, <3>2, LayoutPlaced
  <2>3. CASE d2 = d1
    BY <1>12, <2>3
  <2> QED
    BY <1>13, <2>1, <2>2, <2>3
<1>17. d3.cleared => d3.width # 0
  BY <1>11, <1>13, <1>14 DEF SameList
<1>18. d3.cleared = d2.cleared
  BY <1>14 DEF SameList
<1>19. LayoutInv(d3)
  BY <1>14, <1>16, <1>17, <1>18, LayoutSame
<1>20. DisplayInv(next, p, i)
  BY <1>3, <1>5, <1>10, <1>19 DEF DisplayInv
<1> QED
  BY <1>3, <1>20 DEF next, id

\* A page takes the display from one good state to the next.
LEMMA PageKeeps ==
  ASSUME NEW p \in 1..10, NEW changed, ChangedOn(p, changed), UpdatePage(p, changed),
         WindowTyped, digits \in VALUE_SIZES,
         display \in Displays, log \in Seq(Seq(Cells)),
         DisplayInv([display |-> display, log |-> log], p, 0)
  PROVE  \E new \in Progress :
           /\ DisplayInv(new, p, Len(Page[p]))
           /\ Len(new.log) <= Len(log) + Cardinality(changed)
           /\ display' = [new.display EXCEPT !.finished_loading = @ \/ p = 10]
           /\ log' = new.log
<1> DEFINE n == Len(Page[p])
           Taken(i) == Cardinality({id \in changed : id[2] <= i})
           Good(i) == {new \in Progress : /\ DisplayInv(new, p, i)
                                          /\ Len(new.log) <= Len(log) + Taken(i)}
           G == [i \in 0..n |-> Good(i)]
           start == [display |-> display, log |-> log]
<1>1. n \in Nat
  BY PageFacts
<1>2. /\ Taken(0) = 0 /\ Taken(n) = Cardinality(changed)
      /\ \A i \in 1..n : /\ Taken(i - 1) \in Nat
                         /\ Taken(i) = Taken(i - 1) + (IF <<p, i>> \in changed THEN 1 ELSE 0)
  BY ChangedCounted, ZenonT(60)
<1> HIDE DEF Taken
<1>3. Len(log) \in Nat
  OBVIOUS
<1>4. G[0] = Good(0) /\ \A i \in 1..n : G[i] = Good(i) /\ G[i - 1] = Good(i - 1)
  <2> HIDE DEF Good
  <2>1. \A i \in 0..n : G[i] = Good(i)
    OBVIOUS
  <2> HIDE DEF G
  <2>2. 0 \in 0..n /\ \A i \in 1..n : i \in 0..n /\ i - 1 \in 0..n
    BY <1>1
  <2> QED
    BY <2>1, <2>2
<1> HIDE DEF G
<1>5. start \in Good(0)
  <2>1. start \in Progress
    BY DEF Progress
  <2> QED
    BY <1>2, <1>3, <2>1
<1>6. ASSUME NEW i \in 1..n, NEW new \in Good(i - 1)
      PROVE  update_param(new, <<p, i>>, changed) \in Good(i)
  <2> DEFINE id == <<p, i>>
             next == update_param(new, id, changed)
  <2>1. id \in Params
    BY ParamFacts
  <2>2. new \in Progress /\ DisplayInv(new, p, i - 1) /\ Len(new.log) <= Len(log) + Taken(i - 1)
    BY <1>6
  <2>3. next \in Progress /\ DisplayInv(next, p, i)
    BY <2>2, ParamKeeps
  <2>4. next.log = IF IsListed(new, id, changed) THEN <<ChangeOf(new)>> \o new.log ELSE new.log
    BY <2>2, ParamKeeps
  <2>5. IsListed(new, id, changed) => id \in changed
    BY DEF IsListed, Listed
  <2>6. Len(new.log) \in Nat
    BY <2>2 DEF Progress
  <2>7. Len(next.log) <= Len(log) + Taken(i)
    <3>1. CASE IsListed(new, id, changed)
      <4>1. next.log = <<ChangeOf(new)>> \o new.log
        BY <2>4, <3>1
      <4>2. Len(next.log) = 1 + Len(new.log)
        <5>1. new.log \in Seq(Seq(Cells))
          BY <2>2 DEF Progress
        <5> HIDE DEF next
        <5> QED
          BY <4>1, <5>1
      <4>3. Taken(i) = Taken(i - 1) + 1 /\ Taken(i - 1) \in Nat
        BY <1>2, <2>5, <3>1
      <4> HIDE DEF next
      <4> QED
        BY <1>3, <2>2, <2>6, <4>2, <4>3
    <3>2. CASE ~IsListed(new, id, changed)
      <4>1. next.log = new.log
        BY <2>4, <3>2
      <4>2. Taken(i) >= Taken(i - 1) /\ Taken(i - 1) \in Nat /\ Taken(i) \in Nat
        <5>1. Taken(i - 1) \in Nat /\ Taken(i) \in {Taken(i - 1), Taken(i - 1) + 1}
          <6> HIDE DEF n
          <6>1. Taken(i) = Taken(i - 1) + (IF <<p, i>> \in changed THEN 1 ELSE 0)
            BY <1>2
          <6> QED
            BY <1>2, <6>1
        <5> QED
          BY <5>1
      <4> HIDE DEF next
      <4> QED
        BY <1>3, <2>2, <2>6, <4>1, <4>2
    <3> QED
      BY <3>1, <3>2
  <2> HIDE DEF next
  <2>8. next \in Good(i)
    BY <2>3, <2>7
  <2> QED
    BY <2>8 DEF next
<1>7. start \in G[0]
  BY <1>4, <1>5
<1> HIDE DEF Good
<1>8. \A i \in 1..n : \A new \in G[i - 1] : update_param(new, <<p, i>>, changed) \in G[i]
  BY <1>4, <1>6
<1>9. PICK new \in G[n] : /\ display' = [new.display EXCEPT !.finished_loading = @ \/ p = 10]
                          /\ log' = new.log
  BY <1>7, <1>8, PageSteps
<1>10. new \in Good(n)
  <2> HIDE DEF n
  <2>1. CASE n = 0
    BY <1>4, <1>9, <2>1
  <2>2. CASE n # 0
    BY <1>1, <1>4, <1>9, <2>2
  <2> QED
    BY <2>1, <2>2
<1>11. new \in Progress /\ DisplayInv(new, p, n) /\ Len(new.log) <= Len(log) + Cardinality(changed)
  BY <1>2, <1>10 DEF Good
<1> QED
  BY <1>9, <1>11

-----------------------------------------------------------------------------
(* From page to page, and from step to step. *)

\* From one page to the next, and from page 10 round to page 1.
LEMMA PageFollows ==
  ASSUME NEW d, NEW p \in 1..9, LoadInv(d, p, Len(Page[p]))
  PROVE  LoadInv(d, p + 1, 0)
<1>1. \A s \in sections : /\ Before(s, p + 1, 0) = Before(s, p, Len(Page[p]))
                          /\ Count(s, p + 1, 0) = Count(s, p, Len(Page[p]))
  BY CountPages
<1> QED
  BY <1>1 DEF LoadInv, Loading, Loaded

\* Behind page 10 every section has gone round once.
LEMMA RoundAgain ==
  ASSUME NEW d, LoadInv(d, 10, Len(Page[10])), d.finished_loading
  PROVE  LoadInv(d, 1, 0)
<1>1. ASSUME NEW s \in sections PROVE Loaded(d, s, 1, 0)
  <2>1. Count(s, 1, 0) = 0 /\ Count(s, 10, Len(Page[10])) = Total(s)
    BY CountPages
  <2>2. Loaded(d, s, 10, Len(Page[10]))
    BY DEF LoadInv
  <2> QED
    BY <2>1, <2>2 DEF Loaded
<1> QED
  BY <1>1 DEF LoadInv

\* The end of page 10 is the end of loading.
LEMMA PageEnds ==
  ASSUME NEW new \in Progress, NEW p \in 1..10, DisplayInv(new, p, Len(Page[p])), NEW e,
         e = [new.display EXCEPT !.finished_loading = @ \/ p = 10]
  PROVE  /\ e \in Displays
         /\ ListInv(e, new.log) /\ LoadInv(e, p, Len(Page[p])) /\ LayoutInv(e)
         /\ p = 10 => e.finished_loading
<1> DEFINE d == new.display
           n == Len(Page[p])
           f == d.finished_loading \/ p = 10
<1>1. d \in Displays /\ ListInv(d, new.log) /\ LoadInv(d, p, n) /\ LayoutInv(d)
  BY DEF Progress, DisplayInv
<1>2. e = [d EXCEPT !.finished_loading = f] /\ f \in BOOLEAN
  BY <1>1, DisplayFields
<1>3. f <=> d.finished_loading \/ p = 10
  OBVIOUS
<1> HIDE DEF d, f, n
<1>4. /\ e \in Displays
      /\ e.finished_loading = f
      /\ SameList(d, e) /\ SameLayout(d, e)
      /\ e.params = d.params /\ e.mislabelled = d.mislabelled
  BY <1>1, <1>2 DEF Displays, SameList, SameLayout
<1>5. ListInv(e, new.log)
  BY <1>1, <1>4, ListSame
<1>6. LayoutInv(e)
  <2>2. e.refresh = d.refresh /\ e.width = d.width /\ e.cleared = d.cleared
        /\ e.place = d.place /\ e.last = d.last
    BY <1>4 DEF SameList, SameLayout
  <2>3. /\ \A s : Height(e, s) = Height(d, s) /\ (OnDisplay(e, s) <=> OnDisplay(d, s))
        /\ Shown(e) = Shown(d)
    BY <1>4, <2>2 DEF Height, OnDisplay, Shown
  <2>4. TallFor(e) <=> TallFor(d)
    BY <2>3 DEF TallFor
  <2>5. LastInv(e)
    <3>1. ~e.finished_loading => ~d.finished_loading
      BY <1>3, <1>4
    <3> QED
      BY <1>1, <2>2, <2>3, <2>4, <3>1 DEF LayoutInv, LastInv
  <2>6. \A s : /\ Inside(e, s) <=> Inside(d, s)
               /\ Clear(e, s) <=> Clear(d, s)
               /\ InRow(e, s) <=> InRow(d, s)
               /\ AboveRow(e, s) <=> AboveRow(d, s)
               /\ \A t : ApartIn(e, s, t) <=> ApartIn(d, s, t)
    BY <2>2, <2>3 DEF Inside, Clear, InRow, AboveRow, ApartIn
  <2> QED
    BY <1>1, <2>2, <2>3, <2>4, <2>5, <2>6 DEF LayoutInv
<1>7. LoadInv(e, p, n)
  <2>1. \A s : OnDisplay(e, s) <=> OnDisplay(d, s)
    BY <1>4 DEF OnDisplay, SameLayout
  <2>2. CASE d.finished_loading
    <3>1. e.finished_loading
      BY <1>3, <1>4, <2>2
    <3>2. \A s \in sections : Loaded(d, s, p, n)
      BY <1>1, <2>2 DEF LoadInv
    <3>3. \A s \in sections : Loaded(e, s, p, n)
      BY <1>4, <2>1, <3>2 DEF Loaded, SameLayout
    <3> QED
      BY <3>1, <3>3 DEF LoadInv
  <2>3. CASE ~d.finished_loading
    <3>1. d.mislabelled = {} /\ \A s \in sections : Loading(d, s, p, n)
      BY <1>1, <2>3 DEF LoadInv
    <3>2. CASE p # 10
      <4>1. ~e.finished_loading
        BY <1>3, <1>4, <2>3, <3>2
      <4>2. \A s \in sections : Loading(e, s, p, n)
        BY <1>4, <3>1 DEF Loading, SameLayout
      <4> QED
        BY <1>4, <3>1, <4>1, <4>2 DEF LoadInv
    <3>3. CASE p = 10
      <4>1. e.finished_loading
        BY <1>3, <1>4, <3>3
      <4>2. ASSUME NEW s \in sections PROVE Loaded(e, s, p, n)
        <5>1. Loading(d, s, p, n)
          BY <3>1
        <5>2. Before(s, p, n) = ParamsOf[s] /\ Count(s, p, n) = Total(s)
          BY <3>3, CountPages DEF n
        <5>3. /\ d.params[s] \in Seq(ParamsOf[s]) /\ Len(d.params[s]) \in Nat
              /\ d.place[s] = NOWHERE /\ d.param_index[s] = -1
          BY <5>1 DEF Loading
        <5>4. ToSet(d.params[s]) \subseteq ParamsOf[s]
          BY <5>3 DEF ToSet
        <5>5. ToSet(d.params[s]) = ParamsOf[s] /\ Total(s) <= Len(d.params[s])
          BY <5>1, <5>2, <5>4 DEF Loading
        <5>6. ~OnDisplay(e, s)
          BY <2>1, <5>3, NotNowhere
        <5>7. Len(d.params[s]) = Total(s) => Ordered(d.params[s])
          BY <5>1, <5>2 DEF Loading
        <5>8. s \notin e.mislabelled
          BY <1>4, <3>1
        <5>9. e.params[s] = d.params[s] /\ e.place[s] = NOWHERE /\ e.param_index[s] = -1
          BY <1>4, <5>3 DEF SameLayout
        <5> QED
          BY <5>2, <5>3, <5>5, <5>6, <5>7, <5>8, <5>9 DEF Loaded
      <4> QED
        BY <4>1, <4>2 DEF LoadInv
    <3> QED
      BY <3>2, <3>3
  <2> QED
    BY <2>2, <2>3
<1>8. p = 10 => e.finished_loading
  BY <1>3, <1>4
<1> QED
  BY <1>4, <1>5, <1>6, <1>7, <1>8 DEF n

\* The parameter that the display has come to: the last one of the page last shown, or none
\* of page 1 when that is to be shown next.
AtPage == IF get_first_page THEN 1 ELSE shown
AtParam == IF get_first_page THEN 0 ELSE Len(Page[shown])

\* What holds of the new display in this state holds of it in the next one.
LEMMA ListPrimed ==
  ASSUME ListInv(display', log'), uptime' = uptime
  PROVE  ListInv(display, log)'
BY DEF ListInv, ShortList

LEMMA LoadPrimed ==
  ASSUME NEW p, NEW i, LoadInv(display', p, i), AtPage' = p, AtParam' = i,
         options' = options
  PROVE  LoadInv(display, AtPage, AtParam)'
BY DEF LoadInv, Loading, Loaded, OnDisplay

LEMMA LayoutPrimed ==
  ASSUME LayoutInv(display'), window_size' = window_size
  PROVE  LayoutInv(display)'
BY DEF LayoutInv, LastInv, Shown, TallFor, InRow, AboveRow, ApartIn, Inside, Clear, OnDisplay,
       Height

\* The same of the display after a step.
LEMMA FreshLayoutPrimed ==
  ASSUME display'.last = ORIGIN, \A s \in sections : display'.place[s] = NOWHERE,
         display'.cleared => display'.refresh
  PROVE  LayoutInv(display)'
<1>1. Shown(display)' = {}
  BY DEF Shown, OnDisplay, NOWHERE
<1>2. LastInv(display)'
  BY <1>1 DEF LastInv, ORIGIN
<1>3. \A s \in sections : display'.place[s].x >= -1 /\ display'.place[s].y >= -1
  BY DEF NOWHERE
<1> QED
  BY <1>1, <1>2, <1>3 DEF LayoutInv

\* A resize forgets where the sections are, and page 1 comes next.
LEMMA ResetKeeps ==
  ASSUME NEW d \in Displays, NEW l, NEW p, NEW i, ListInv(d, l), LoadInv(d, p, i)
  PROVE  LET e == Reset(d)
         IN /\ e \in Displays
            /\ ListInv(e, l) /\ LoadInv(e, 1, 0)
            /\ e.last = ORIGIN /\ (\A s \in sections : e.place[s] = NOWHERE)
            /\ e.refresh /\ e.finished_loading = d.finished_loading
<1> DEFINE e == Reset(d)
           index == [s \in sections |-> -1]
           place == [s \in sections |-> NOWHERE]
<1>1. e = [d EXCEPT !.param_index = index, !.place = place, !.last = ORIGIN,
                    !.refresh = TRUE, !.cleared = TRUE, !.mislabelled = {}]
  BY DEF Reset
<1>2. /\ index \in [sections -> Int] /\ place \in [sections -> Places]
      /\ ORIGIN \in [x : Int, y : Int, width : Int, height : Int]
  BY DEF NOWHERE, Places, ORIGIN
<1>3. \A s \in sections : index[s] = -1 /\ place[s] = NOWHERE
  OBVIOUS
<1> HIDE DEF e, index, place
<1>4. e \in Displays
  BY <1>1, <1>2 DEF Displays
<1>5. /\ e.param_index = index /\ e.place = place /\ e.last = ORIGIN
      /\ e.refresh /\ e.cleared /\ e.mislabelled = {}
      /\ e.params = d.params /\ e.finished_loading = d.finished_loading
      /\ e.top_10 = d.top_10 /\ e.width = d.width /\ e.rows = d.rows
  BY <1>1 DEF Displays
<1>6. ListInv(e, l)
  BY <1>5 DEF ListInv
<1>7. \A s \in sections : ~OnDisplay(e, s)
  BY <1>3, <1>5, NotNowhere
<1>8. LoadInv(e, 1, 0)
  <2>1. ASSUME NEW s \in sections, ~d.finished_loading PROVE Loading(e, s, 1, 0)
    <3>1. Loading(d, s, p, i)
      BY <2>1 DEF LoadInv
    <3>2. Before(s, 1, 0) = {} /\ Count(s, 1, 0) = 0
      BY CountPages
    <3>3. d.params[s] \in Seq(ParamsOf[s]) /\ Len(d.params[s]) \in Nat
      BY <3>1 DEF Loading
    <3>4. Len(d.params[s]) = 0 => Ordered(d.params[s])
      BY DEF Ordered
    <3> QED
      BY <1>3, <1>5, <3>2, <3>3, <3>4 DEF Loading
  <2>2. ASSUME NEW s \in sections, d.finished_loading PROVE Loaded(e, s, 1, 0)
    <3>1. Loaded(d, s, p, i)
      BY <2>2 DEF LoadInv
    <3>2. Count(s, 1, 0) = 0
      BY CountPages
    <3>3. Len(d.params[s]) \in Nat
      BY <3>1 DEF Loaded
    <3> QED
      BY <1>3, <1>5, <1>7, <3>1, <3>2, <3>3 DEF Loaded
  <2> QED
    BY <1>5, <2>1, <2>2 DEF LoadInv
<1> QED
  BY <1>3, <1>4, <1>5, <1>6, <1>8 DEF e

-----------------------------------------------------------------------------
(* The invariant of the tool. *)

Typed ==
  /\ pc \in {"parse", "hung", "top", "page", "first", "missed", "ended"}
  /\ page_num \in 0..10 /\ last_page_num \in 0..10 /\ get_first_page \in BOOLEAN
  /\ terminal \in Terminals /\ WindowTyped
  /\ display \in Displays
  /\ log \in Seq(Seq(Cells)) /\ Len(log) <= MAX_CHANGES
  /\ shown \in 0..10 /\ turn \in 1..10 /\ alive \in BOOLEAN
  /\ faults \in 0..MAX_FAULTS /\ resizes \in 0..MAX_RESIZES
  /\ uptime \in {"short", "long", "over"}
  /\ digits \in VALUE_SIZES
\* Options are read before anything is loaded, page 1 is the first page shown, and page 10
\* ends the loading.
Started ==
  /\ pc = "parse" => ~display.finished_loading /\ get_first_page
  /\ shown = 0 => get_first_page
  /\ shown = 10 /\ ~get_first_page => display.finished_loading
\* Inductive: pages in order, the list of changes, the sections as far as they have come, and
\* the layout.
LiveInv ==
  /\ Typed /\ Remembered /\ Started
  /\ ListInv(display, log)
  /\ LoadInv(display, AtPage, AtParam)
  /\ LayoutInv(display)

LEMMA InitLive == Init => LiveInv
<1> SUFFICES ASSUME Init PROVE LiveInv
  OBVIOUS
<1> DEFINE params == [s \in sections |-> <<>>]
           place == [s \in sections |-> NOWHERE]
           index == [s \in sections |-> -1]
<1>1. display = [params |-> params, place |-> place,
                 param_index |-> index, last |-> ORIGIN,
                 finished_loading |-> FALSE, refresh |-> FALSE, cleared |-> FALSE,
                 top_10 |-> <<>>, width |-> 0, rows |-> <<>>, mislabelled |-> {}]
  BY DEF Init
<1>2. /\ params \in [sections -> Seq(Params)] /\ index \in [sections -> Int]
      /\ place \in [sections -> Places]
      /\ ORIGIN \in [x : Int, y : Int, width : Int, height : Int]
      /\ \A s \in sections : params[s] = <<>> /\ place[s] = NOWHERE /\ index[s] = -1
  BY DEF NOWHERE, Places, ORIGIN
<1> HIDE DEF params, place, index
<1>3. display \in Displays
  BY <1>1, <1>2 DEF Displays
<1>4. /\ display.params = params /\ display.place = place /\ display.param_index = index
      /\ display.last = ORIGIN /\ ~display.finished_loading /\ ~display.refresh
      /\ ~display.cleared /\ display.top_10 = <<>> /\ display.width = 0
      /\ display.rows = <<>> /\ display.mislabelled = {}
  BY <1>1
<1>5. log = <<>> /\ get_first_page = TRUE /\ shown = 0 /\ page_num = 0 /\ pc = "parse"
  BY DEF Init
<1>6. Typed
  <2>1. log \in Seq(Seq(Cells)) /\ Len(log) <= MAX_CHANGES
    BY <1>5, LiveDataAssumption
  <2>2. MAX_FAULTS \in Nat /\ MAX_RESIZES \in Nat
    BY LiveDataAssumption
  <2>3. WindowTyped /\ terminal \in Terminals
    BY DEF Init, WindowTyped
  <2> QED
    BY <1>3, <2>1, <2>2, <2>3 DEF Init, Typed
<1>7. Remembered /\ Started
  BY <1>4, <1>5 DEF Remembered, Started
<1>8. ListInv(display, log)
  <2>1. Len(log) = 0 /\ Len(display.top_10) = 0
    BY <1>4, <1>5
  <2>2. InList(display.top_10, log) /\ NoMoreThan(display.top_10, log)
    <3>1. \A w \in {2, 3} : 0 <= w * Len(log)
      BY <2>1
    <3> QED
      BY <2>1, <3>1 DEF InList, NoMoreThan
  <2>3. ShortList(display.top_10, log)
    BY <2>1, ListLength DEF ShortList
  <2> QED
    BY <1>4, <1>5, <2>1, <2>2, <2>3 DEF ListInv
<1>9. LoadInv(display, AtPage, AtParam)
  <2>1. AtPage = 1 /\ AtParam = 0
    BY <1>5 DEF AtPage, AtParam
  <2>2. ASSUME NEW s \in sections PROVE Loading(display, s, 1, 0)
    <3>1. Before(s, 1, 0) = {} /\ Count(s, 1, 0) = 0
      BY CountPages
    <3>2. display.params[s] = <<>>
      BY <1>2, <1>4
    <3>3. Ordered(<<>>) /\ Len(<<>>) = 0 /\ <<>> \in Seq(ParamsOf[s])
      BY DEF Ordered
    <3> QED
      BY <1>2, <1>4, <3>1, <3>2, <3>3 DEF Loading
  <2> QED
    BY <1>4, <2>1, <2>2 DEF LoadInv
<1>10. LayoutInv(display)
  BY <1>2, <1>4, FreshLayout
<1> QED
  BY <1>6, <1>7, <1>8, <1>9, <1>10 DEF LiveInv

\* A step that leaves the display alone, and what was shown.
LEMMA DisplayKept ==
  ASSUME LiveInv, UNCHANGED <<display, log, shown, get_first_page, window_size, options, uptime>>
  PROVE  ListInv(display, log)' /\ LoadInv(display, AtPage, AtParam)' /\ LayoutInv(display)'
<1>1. ListInv(display', log') /\ LayoutInv(display') /\ LoadInv(display', AtPage, AtParam)
  BY DEF LiveInv
<1>2. AtPage' = AtPage /\ AtParam' = AtParam
  BY DEF AtPage, AtParam
<1> QED
  BY <1>1, <1>2, ListPrimed, LoadPrimed, LayoutPrimed

\* The head of the loop: a resize starts the layout again, and the round of the pages.
LEMMA CheckWindowLive ==
  ASSUME LiveInv, CheckWindow
  PROVE  Typed' /\ Started' /\ ListInv(display, log)' /\ LoadInv(display, AtPage, AtParam)'
         /\ LayoutInv(display)'
<1>1. Typed /\ Started /\ ListInv(display, log) /\ LoadInv(display, AtPage, AtParam)
  BY DEF LiveInv
<1>2. /\ pc = "top" /\ pc' = "page" /\ window_size' = terminal
      /\ UNCHANGED <<file, options, page_num, last_page_num, shown, log, terminal, resizes,
                     turn, alive, faults, uptime>>
  BY DEF CheckWindow, window, kinetek
<1>3. WindowTyped'
  BY <1>1, <1>2 DEF WindowTyped, Typed
<1>4. CASE terminal # window_size
  <2>1. display' = Reset(display) /\ get_first_page' = TRUE /\ digits' \in VALUE_SIZES
    BY <1>4 DEF CheckWindow
  <2>2. display \in Displays
    BY <1>1 DEF Typed
  <2>3. /\ display' \in Displays
        /\ ListInv(display', log) /\ LoadInv(display', 1, 0)
        /\ display'.last = ORIGIN /\ (\A s \in sections : display'.place[s] = NOWHERE)
        /\ display'.refresh /\ display'.finished_loading = display.finished_loading
    BY <1>1, <2>1, <2>2, ResetKeeps
  <2>4. Typed'
    BY <1>1, <1>2, <1>3, <2>1, <2>3 DEF Typed
  <2>5. Started'
    BY <1>2, <2>1 DEF Started
  <2>6. ListInv(display, log)'
    BY <1>2, <2>3, ListPrimed
  <2>7. AtPage' = 1 /\ AtParam' = 0
    BY <2>1 DEF AtPage, AtParam
  <2>8. LoadInv(display, AtPage, AtParam)'
    BY <1>2, <2>3, <2>7, LoadPrimed
  <2>9. LayoutInv(display)'
    BY <2>3, FreshLayoutPrimed
  <2> QED
    BY <2>4, <2>5, <2>6, <2>8, <2>9
<1>5. CASE terminal = window_size
  <2>1. UNCHANGED <<display, get_first_page, digits, window_size>>
    BY <1>2, <1>5 DEF CheckWindow
  <2>2. Typed'
    BY <1>1, <1>2, <1>3, <2>1 DEF Typed
  <2>3. Started'
    BY <1>1, <1>2, <2>1 DEF Started
  <2> QED
    BY <1>2, <2>1, <2>2, <2>3, DisplayKept
<1> QED
  BY <1>4, <1>5

\* The page that is shown next finds the sections as the one before it left them.
LEMMA NextPageStarts ==
  ASSUME LiveInv, Receive, turn = Wanted(last_page_num')
  PROVE  LoadInv(display, turn, 0)
<1>1. /\ shown \in 0..10 /\ Started /\ LoadInv(display, AtPage, AtParam)
  BY DEF LiveInv, Typed
<1>2. CASE get_first_page
  BY <1>1, <1>2 DEF AtPage, AtParam, Wanted
<1>3. CASE ~get_first_page
  <2>1. last_page_num' = shown
    BY <1>3 DEF Receive, Remembered, LiveInv
  <2>2. turn = Following(shown) /\ shown # 0 /\ AtPage = shown /\ AtParam = Len(Page[shown])
    BY <1>1, <1>3, <2>1 DEF Wanted, AtPage, AtParam, Started
  <2>3. CASE shown = 10
    <3>1. turn = 1 /\ display.finished_loading
      BY <1>1, <1>3, <2>2, <2>3 DEF Following, Started
    <3> QED
      BY <1>1, <2>2, <2>3, <3>1, RoundAgain
  <2>4. CASE shown # 10
    <3>1. shown \in 1..9 /\ turn = shown + 1
      BY <1>1, <2>2, <2>4 DEF Following
    <3> QED
      BY <1>1, <2>2, <3>1, PageFollows
  <2> QED
    BY <2>3, <2>4
<1> QED
  BY <1>2, <1>3

\* A page that is shown, or a frame that is passed over.
LEMMA FrameLive ==
  ASSUME LiveInv, Frame
  PROVE  Typed' /\ Started' /\ ListInv(display, log)' /\ LoadInv(display, AtPage, AtParam)'
         /\ LayoutInv(display)'
<1>1. Typed /\ Started /\ ListInv(display, log) /\ LayoutInv(display)
  BY DEF LiveInv
<1>2. /\ Receive
      /\ UNCHANGED <<file, options, window_size, digits, terminal, resizes, alive, faults, uptime>>
  BY DEF Frame, window
<1>3. /\ turn \in 1..10 /\ turn' \in 1..10 /\ page_num' \in 0..10 /\ last_page_num' \in 0..10
      /\ WindowTyped /\ digits \in VALUE_SIZES
  BY <1>1, <1>2 DEF Typed, Receive, Following
<1>4. WindowTyped'
  BY <1>1, <1>2 DEF WindowTyped, Typed
<1>5. CASE turn = Wanted(last_page_num')
  <2>1. pc' = "top" /\ get_first_page' = FALSE /\ shown' = turn
    BY <1>2, <1>5 DEF Receive
  <2>2. PICK changed \in SUBSET {id \in Watched : id[1] = turn} :
          Len(log) + Cardinality(changed) <= MAX_CHANGES /\ UpdatePage(turn, changed)
    BY <2>1 DEF Frame
  <2>3. ChangedOn(turn, changed)
    <3>1. ASSUME NEW id \in changed PROVE \E i \in 1..Len(Page[turn]) : id = <<turn, i>>
      <4>1. id \in Params /\ id[1] = turn
        BY <3>1, LiveDataAssumption
      <4> QED
        BY <4>1, ParamFacts
    <3> QED
      BY <3>1 DEF ChangedOn
  <2>4. display \in Displays /\ log \in Seq(Seq(Cells))
    BY <1>1 DEF Typed
  <2>5. DisplayInv([display |-> display, log |-> log], turn, 0)
    BY <1>1, <1>2, <1>5, NextPageStarts DEF DisplayInv
  <2>6. PICK new \in Progress :
          /\ DisplayInv(new, turn, Len(Page[turn]))
          /\ Len(new.log) <= Len(log) + Cardinality(changed)
          /\ display' = [new.display EXCEPT !.finished_loading = @ \/ turn = 10]
          /\ log' = new.log
    BY <1>3, <2>2, <2>3, <2>4, <2>5, PageKeeps
  <2>7. /\ display' \in Displays
        /\ ListInv(display', new.log) /\ LoadInv(display', turn, Len(Page[turn]))
        /\ LayoutInv(display')
        /\ turn = 10 => display'.finished_loading
    BY <1>3, <2>6, PageEnds
  <2>8. log' \in Seq(Seq(Cells)) /\ Len(log') <= MAX_CHANGES
    <3>1. new.log \in Seq(Seq(Cells)) /\ Len(new.log) \in Nat /\ Len(log) \in Nat
      BY <2>4 DEF Progress
    <3>2. Cardinality(changed) \in Nat /\ MAX_CHANGES \in Nat
      BY <1>3, <2>3, ChangedCounted, LiveDataAssumption
    <3> QED
      BY <2>2, <2>6, <3>1, <3>2
  <2>9. Typed'
    <3>1. get_first_page' \in BOOLEAN /\ shown' \in 0..10 /\ pc' = "top"
      <4>1. get_first_page' \in BOOLEAN
        BY <2>1
      <4>2. shown' \in 0..10
        BY <1>3, <2>1
      <4> QED
        BY <2>1, <4>1, <4>2
    <3>2. /\ terminal' \in Terminals /\ alive' \in BOOLEAN /\ faults' \in 0..MAX_FAULTS
          /\ resizes' \in 0..MAX_RESIZES /\ uptime' \in {"short", "long", "over"}
          /\ digits' \in VALUE_SIZES
      BY <1>1, <1>2 DEF Typed
    <3> QED
      BY <1>3, <1>4, <2>7, <2>8, <3>1, <3>2 DEF Typed
  <2>10. Started'
    BY <1>3, <2>1, <2>7 DEF Started
  <2>11. ListInv(display, log)'
    BY <1>2, <2>6, <2>7, ListPrimed
  <2>12. LoadInv(display, AtPage, AtParam)'
    <3>1. AtPage' = turn /\ AtParam' = Len(Page[turn])
      BY <2>1 DEF AtPage, AtParam
    <3> QED
      BY <1>2, <2>7, <3>1, LoadPrimed
  <2>13. LayoutInv(display)'
    BY <1>2, <2>7, LayoutPrimed
  <2> QED
    BY <2>9, <2>10, <2>11, <2>12, <2>13
<1>6. CASE turn # Wanted(last_page_num')
  <2>1. pc' \in {"first", "missed"} /\ UNCHANGED <<get_first_page, shown>>
    BY <1>2, <1>6 DEF Receive
  <2>2. UNCHANGED <<display, log>>
    BY <2>1 DEF Frame
  <2>3. Typed'
    <3>1. get_first_page' \in BOOLEAN /\ shown' \in 0..10 /\ pc' \in {"first", "missed"}
      BY <1>1, <2>1 DEF Typed
    <3>2. display' \in Displays /\ log' \in Seq(Seq(Cells)) /\ Len(log') <= MAX_CHANGES
      BY <1>1, <2>2 DEF Typed
    <3>3. /\ terminal' \in Terminals /\ alive' \in BOOLEAN /\ faults' \in 0..MAX_FAULTS
          /\ resizes' \in 0..MAX_RESIZES /\ uptime' \in {"short", "long", "over"}
          /\ digits' \in VALUE_SIZES
      BY <1>1, <1>2 DEF Typed
    <3> QED
      BY <1>3, <1>4, <3>1, <3>2, <3>3 DEF Typed
  <2>4. Started'
    BY <1>1, <2>1, <2>2 DEF Started
  <2> QED
    BY <1>2, <2>1, <2>2, <2>3, <2>4, DisplayKept
<1> QED
  BY <1>5, <1>6

\* Between two frames only the options are read, the window and the Kinetek change, and time
\* passes.
LEMMA OtherLive ==
  ASSUME LiveInv, \/ Options \/ TimeOut \/ KinetekFault \/ Resume \/ Resize \/ Outlast
                  \/ UNCHANGED vars
  PROVE  Typed' /\ Started' /\ ListInv(display, log)' /\ LoadInv(display, AtPage, AtParam)'
         /\ LayoutInv(display)'
<1>1. Typed /\ Started /\ ListInv(display, log) /\ LayoutInv(display)
  BY DEF LiveInv
<1>2. /\ UNCHANGED <<display, log, shown, get_first_page, window_size, digits>>
      /\ pc' = "parse" => pc = "parse"
      /\ last_page_num' = last_page_num
  BY DEF Options, TimeOut, KinetekFault, Resume, Resize, Outlast, vars, pages, window, kinetek
<1>3. Started'
  BY <1>1, <1>2 DEF Started
<1>4. Typed'
  <2>1. /\ pc' \in {"parse", "hung", "top", "page", "first", "missed", "ended"}
        /\ page_num' \in 0..10
    BY <1>1 DEF Options, TimeOut, KinetekFault, Resume, Resize, Outlast, vars, pages, Typed
  <2>2. terminal' \in Terminals /\ resizes' \in 0..MAX_RESIZES
    BY <1>1, LiveDataAssumption
    DEF Options, TimeOut, KinetekFault, Resume, Resize, Outlast, vars, window, Typed
  <2>3. turn' \in 1..10 /\ alive' \in BOOLEAN /\ faults' \in 0..MAX_FAULTS
    <3>1. turn \in 1..10 /\ alive \in BOOLEAN /\ faults \in 0..MAX_FAULTS /\ MAX_FAULTS \in Nat
      BY <1>1, LiveDataAssumption DEF Typed
    <3>2. CASE KinetekFault
      <4>1. turn' \in 1..10
        <5>1. turn' = Following(turn) \/ turn' = turn
          BY <3>2 DEF KinetekFault
        <5> QED
          BY <3>1, <5>1 DEF Following
      <4>2. alive' = alive \/ alive' = FALSE
        BY <3>2 DEF KinetekFault
      <4>3. alive' \in BOOLEAN
        BY <3>1, <4>2
      <4>4. faults' \in 0..MAX_FAULTS
        BY <3>1, <3>2 DEF KinetekFault
      <4> QED
        BY <4>1, <4>3, <4>4
    <3>3. CASE Resume
      BY <3>1, <3>3 DEF Resume
    <3>4. CASE Options \/ TimeOut \/ Resize \/ Outlast \/ UNCHANGED vars
      BY <3>1, <3>4 DEF Options, TimeOut, Resize, Outlast, vars, kinetek
    <3> QED
      BY <3>2, <3>3, <3>4
  <2>4. uptime' \in {"short", "long", "over"}
    BY <1>1 DEF Options, TimeOut, KinetekFault, Resume, Resize, Outlast, vars, Typed
  <2>5. WindowTyped'
    BY <1>1, <1>2 DEF WindowTyped, Typed
  <2> QED
    BY <1>1, <1>2, <2>1, <2>2, <2>3, <2>4, <2>5 DEF Typed
<1>5. LayoutInv(display)'
  BY <1>1, <1>2, LayoutPrimed
<1>6. AtPage' = AtPage /\ AtParam' = AtParam
  BY <1>2 DEF AtPage, AtParam
<1>7. LoadInv(display, AtPage, AtParam)'
  <2>1. LoadInv(display', AtPage, AtParam)
    BY <1>2 DEF LiveInv
  <2>2. CASE options' = options
    BY <1>6, <2>1, <2>2, LoadPrimed
  <2>3. CASE pc = "parse"
    <3>1. ~display.finished_loading
      BY <1>1, <2>3 DEF Started
    <3> QED
      BY <1>2, <1>6, <2>1, <3>1 DEF LoadInv, Loading
  <2>4. pc = "parse" \/ options' = options
    BY DEF Options, TimeOut, KinetekFault, Resume, Resize, Outlast, vars
  <2> QED
    BY <2>2, <2>3, <2>4
<1>8. ListInv(display, log)'
  <2>1. uptime' = uptime \/ uptime' = "over"
    BY DEF Options, TimeOut, KinetekFault, Resume, Resize, Outlast, vars
  <2>2. ListInv(display', log')
    BY <1>1, <1>2
  <2>3. CASE uptime' = uptime
    BY <2>2, <2>3, ListPrimed
  <2>4. CASE uptime' = "over"
    BY <2>2, <2>4 DEF ListInv, ShortList
  <2> QED
    BY <2>1, <2>3, <2>4
<1> QED
  BY <1>3, <1>4, <1>5, <1>7, <1>8

LEMMA LiveKept == LiveInv /\ [Next]_vars => LiveInv'
<1> SUFFICES ASSUME LiveInv, [Next]_vars PROVE LiveInv'
  OBVIOUS
<1>1. Remembered'
  BY StepKeeps DEF LiveInv
<1>2. /\ Typed' /\ Started' /\ ListInv(display, log)' /\ LoadInv(display, AtPage, AtParam)'
      /\ LayoutInv(display)'
  BY CheckWindowLive, FrameLive, OtherLive DEF Next
<1> QED
  BY <1>1, <1>2 DEF LiveInv

-----------------------------------------------------------------------------
(* What the invariant says of the display. *)

LEMMA LiveIsTyped ==
  ASSUME LiveInv, OptionsRight
  PROVE  TypeOK
<1>1. Typed /\ LoadInv(display, AtPage, AtParam) /\ LayoutInv(display)
  BY DEF LiveInv
<1>2. display \in Displays
  BY <1>1 DEF Typed
<1>3. ASSUME NEW s \in sections
      PROVE  /\ display.params[s] \in Seq(Params)
             /\ display.param_index[s] \in -1..Height(display, s)
             /\ display.place[s].x >= -1 /\ display.place[s].y >= -1
  <2>1. display.params[s] \in Seq(Params) /\ Height(display, s) \in Nat
    BY <1>2, DisplayFields, SizeFacts
  <2>2. display.param_index[s] \in -1..Height(display, s)
    <3>1. display.param_index[s] = -1 \/ display.param_index[s] \in -1..Len(display.params[s])
      BY <1>1 DEF LoadInv, Loading, Loaded
    <3> QED
      BY <2>1, <3>1 DEF Height
  <2> QED
    BY <1>1, <2>1, <2>2 DEF LayoutInv
<1>4. display.mislabelled \subseteq sections
  BY <1>2, DisplayFields
<1> QED
  BY <1>1, <1>3, <1>4 DEF TypeOK, Typed, WindowTyped, OptionsRight

LEMMA LiveIsWhole ==
  ASSUME LiveInv
  PROVE  SectionsAreWhole
<1> SUFFICES ASSUME display.finished_loading, NEW s \in sections
             PROVE  LET params == display.params[s]
                    IN /\ ToSet(params) = ParamsOf[s]
                       /\ ~Twice(s) => \A i \in 2..Len(params) : Earlier(params[i - 1], params[i])
  BY DEF SectionsAreWhole
<1> DEFINE params == display.params[s]
<1>1. /\ params \in Seq(ParamsOf[s])
      /\ ToSet(params) = ParamsOf[s]
      /\ Total(s) <= Len(params)
      /\ Len(params) = Total(s) => Ordered(params)
  BY DEF LiveInv, LoadInv, Loaded
<1>2. Total(s) \in Nat /\ Len(params) \in Nat
  BY <1>1, BeforeFacts
<1>3. ~Twice(s) => Ordered(params)
  BY <1>1, <1>2 DEF Twice, Height, Total
<1> HIDE DEF params
<1>4. ASSUME Ordered(params), NEW i \in 2..Len(params)
      PROVE  Earlier(params[i - 1], params[i])
  <2>1. i - 1 \in 1..Len(params) /\ i \in 1..Len(params) /\ i - 1 < i
    BY <1>2
  <2>2. params[i - 1] \in ParamsOf[s] /\ params[i] \in ParamsOf[s]
    BY <1>1, <2>1
  <2>3. Place(params[i - 1]) = i - 1 /\ Place(params[i]) = i
    BY <1>4, <2>1 DEF Ordered
  <2> QED
    BY <2>1, <2>2, <2>3, PlacesInOrder DEF ParamsOf
<1> QED
  BY <1>1, <1>3, <1>4 DEF params

LEMMA LiveMeetsLabels ==
  ASSUME LiveInv
  PROVE  ValuesMeetLabels
<1> SUFFICES ASSUME NEW s \in display.mislabelled PROVE Twice(s)
  BY DEF ValuesMeetLabels
<1>1. LoadInv(display, AtPage, AtParam) /\ s \in sections
  BY DisplayFields DEF LiveInv, Typed
<1>2. Loaded(display, s, AtPage, AtParam)
  BY <1>1 DEF LoadInv
<1> QED
  BY <1>2 DEF Loaded, Twice, Height, Total

LEMMA LiveCoversNothing ==
  ASSUME LiveInv
  PROVE  NothingIsCovered
<1>1. /\ \A s \in Shown(display) : /\ Inside(display, s)
                                   /\ display.cleared => Clear(display, s)
      /\ TallFor(display) => \A s, t \in Shown(display) : s # t => ApartIn(display, s, t)
  BY DEF LiveInv, LayoutInv
<1>2. Displayed = Shown(display) /\ (Tall <=> TallFor(display))
  BY DEF Displayed, Shown, Tall, TallFor
<1>3. \A s, t \in sections : ApartIn(display, s, t) => Apart(s, t)
  BY DEF ApartIn, Apart
<1>4. Shown(display) \subseteq sections
  BY DEF Shown
<1> QED
  BY <1>1, <1>2, <1>3, <1>4 DEF NothingIsCovered, Inside, Clear

-----------------------------------------------------------------------------
(* Theorems *)

\* Pages are shown one after the other, and from page 1 on after a resize, whatever is lost
\* and however long the Kinetek is silent (LiveData.cpp:137-190).
THEOREM PagesFollow == Spec => PagesInOrder
<1>1. Init => Remembered
  BY DEF Init, Remembered
<1>2. Remembered /\ [Next]_vars =>
        /\ Remembered'
        /\ [shown' # shown =>
              shown' = Following(shown) \/ (shown' = 1 /\ get_first_page)]_shown
  BY StepKeeps
<1> QED
  BY <1>1, <1>2, PTL DEF Spec, PagesInOrder

\* Whatever the file holds, parse_ini shows the sections it sets under [STATE] or [ANALOG],
\* lists the changes of those it sets under [CHANGES], and hangs only on a file whose headings
\* are incomplete (LiveData.cpp:1055-1181).
THEOREM OptionsFollowFile == Spec => []OptionsAreTheFile
<1>1. OptionsRight => OptionsAreTheFile
  BY DEF OptionsRight
<1>2. OptionsRight /\ [Next]_vars => OptionsRight'
  BY OptionsKept
<1> QED
  BY <1>1, <1>2, OptionsInit, PTL DEF Spec

\* Every variable keeps its type; a row that a value is written to is one of its section
\* (update_param_s, LiveData.cpp:1007-1053).
THEOREM TypesHold == Spec => []TypeOK
<1>1. LiveInv /\ OptionsRight => TypeOK
  BY LiveIsTyped
<1>2. OptionsRight /\ [Next]_vars => OptionsRight'
  BY OptionsKept
<1> QED
  BY <1>1, <1>2, OptionsInit, InitLive, LiveKept, PTL DEF Spec

\* Once page 10 has been shown no section lacks a parameter, and one that was loaded once has
\* them in the order of the pages, whatever was lost while it was loaded (update_section,
\* LiveData.cpp:859-889).
THEOREM SectionsLoadWhole == Spec => []SectionsAreWhole
<1>1. LiveInv => SectionsAreWhole
  BY LiveIsWhole
<1> QED
  BY <1>1, InitLive, LiveKept, PTL DEF Spec

\* The row counter of a section stays in step with the pages, over lost frames and resizes, so
\* that a value is written beside its own label (update_param_s, LiveData.cpp:1029-1047).
THEOREM LabelsMatch == Spec => []ValuesMeetLabels
<1>1. LiveInv => ValuesMeetLabels
  BY LiveMeetsLabels
<1> QED
  BY <1>1, InitLive, LiveKept, PTL DEF Spec

\* Cut into rows of its own width, the list holds the latest changes, newest first, even where
\* older and narrower ones are still behind them (update_changes, LiveData.cpp:798-857).
THEOREM LatestAreListed == Spec => []ListShowsLatest
<1>1. LiveInv => ListShowsLatest
  BY ListIsLatest DEF LiveInv, Typed
<1> QED
  BY <1>1, InitLive, LiveKept, PTL DEF Spec

\* However sections are placed, and for every window tall enough, none covers another, leaves
\* the window or runs into the list of changes (update_section, LiveData.cpp:891-952).
THEOREM NothingCovered == Spec => []NothingIsCovered
<1>1. LiveInv => NothingIsCovered
  BY LiveCoversNothing
<1> QED
  BY <1>1, InitLive, LiveKept, PTL DEF Spec
=============================================================================
