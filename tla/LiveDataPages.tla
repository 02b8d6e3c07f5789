--------------------------- MODULE LiveDataPages ---------------------------
(***************************************************************************)
(* What the Kinetek puts on the ten pages of its heartbeat (LiveData.h)    *)
(* and where live data shows it (the switch of update_heartbeat).  A       *)
(* parameter is the pair of its page and its place on the page; a page is  *)
(* the sequence of the sections its parameters are shown in, in the order  *)
(* in which the code updates them.                                         *)
(***************************************************************************)
EXTENDS Integers, Sequences, FiniteSets, Functions

\* The sections in the order of the constructor: `sections' is searched in it.
StateSections == {"TRACTION_STATE", "SCRUBBER_STATE", "RECOVERY_STATE", "BATTERY_STATE",
                  "META_STATE", "ERROR_STATE", "MISC_STATE", "UNKNOWN_STATE"}
AnalogSections == {"TRACTION_ANALOG", "SCRUBBER_ANALOG", "RECOVERY_ANALOG", "MISC_ANALOG",
                   "BATTERY_ANALOG"}
sections == StateSections \union AnalogSections

LOCAL Times(n, x) == [i \in 1..n |-> x]
LOCAL T == <<"TRACTION_STATE">>
LOCAL S == <<"SCRUBBER_STATE">>
LOCAL R == <<"RECOVERY_STATE">>
LOCAL B == <<"BATTERY_STATE">>
LOCAL M == <<"MISC_STATE">>
LOCAL TA == <<"TRACTION_ANALOG">>
LOCAL SA == <<"SCRUBBER_ANALOG">>
LOCAL RA == <<"RECOVERY_ANALOG">>
LOCAL MA == <<"MISC_ANALOG">>
LOCAL ERROR == "ERROR_STATE"
LOCAL UNKNOWN == "UNKNOWN_STATE"

page1 == T \o <<ERROR>> \o T \o S \o R \o T \o T \o S \o S \o <<UNKNOWN>>
         \o Times(6, M[1]) \o T \o T
         \o T \o S \o R \o M \o S \o M \o M \o T
         \o S \o R \o M \o M \o R \o R \o S \o S
page2 == S \o S \o S \o M \o T \o T \o B \o B \o Times(4, S[1]) \o Times(12, UNKNOWN)
page3 == Times(14, ERROR) \o B \o B \o T \o T \o <<"BATTERY_ANALOG">>
page4 == MA \o MA \o TA \o TA \o MA \o SA
page5 == RA \o RA \o SA \o S \o R \o S
page6 == T \o TA \o TA \o T \o TA
page7 == TA \o MA \o RA \o MA
page8 == TA \o TA \o SA \o RA \o SA \o RA
page9 == Times(5, "META_STATE") \o SA
page10 == MA \o MA \o MA \o SA \o TA \o R \o S \o T \o B \o M \o S \o M \o M
Page == <<page1, page2, page3, page4, page5, page6, page7, page8, page9, page10>>

\* The fields of the packed page structures, in bits.  Page 3 ends in the two
\* bytes of one parameter.
fields1 == <<8, 8>> \o Times(32, 1)
fields2 == Times(12, 1) \o Times(12, 3)
fields3 == Times(16, 1) \o <<8, 8, 16>>
fields4 == Times(6, 8)
fields5 == Times(6, 8)
fields6 == <<8, 8, 16, 8, 8>>
fields7 == <<16, 16, 8, 8>>
fields8 == Times(6, 8)
fields9 == Times(6, 8)
fields10 == Times(5, 8) \o Times(8, 1)
Fields == <<fields1, fields2, fields3, fields4, fields5, fields6, fields7, fields8, fields9,
            fields10>>

Params == UNION {{<<p, i>> : i \in DOMAIN Page[p]} : p \in DOMAIN Page}
Section(id) == Page[id[1]][id[2]]

\* The six data bytes behind the page number.
PAGE_BITS == 48

ASSUME EveryFieldIsShown ==
  \A p \in DOMAIN Page :
    /\ Page[p] \in Seq(sections)
    /\ Len(Page[p]) = Len(Fields[p])
    /\ FoldFunction(+, 0, Fields[p]) = PAGE_BITS

\* The longest label of a section: its width once every parameter is loaded.
Width == [s \in sections |->
  CASE s = "TRACTION_STATE" -> 24
    [] s = "ERROR_STATE" -> 18
    [] s = "SCRUBBER_STATE" -> 28
    [] s = "RECOVERY_STATE" -> 26
    [] s = "UNKNOWN_STATE" -> 8
    [] s = "MISC_STATE" -> 19
    [] s = "BATTERY_STATE" -> 19
    [] s = "META_STATE" -> 21
    [] s = "BATTERY_ANALOG" -> 18
    [] s = "MISC_ANALOG" -> 27
    [] s = "TRACTION_ANALOG" -> 28
    [] s = "SCRUBBER_ANALOG" -> 27
    [] s = "RECOVERY_ANALOG" -> 28]
=============================================================================
