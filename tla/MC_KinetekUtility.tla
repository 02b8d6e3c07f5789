------------------------- MODULE MC_KinetekUtility -------------------------
\* Every command line of up to three options, with can0 or can1 or both available.
EXTENDS KinetekUtility

SomeParams == {7, 255}
TwoInterfaces == {"can0", "can1"}
Opt(k, n, text) == [key |-> k, num |-> n, name |-> text]
SomeOptions ==
  {Opt("r", 7, "other"), Opt("r", 255, "other"), Opt("r", -1, "stu"), Opt("w", 7, "other"),
   Opt("w", -1, "hex"), Opt("w", -1, "stu"), Opt("w", -1, "other"), Opt("v", 7, "other"),
   Opt("v", 255, "other"), Opt("c", -1, "other"), Opt("e", 7, "other"),
   Opt("h", -1, "other"), Opt("i", -1, "can0"), Opt("i", -1, "can1")}
Lines == UNION {[1..n -> SomeOptions] : n \in 0..3}
=============================================================================
