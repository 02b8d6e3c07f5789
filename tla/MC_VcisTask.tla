---------------------------- MODULE MC_VcisTask ----------------------------
\* vcis-util with command lines of up to two options, and some of three.
EXTENDS VcisTask

Num(k, a) == [key |-> k, arg |-> a, file |-> "missing"]
File(f) == [key |-> "f", arg |-> 0, file |-> f]
Single ==
  {File("good"), File("large"), File("missing"), Num("d", 0), Num("r", 0), Num("s", 1),
   Num("s", 130), Num("t", 2), Num("e", 258), Num("n", 200), Num("n", 329), Num("v", 0)}
Lines ==
  UNION {[1..n -> Single] : n \in 0..2} \union
  {<<Num("n", 72), File("good"), Num("r", 0)>>, <<Num("t", 2), Num("s", 1), Num("t", 3)>>,
   <<Num("s", 1), Num("e", 2), Num("d", 0)>>}
=============================================================================
