---------------------------- MODULE MC_HexReader ----------------------------
\* HexReader on every well-formed file of up to MaxLines lines made of the
\* record shapes that the reader tells apart.
EXTENDS HexReader

MaxLines == 4

Data(n, s1, s2) == [type |-> "DATA", len |-> n, sum |-> <<s1, s2>>, valid |-> TRUE]
Other(t) == [type |-> t, len |-> 0, sum |-> <<0, 0>>, valid |-> TRUE]
Bad(r) == [r EXCEPT !.valid = FALSE]

Shapes == {Data(16, 1, 2), Data(12, 1, 1), Data(8, 1, 0), Bad(Data(16, 1, 2)),
           Other("EXTENDED_LINEAR_AR"), Other("START_LINEAR_AR"), Other("END_OF_FILE")}

AllFiles == {f \in UNION {[1..n -> Shapes] : n \in 1..MaxLines} : HexFile(f)}
=============================================================================
