---------------------------- MODULE MC_StuParam ----------------------------
\* Four rows of four bytes: a row of runtime values, one with a parameter that is kept,
\* one with an unused parameter, and the last one with the checksum.
EXTENDS StuParam

NoBytes == <<>>

\* A good memory of the given parameters.
Memory(runtime, kept, p, q, last) ==
  LET total == kept + MapThenSumSet(LAMBDA i : InUse(<<p, q, last>>[i]), 1..3)
  IN  [n \in Rows |->
         CASE n = 0 -> <<runtime, runtime, runtime, runtime>>
           [] n = 1 -> <<runtime, runtime, runtime, kept>>
           [] n = 2 -> <<p, UNUSED, UNUSED, q>>
           [] n = 3 -> <<last, UNUSED>> \o TwoBytes(total)]

FileOf(m) == [fw |-> 5, header_ok |-> TRUE, lines |-> [n \in Rows |-> LineOf(n, m[n])]]

Held == Memory(3, 20, 200, 90, 1)
GoodFile == FileOf(Memory(7, 40, 200, 100, 2))
\* Its checksum is 255.
FullByte == FileOf(Memory(0, 55, 100, 50, 50))

\* Its checksum is 510, and 255 is what it says.
HalfMarked == FileOf([Memory(0, 55, 200, 200, 55) EXCEPT ![3] = <<55, UNUSED, UNUSED, 0>>])

BadFiles ==
  {[GoodFile EXCEPT !.header_ok = FALSE],
   [GoodFile EXCEPT !.fw = 4],
   [GoodFile EXCEPT !.lines[2].checksum = 1],
   [GoodFile EXCEPT !.lines[1] = LineOf(1, <<0, 0, 0, 41>>)]}

AllFiles == {GoodFile, FullByte, HalfMarked} \cup BadFiles
Memories == {Held}
=============================================================================
