------------------------------ MODULE StuFile ------------------------------
(***************************************************************************)
(* The files of STU parameters (STUparam.cpp): a header and one line for   *)
(* each row of the Kinetek's EEPROM, with a checksum of its own, and a     *)
(* checksum of all parameters in the last two bytes of the last row.       *)
(*                                                                         *)
(* A line is the row's bytes and its checksum field; its address is its    *)
(* number, which the code never reads back.  Of the header are kept the    *)
(* firmware version and whether its checksum field is right.               *)
(***************************************************************************)
EXTENDS Integers, Sequences, FiniteSets, FiniteSetsExt

CONSTANTS NUM_STU_ROWS,   \* 16 in STUparam.h:44
          ROW_SIZE        \* 16 in STUparam.h:45

ASSUME RowsAssumption == NUM_STU_ROWS \in Nat /\ NUM_STU_ROWS > 2
ASSUME RowSizeAssumption == ROW_SIZE \in {4 * n : n \in 1..4}

UNUSED == 255

Rows == 0..(NUM_STU_ROWS - 1)
Columns == 1..ROW_SIZE
Half == ROW_SIZE \div 2

Row == [Columns -> 0..255]
Line == [data : Row, checksum : Nat]
StuFile == [fw : Nat, header_ok : BOOLEAN, lines : [Rows -> Line]]

\* What is on the disk where there is no such file, and after it was opened for
\* writing and nothing was written.
NoFile == [fw |-> 0, header_ok |-> FALSE, lines |-> <<>>]
EmptyFile == [fw |-> 0, header_ok |-> TRUE, lines |-> <<>>]

ByteSum(row) == MapThenSumSet(LAMBDA i : row[i], DOMAIN row)
LineOf(n, row) == [data |-> row, checksum |-> ROW_SIZE * n + ByteSum(row)]

\* The parameters 1 to 28 are values of the running Kinetek; 29 to 32 end the
\* second row.
Params29To32 == (ROW_SIZE - ROW_SIZE \div 4 + 1)..ROW_SIZE

\* Check 3 of validate_stu_file: the first 28 parameters become zero, and with them
\* the first two lines' checksums are made anew.
Cleaned(f) ==
  [f EXCEPT !.lines[0] = LineOf(0, [i \in Columns |-> 0]),
            !.lines[1] = LineOf(1, [i \in Columns |->
                           IF i \in Params29To32 THEN f.lines[1].data[i] ELSE 0])]

\* Check 4: the checksum of every line, and the last two bytes against the sum of the
\* parameters in use, which is first taken with these bytes and then without.
LineChecksumsHold(f) == \A n \in Rows : f.lines[n] = LineOf(n, f.lines[n].data)

LastRow(f) == f.lines[NUM_STU_ROWS - 1].data
StuTotal(f) == <<LastRow(f)[ROW_SIZE - 1], LastRow(f)[ROW_SIZE]>>

\* The parameters 29 to 32, and the used ones of the rows from the third on.
start_params_sum(f) == MapThenSumSet(LAMBDA i : f.lines[1].data[i], Params29To32)

InUse(byte) == IF byte = UNUSED THEN 0 ELSE byte
SumInUse(row, columns) == MapThenSumSet(LAMBDA i : InUse(row[i]), columns)
RowsInUse(f, last) == MapThenSumSet(LAMBDA n : SumInUse(f.lines[n].data, Columns), 2..last)

M_total_stu_checksum(f) == start_params_sum(f) + RowsInUse(f, NUM_STU_ROWS - 1)
total_stu_checksum(f) ==
  start_params_sum(f) + RowsInUse(f, NUM_STU_ROWS - 1) - StuTotal(f)[1] - StuTotal(f)[2]

TwoBytes(n) == <<n % 256, (n \div 256) % 256>>
TotalHolds(f) == StuTotal(f) = TwoBytes(total_stu_checksum(f))
=============================================================================
