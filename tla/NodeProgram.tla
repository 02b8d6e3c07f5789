---------------------------- MODULE NodeProgram ----------------------------
(***************************************************************************)
(* What vcis-util promises about the program of a CANopen node: the old    *)
(* one is erased only while it stands still, a new one is written only     *)
(* where nothing is left of the old, and only what was received to its end *)
(* is started (the order of the steps in CU_TASK_PROGRAM.c:37-42).         *)
(***************************************************************************)
VARIABLES program, running

Images == {"image", "truncated", "bad"}      \* what may have been received to its end
Programs == Images \union {"old", "none", "part"}

Init == program = "old" /\ running \in BOOLEAN

Stop == running' = FALSE /\ UNCHANGED program
Clear == ~running /\ program' = "none" /\ UNCHANGED running
Receive == ~running /\ program \in {"none", "part"} /\ program' = "part" /\ UNCHANGED running
Complete == ~running /\ program = "part" /\ program' \in Images /\ UNCHANGED running
Start == program \in Images /\ running' = TRUE /\ UNCHANGED program

Next == Stop \/ Clear \/ Receive \/ Complete \/ Start

Spec == Init /\ [][Next]_<<program, running>>
=============================================================================
