---------------------------- MODULE ChunkStream ----------------------------
(***************************************************************************)
(* What the hex reader promises its caller (HexUtility.h:114-117): the     *)
(* data of the file in frame-sized chunks, in order and each once, then -1 *)
(* for ever ("returns -1 if there is no more data").  Chunks are numbered  *)
(* from 1; `answer' is the last answer, 0 before the first call.           *)
(***************************************************************************)
EXTENDS Integers

VARIABLES length, position, answer

vars == <<length, position, answer>>

Init ==
  /\ length \in Nat
  /\ position = 0
  /\ answer = 0

Deliver ==
  /\ position < length
  /\ position' = position + 1
  /\ answer' = position + 1
  /\ UNCHANGED length

End ==
  /\ position = length
  /\ answer' = -1
  /\ UNCHANGED <<length, position>>

\* Another file is loaded.
Restart ==
  /\ length' \in Nat
  /\ position' = 0
  /\ answer' = 0

Next == Deliver \/ End \/ Restart

Spec == Init /\ [][Next]_vars
=============================================================================
