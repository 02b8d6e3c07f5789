----------------------------- MODULE HexReader -----------------------------
(***************************************************************************)
(* The life of one HexUtility object: a file is loaded, read chunk by      *)
(* chunk, and the object is cleared for the next file (IAP::load_hex_file, *)
(* IAP::clear).  The caller of this module stops at the first -1; what IAP *)
(* meets when it does not is in IapUpload.                                 *)
(***************************************************************************)
EXTENDS HexUtility

CONSTANT Files   \* the files that may be loaded

ASSUME FilesAssumption == \A f \in Files : HexFile(f)

VARIABLES file, ut, phase,
          answer   \* what the last get_next_8_bytes returned: -1, or the
                   \* number of the chunk it put in byte_array; 0 before

vars == <<file, ut, phase, answer>>

TypeOK ==
  /\ file \in Files
  /\ ut \in [curr_line : 0..Len(file), is_first_8 : BOOLEAN, is_eof : BOOLEAN, is_open : BOOLEAN]
  /\ ut.is_open => ut.curr_line > 0
  /\ phase \in {"new", "loaded", "exit"}
  /\ answer \in Int

Init ==
  /\ file \in Files
  /\ ut = NewReader
  /\ phase = "new"
  /\ answer = 0

-----------------------------------------------------------------------------
\* The whole file is read once; a bad record, or a stream left open, ends the
\* program.
LoadHexFileData ==
  /\ phase = "new"
  /\ phase' = IF Loads(file) /\ ~ut.is_open THEN "loaded" ELSE "exit"
  /\ UNCHANGED <<file, ut, answer>>

ReadChunk ==
  /\ phase = "loaded"
  /\ ~AtEnd(file, ut)
  /\ ut' = AfterChunk(file, ut)
  /\ answer' = ChunkNumber(file, NextChunk(file, ut))
  /\ UNCHANGED <<file, phase>>

ReadEnd ==
  /\ phase = "loaded"
  /\ AtEnd(file, ut)
  /\ ut' = AfterEnd(ut)
  /\ answer' = -1
  /\ UNCHANGED <<file, phase>>

\* The caller calls get_next_8_bytes, until it is told that there is no more.
GetNext8Bytes ==
  /\ ~ut.is_eof
  /\ ReadChunk \/ ReadEnd

M_Clear ==
  /\ phase = "loaded"
  /\ ut' = [NewReader EXCEPT !.is_open = ut.is_open]
  /\ phase' = "new"
  /\ answer' = 0
  /\ file' \in Files

\* load_hex_file on an object that was used before resets it, for any file.
Clear ==
  /\ phase = "loaded"
  /\ ut' = NewReader
  /\ phase' = "new"
  /\ answer' = 0
  /\ file' \in Files

Exited == phase = "exit" /\ UNCHANGED vars

Next == LoadHexFileData \/ GetNext8Bytes \/ Clear \/ Exited

Spec == Init /\ [][Next]_vars

-----------------------------------------------------------------------------
Stream == INSTANCE ChunkStream WITH
            length <- ChunkCount(file),
            position <- Position(file, ut)

\* Refinement: read up to the first -1, the reader delivers every chunk of the
\* file once and in order, also when it skips address records, leaves a short
\* last record early, or is cleared half way through another file
\* (HexUtility.cpp:99-206).
ImplementsStream == Stream!Spec

\* Clearing the object really closes the stream: a second load only ends the
\* program over a bad record, never because the first file is still open
\* (HexUtility.cpp:192-206, 293-297).
ReloadWorks == phase = "exit" => ~Loads(file)

\* The two passes over a file agree: when the reader reports the end, the chunks
\* it has handed out are as many as the records counted by the loading pass hold,
\* so that the byte sums of the upload can match the total checksum.
EndMeansAllRead == answer = -1 => Position(file, ut) = ChunkCount(file)
=============================================================================
