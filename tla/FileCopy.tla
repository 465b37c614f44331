------------------------------- MODULE FileCopy -------------------------------
(***************************************************************************)
(* What a file copy promises: the output is always a beginning of the      *)
(* source, it only grows, and the copy is reported done only when all of   *)
(* the source is there.                                                    *)
(***************************************************************************)
EXTENDS Naturals, Sequences

CONSTANT Source      \* the file to copy, a sequence of blocks

VARIABLES
  output,            \* the blocks of the output file
  done               \* has the copy been reported complete?

copyVars == <<output, done>>

CopyInit == output = <<>> /\ done = FALSE

Extend ==
  /\ \E n \in (Len(output) + 1) .. Len(Source) : output' = SubSeq(Source, 1, n)
  /\ UNCHANGED done

Report == output = Source /\ ~done /\ done' = TRUE /\ UNCHANGED output

CopySpec == CopyInit /\ [][Extend \/ Report]_copyVars

=============================================================================
