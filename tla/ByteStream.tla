---------------------------- MODULE ByteStream -----------------------------
(***************************************************************************)
(* What one direction of a connection promises to the two programs at its  *)
(* ends: the reader sees what the writer wrote, in order, nothing twice    *)
(* and nothing invented, and is told that the stream has ended only when   *)
(* the writer has ended it and everything has been read.                   *)
(***************************************************************************)
EXTENDS Sequences, SequencesExt

VARIABLES
  written,  (* everything the writer wrote                                  *)
  ended,    (* the writer will write no more                                *)
  read,     (* everything the reader has been given                         *)
  eof       (* the reader has been told that the stream ended               *)

vars == <<written, ended, read, eof>>

Init == written = <<>> /\ ~ended /\ read = <<>> /\ ~eof

Write ==
  /\ ~ended
  /\ IsStrictPrefix(written, written')
  /\ UNCHANGED <<ended, read, eof>>

End == ended' = TRUE /\ UNCHANGED <<written, read, eof>>

Read ==
  /\ IsStrictPrefix(read, read')
  /\ IsPrefix(read', written)
  /\ UNCHANGED <<written, ended, eof>>

TellEof ==
  /\ ended
  /\ read = written
  /\ eof' = TRUE
  /\ UNCHANGED <<written, ended, read>>

Next == Write \/ End \/ Read \/ TellEof

Spec == Init /\ [][Next]_vars
============================================================================
