--------------------------- MODULE UtpByteStream ---------------------------
(***************************************************************************)
(* What one direction of a libutp stream promises to its two applications: *)
(* the bytes read are a prefix of the bytes written, each once and in      *)
(* order, and the end is told only when the writer has ended the stream    *)
(* and everything was read, or when one of them has reset the stream.      *)
(* UtpStream is shown to implement it.                                     *)
(***************************************************************************)
EXTENDS Integers, Sequences, SequencesExt

VARIABLES
  sent,   \* the bytes written so far
  fin,    \* the writer has ended the stream
  got,    \* the bytes read so far
  eof,    \* the reader was told the end
  reset   \* one of the two has reset the stream

byteVars == <<sent, fin, got, eof, reset>>

ByteInit == sent = <<>> /\ ~fin /\ got = <<>> /\ ~eof /\ ~reset

Put ==
  /\ ~fin /\ IsPrefix(sent, sent') /\ fin' \in BOOLEAN
  /\ UNCHANGED <<got, eof, reset>>

Take ==
  /\ ~eof \/ reset
  /\ IsPrefix(got, got') /\ IsPrefix(got', sent)
  /\ UNCHANGED <<sent, fin, eof, reset>>

End ==
  /\ (fin /\ got = sent) \/ reset
  /\ eof' = TRUE
  /\ UNCHANGED <<sent, fin, got, reset>>

Break ==
  /\ reset' = TRUE
  /\ UNCHANGED <<sent, fin, got, eof>>

ByteNext == Put \/ Take \/ End \/ Break

ByteSpec == ByteInit /\ [][ByteNext]_byteVars
=============================================================================
