------------------------------- MODULE Screen -------------------------------
(***************************************************************************)
(* What a reader of the terminal expects to see: a growing list of lines   *)
(* of characters.  The framebuffer console (Console) shows the last lines  *)
(* of it; the text session (TextSession) writes to it.                     *)
(***************************************************************************)
EXTENDS SequencesExt

NewLine(doc) == Append(doc, <<>>)

(* A character goes to the end of the last line, or starts a line of its   *)
(* own when that one is full.                                              *)
PutChar(doc, c, columns) ==
  IF Len(Last(doc)) >= columns THEN Append(doc, <<c>>)
  ELSE Append(Front(doc), Append(Last(doc), c))

(* Rubs out the last character at or below line lowest; empty lines after  *)
(* it are given up.                                                        *)
RubOut(doc, lowest) ==
  LET written == {r \in lowest..Len(doc) : doc[r] # <<>>}
  IN  IF written = {} THEN doc
      ELSE Append(SubSeq(doc, 1, Max(written) - 1), Front(doc[Max(written)]))
=============================================================================
