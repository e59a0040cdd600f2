--------------------------- MODULE DeflateFormat ---------------------------
(***************************************************************************)
(* What a decoder makes of the pieces deflate puts into its output, in the *)
(* order it puts them: a header, blocks of which exactly the last one is   *)
(* marked final, and the trailer.  A piece where none may stand makes the  *)
(* stream "bad", and it stays bad.                                         *)
(***************************************************************************)

Sections == {"head", "between", "open", "openfinal", "ended", "trailed", "bad"}

\* The section of the stream after token t in section s.
Parse(s, t) ==
  CASE t = "headend"   /\ s = "head"      -> "between"
    [] t = "block"     /\ s = "between"   -> "between"
    [] t = "final"     /\ s = "between"   -> "ended"
    [] t = "open"      /\ s = "between"   -> "open"
    [] t = "openfinal" /\ s = "between"   -> "openfinal"
    [] t = "symbol"    /\ s \in {"open", "openfinal"} -> s
    [] t = "close"     /\ s = "open"      -> "between"
    [] t = "close"     /\ s = "openfinal" -> "ended"
    [] t = "trailer"   /\ s = "ended"     -> "trailed"
    [] OTHER -> "bad"
=============================================================================
