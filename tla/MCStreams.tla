----------------------------- MODULE MCStreams -----------------------------
(* Streams with two small files, neither with a newline at its end.  No     *)
(* body holds both a reference and text after it: such texts grow for ever. *)
EXTENDS Streams

c(k) == Item(k, NoFile)
MCContent == [f \in Files |->
  IF f = "f.v" THEN <<c("a"), c("reference"), Newline, c("include")>>
               ELSE <<c("reference"), c("b"), c("reference")>>]
MCBodies == {<<>>, <<c("x"), c("y")>>, <<c("reference")>>}
=============================================================================
