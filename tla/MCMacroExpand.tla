--------------------------- MODULE MCMacroExpand ---------------------------
(* MacroExpand with one file, which refers to the macro six times, with    *)
(* at most four references between one piece of text and the next.         *)
EXTENDS MacroExpand

text == Item("text", NoFile)
ref  == Item("reference", NoFile)
MCContent ==
  [f \in Files |-> <<text, ref, ref, Newline, text, ref, ref, ref, ref>>]

(* Four is few: OnlyRecursionReported of StreamsProofs speaks of this text. *)
numbers == [i \in 0 .. 9 |-> <<4, 0, 1, 2, 2, 0, 1, 2, 3, 4>>[i + 1]]
ASSUME FewAssumption ==
  /\ RecursionMax >= 2
  /\ \A f \in Files :
       /\ DOMAIN numbers = 0 .. Len(Content[f])
       /\ Range(numbers) \subseteq 0 .. RecursionMax + 1
       /\ Numbers(Content[f], numbers)

Texts == UNION {[1 .. n -> {ref, text, Item("white", NoFile)}] : n \in 0 .. 3}

(* Text before the only reference, which ends the definition. *)
ReferenceEnds(s) ==
  /\ s # <<>> /\ Last(s) = ref /\ ~ Refers(Front(s))
  /\ \E i \in 1 .. Len(s) : s[i] = text

MCBodies      == {s \in Texts : ~ ReferenceEnds(s)}
MCTextThenRef == {<<text, ref>>}
=============================================================================
