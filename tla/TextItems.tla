----------------------------- MODULE TextItems -----------------------------
(***************************************************************************)
(* What the preprocessor reads, piece by piece: characters, and the marks  *)
(* that the end of a file leaves in the text around it.                    *)
(***************************************************************************)
EXTENDS Naturals, SequencesExt

CONSTANTS
  Letters,   \* characters whose only use is to tell the order of the text
  Files,
  NoFile,
  Content,   \* the text of each file
  Bodies     \* the texts that macros, `` and `" put back

Marks == {"file end", "leave", "resume after", "enter"}
Kinds == Letters \cup {"text", "reference", "include", "newline"}
Items == [kind : Kinds \cup Marks, file : Files \cup {NoFile}]
Chars == {i \in Items : i.kind \notin Marks}   \* what a text may hold
Item(kind, file) == [kind |-> kind, file |-> file]

ASSUME NoFileAssumption == NoFile \notin Files
ASSUME LettersAssumption == Letters \cap Marks = {}
ASSUME TextAssumption == Content \in [Files -> Seq(Chars)] /\ Bodies \subseteq Seq(Chars)

Newline   == Item("newline", NoFile)
FileEnd   == Item("file end", NoFile)
Leave(f)  == Item("leave", f)        \* `line .. 2
Resume(f) == Item("resume after", f)
Enter(f)  == Item("enter", f)        \* `line .. 0

Ending(f) == <<Newline, FileEnd, Leave(f), Resume(f)>>

EndsLine(i) == i.kind \in {"newline", "enter", "leave"}
=============================================================================
