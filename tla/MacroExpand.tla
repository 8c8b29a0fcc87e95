---------------------------- MODULE MacroExpand ----------------------------
(***************************************************************************)
(* Expansion of a macro without parameters over the stack of streams: the  *)
(* VP_DEFREF case of getStateToken at the top level, whose recursion guard *)
(* m_defDepth counts the substitutions since text last reached the caller, *)
(* together with the guard on the depth of the stack of streams.           *)
(*                                                                         *)
(* The text refers to one macro, which is defined, and includes no file.   *)
(* A reference is matched only when what follows it is known, so flex has  *)
(* read on, and may have left the stream that the reference came from,     *)
(* before it is substituted.                                               *)
(***************************************************************************)
EXTENDS Streams

VARIABLES
  defDepth,   \* m_defDepth, saturated just above RecursionMax
  value       \* the macro's definition

expandVars == <<streamVars, defDepth, value>>

Refers(text) == \E i \in 1 .. Len(text) : text[i].kind = "reference"

(* What lex() is called for: the token before is done with. *)
WantsToken == token.kind # "reference"

(* A token that a longer match could continue needs the character after it. *)
Undecided ==
  \/ unread = <<>>
  \/ Len(unread) = 1 /\ ~ EndsLine(Head(unread))

ReadAhead == WantsToken /\ Undecided /\ Fill /\ UNCHANGED <<defDepth, value>>

(* A token is matched; one of text is returned, and the guard reset.       *)
(* Mutant: it is not reset.                                                *)
MutMatch == WantsToken /\ ~ Undecided /\ Scan /\ UNCHANGED <<defDepth, value>>
Match ==
  /\ WantsToken /\ ~ Undecided
  /\ Scan
  /\ defDepth' = IF token'.kind = "text" THEN 0 ELSE defDepth
  /\ UNCHANGED value

MutTooDeep == defDepth > RecursionMax + 1   \* mutant: off by one
TooDeep == defDepth > RecursionMax

(* "Recursive `define substitution": the reference is dropped. *)
RefuseReference ==
  /\ ~ isEof /\ token.kind = "reference" /\ TooDeep
  /\ errs' = TRUE /\ token' = Newline
  /\ UNCHANGED <<streams, depth, unread, defDepth, value>>

(* Mutant: the substitutions are not counted. *)
MutSubstitute ==
  /\ ~ TooDeep
  /\ Unput(value)
  /\ UNCHANGED <<defDepth, value>>

Substitute ==
  /\ ~ TooDeep
  /\ Unput(value)
  /\ defDepth' = defDepth + 1
  /\ UNCHANGED value

(* By the program. *)
Open == isEof /\ (\E f \in Files : OpenFile(f)) /\ UNCHANGED <<defDepth, value>>

(* One step of what getline() goes on doing. *)
Turn == ReadAhead \/ Match \/ RefuseReference \/ Substitute

ExpandInit == StreamInit /\ defDepth = 0 /\ value \in Bodies
ExpandNext == Turn \/ Open
ExpandSpec == ExpandInit /\ [][ExpandNext]_expandVars /\ WF_expandVars(Turn)
-----------------------------------------------------------------------------
ExpandTypeOK ==
  /\ StreamTypeOK
  /\ defDepth \in 0 .. RecursionMax + 1 /\ value \in Bodies

(* Every opened text is read to its end, whatever macros refer to:         *)
(* recursive substitution is stopped.                                      *)
EndReached == ~ isEof ~> isEof

(* "Recursive `define substitution" is said of recursive macros only.      *)
ErrorMeansRecursion == errs => Refers(value)

(* When that is so: no text returns to the caller after more references in *)
(* a row than may be substituted.  The places of such a text can be        *)
(* numbered so that the number grows at a reference and falls only at text *)
(* that is returned, from the most that m_defDepth can be: the text before *)
(* may have left it there.                                                 *)
Numbers(t, c) ==
  /\ c[0] = RecursionMax + 1
  /\ \A i \in 1 .. Len(t) :
       /\ t[i].kind = "reference" => c[i] > c[i - 1]
       /\ t[i].kind # "text" => c[i] >= c[i - 1]
FewInARow(t) ==
  \E c \in [0 .. Len(t) -> 0 .. RecursionMax + 1] : Numbers(t, c)

(* A macro that refers to itself never expands in silence: once it is      *)
(* referred to, an error is reported.                                      *)
SelfReferenceReported == token.kind = "reference" /\ Refers(value) ~> errs
=============================================================================
