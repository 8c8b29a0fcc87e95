----------------------------- MODULE IfdefStack -----------------------------
(***************************************************************************)
(* The conditional-compilation state of VPreProcImp (Preproc/VPreProc.cpp):*)
(* m_ifdefStack, a stack of VPreIfEntry (on, everOn), and m_off, the       *)
(* number of entries that are not on.  Every other part of the             *)
(* preprocessor consults m_off alone, never the stack: text, `define,      *)
(* `undef and `include take effect when m_off is zero.                     *)
(*                                                                         *)
(* `chains' is a history variable, not code: the conditions of the         *)
(* branches of every open chain.  It is what CondCompile is stated over.   *)
(***************************************************************************)
EXTENDS Integers, FiniteSets, SequencesExt

CONSTANTS
  MaxNest,      \* bound: chains open at once in the inputs considered
  MaxBranches   \* bound: branches of one chain in the inputs considered

ASSUME BoundsAssumption == MaxNest \in Nat /\ MaxBranches \in Nat

VARIABLES
  off,          \* m_off
  ifdefStack,   \* m_ifdefStack, top last
  chains        \* history: see above

ifVars == <<off, ifdefStack, chains>>

Abs == INSTANCE CondCompile WITH passing <- (off = 0)

(* VPreIfEntry: everOn includes the state the entry is created with.       *)
(* Mutant: the "Note everOn includes new state" is forgotten.              *)
MutIfEntry(on, everOn) == [on |-> on, everOn |-> everOn]
IfEntry(on, everOn)    == [on |-> on, everOn |-> everOn \/ on]

ParsingOn(o)  == o - 1
ParsingOff(o) == o + 1

(* m_off once entry `last' is popped and `new' pushed in its place.        *)
(* Mutants: parsingOn is not called; it is called for every entry.         *)
MutKeepOff(last, new) == IF new.on THEN off ELSE ParsingOff(off)
MutAlwaysOn(last, new) ==
  IF new.on THEN ParsingOn(off) ELSE ParsingOff(ParsingOn(off))
ReplacedOff(last, new) ==
  LET popped == IF last.on THEN off ELSE ParsingOn(off)
  IN  IF new.on THEN popped ELSE ParsingOff(popped)

IfInit == off = 0 /\ ifdefStack = <<>> /\ chains = <<>>

(* `ifdef NAME (cond: NAME is defined) and `ifndef NAME (cond: it is not). *)
OpenIf(cond) ==
  /\ Len(ifdefStack) < MaxNest
  /\ ifdefStack' = Append(ifdefStack, IfEntry(cond, FALSE))
  /\ off' = IF cond THEN off ELSE ParsingOff(off)
  /\ chains' = Append(chains, <<cond>>)

(* The entry of the innermost chain is replaced; cond is the condition of *)
(* the new branch, consulted only when no earlier branch has been on.     *)
NextBranch(enable, cond) ==
  LET last == Last(ifdefStack)
      new  == IfEntry(enable, last.everOn)
  IN  /\ Len(Last(chains)) < MaxBranches
      /\ ifdefStack' = Append(Front(ifdefStack), new)
      /\ off' = ReplacedOff(last, new)
      /\ chains' = [chains EXCEPT ![Len(chains)] = Append(@, cond)]

(* `elsif NAME with an `if open.  Mutant: the branch just left is asked,   *)
(* not the chain.                                                          *)
MutElsifIf(cond) ==
  ifdefStack # <<>> /\ NextBranch(~ Last(ifdefStack).on /\ cond, cond)
ElsifIf(cond) ==
  ifdefStack # <<>> /\ NextBranch(~ Last(ifdefStack).everOn /\ cond, cond)

(* `else with an `if open. *)
ElseIf ==
  ifdefStack # <<>> /\ NextBranch(~ Last(ifdefStack).everOn, TRUE)

(* `endif with an `if open. *)
EndIf ==
  /\ ifdefStack # <<>>
  /\ ifdefStack' = Front(ifdefStack)
  /\ off' = IF Last(ifdefStack).on THEN off ELSE ParsingOn(off)
  /\ chains' = Front(chains)

IfNext ==
  \/ \E cond \in BOOLEAN : OpenIf(cond) \/ ElsifIf(cond)
  \/ ElseIf
  \/ EndIf

IfSpec == IfInit /\ [][IfNext]_ifVars
-----------------------------------------------------------------------------
(* Types; that m_off stays a natural number is the "Underflow of parsing   *)
(* cmds" check of parsingOn never failing.                                 *)
IfTypeOK ==
  /\ off \in Nat
  /\ ifdefStack \in Seq([on : BOOLEAN, everOn : BOOLEAN])
  /\ chains \in Seq(Seq(BOOLEAN))

OffLevels == {i \in 1 .. Len(ifdefStack) : ~ ifdefStack[i].on}

(* m_off counts the levels of the stack that are not on, so that each      *)
(* `endif gives back exactly what its `ifdef, `elsif or `else took.        *)
OffCountsLevels == off = Cardinality(OffLevels)

(* An entry says what its chain's history says: everOn that some branch    *)
(* held, on that the current branch is the first that held.                *)
EntriesTellHistory ==
  /\ Len(chains) = Len(ifdefStack)
  /\ \A i \in 1 .. Len(ifdefStack) :
       LET ch == chains[i]
       IN  /\ ch # <<>>
           /\ ifdefStack[i].everOn <=> \E j \in 1 .. Len(ch) : ch[j]
           /\ ifdefStack[i].on <=> Abs!Taken(ch)

(* The counter and the stack implement first-true-branch selection: the    *)
(* specification CondCompile, with "passing" read as m_off being zero.     *)
RefinesCondCompile == Abs!AbsSpec
=============================================================================
