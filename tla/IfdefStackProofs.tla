-------------------------- MODULE IfdefStackProofs --------------------------
(***************************************************************************)
(* TLAPS proofs about IfdefStack, for every depth of nesting and every     *)
(* number of branches.  The inductive invariant is IfInv; the counter      *)
(* m_off follows the stack because pushing or popping one entry changes    *)
(* the set of disabled levels by at most that entry's index.               *)
(***************************************************************************)
EXTENDS IfdefStack, SequenceLemmas, FiniteSetTheorems, TLAPS

(* The three invariants that TLC checks are inductive together. *)
IfInv == IfTypeOK /\ OffCountsLevels /\ EntriesTellHistory

Entries == [on : BOOLEAN, everOn : BOOLEAN]

(* The disabled levels of a stack of entries. *)
Disabled(s) == {i \in 1 .. Len(s) : ~ s[i].on}

(* The set of disabled levels is finite, its size a natural number. *)
LEMMA DisabledFinite ==
  ASSUME NEW s \in Seq(Entries)
  PROVE  IsFiniteSet(Disabled(s)) /\ Cardinality(Disabled(s)) \in Nat
<1>1. IsFiniteSet(1 .. Len(s))
  BY FS_Interval
<1>2. Disabled(s) \in SUBSET (1 .. Len(s))
  BY DEF Disabled
<1> QED BY <1>1, <1>2, FS_Subset, FS_CardinalityType

(* Pushing an entry adds its level to the disabled ones when it is off. *)
LEMMA PushDisabled ==
  ASSUME NEW s \in Seq(Entries), NEW e \in Entries
  PROVE  Cardinality(Disabled(Append(s, e))) =
           Cardinality(Disabled(s)) + (IF e.on THEN 0 ELSE 1)
<1> DEFINE t == Append(s, e)
<1>1. Len(t) = Len(s) + 1 /\ t[Len(s) + 1] = e
      /\ \A i \in 1 .. Len(s) : t[i] = s[i]
  OBVIOUS
<1>2. IsFiniteSet(Disabled(s)) /\ Cardinality(Disabled(s)) \in Nat
  BY DisabledFinite
<1>3. CASE e.on
  <2>1. Disabled(t) = Disabled(s)
    BY <1>1, <1>3 DEF Disabled
  <2> QED BY <2>1, <1>2, <1>3
<1>4. CASE ~ e.on
  <2>1. Disabled(t) = Disabled(s) \cup {Len(s) + 1}
    BY <1>1, <1>4 DEF Disabled
  <2>2. Len(s) + 1 \notin Disabled(s)
    BY DEF Disabled
  <2> QED BY <2>1, <2>2, <1>2, <1>4, FS_AddElement
<1> QED BY <1>3, <1>4

(* Popping gives back what pushing the top entry had added. *)
LEMMA PopDisabled ==
  ASSUME NEW s \in Seq(Entries), s # <<>>
  PROVE  Cardinality(Disabled(s)) =
           Cardinality(Disabled(Front(s))) + (IF Last(s).on THEN 0 ELSE 1)
<1>1. Front(s) \in Seq(Entries) /\ Last(s) \in Entries
  BY FrontLast
<1>2. s = Append(Front(s), Last(s))
  BY FrontAppendLast
<1> QED BY <1>1, <1>2, PushDisabled
-----------------------------------------------------------------------------
(* An entry that says what the history ch of its chain says. *)
Tells(e, ch) ==
  /\ ch # <<>>
  /\ e.everOn <=> \E j \in 1 .. Len(ch) : ch[j]
  /\ e.on <=> Abs!Taken(ch)

(* The entry of a chain just opened. *)
LEMMA OpenedTells ==
  ASSUME NEW c \in BOOLEAN
  PROVE  IfEntry(c, FALSE) \in Entries /\ Tells(IfEntry(c, FALSE), <<c>>)
<1>1. IfEntry(c, FALSE).on = c /\ IfEntry(c, FALSE).everOn = c
  BY DEF IfEntry
<1>2. Len(<<c>>) = 1 /\ <<c>>[1] = c /\ <<c>> # <<>>
  OBVIOUS
<1>3. Abs!Taken(<<c>>) <=> c
  BY <1>2 DEF Abs!Taken
<1>4. (\E j \in 1 .. Len(<<c>>) : <<c>>[j]) <=> c
  BY <1>2
<1>5. IfEntry(c, FALSE) \in Entries
  BY DEF IfEntry, Entries
<1> QED BY <1>1, <1>2, <1>3, <1>4, <1>5 DEF Tells

(* The entry of the next branch: on exactly when this is the first branch  *)
(* of the chain whose condition holds, everOn from then on.                *)
LEMMA BranchTells ==
  ASSUME NEW e \in Entries, NEW ch \in Seq(BOOLEAN), Tells(e, ch),
         NEW c \in BOOLEAN, NEW enable \in BOOLEAN,
         enable <=> (~ e.everOn /\ c)
  PROVE  /\ IfEntry(enable, e.everOn) \in Entries
         /\ Tells(IfEntry(enable, e.everOn), Append(ch, c))
<1> DEFINE new == IfEntry(enable, e.everOn)
           more == Append(ch, c)
<1>1. new.on = enable /\ new.everOn = (e.everOn \/ enable) /\ new \in Entries
  BY DEF IfEntry, Entries
<1>2. /\ Len(more) = Len(ch) + 1 /\ more[Len(ch) + 1] = c /\ more # <<>>
      /\ \A j \in 1 .. Len(ch) : more[j] = ch[j]
  OBVIOUS
<1>3. (\E j \in 1 .. Len(more) : more[j])
        <=> ((\E j \in 1 .. Len(ch) : ch[j]) \/ c)
  BY <1>2
<1>4. Abs!Taken(more) <=> (c /\ ~ \E j \in 1 .. Len(ch) : ch[j])
  BY <1>2 DEF Abs!Taken
<1>5. e.everOn <=> \E j \in 1 .. Len(ch) : ch[j]
  BY DEF Tells
<1>6. new.everOn <=> (e.everOn \/ enable)
  BY <1>1
<1>7. new.on <=> enable
  BY <1>1
<1> HIDE DEF new, more
<1> QED BY <1>1, <1>2, <1>3, <1>4, <1>5, <1>6, <1>7 DEF Tells, new, more

-----------------------------------------------------------------------------
(* IfInv, said of any counter, stack and histories, so that a branch can be *)
(* treated as a pop followed by a push.                                     *)
Good(o, s, cs) ==
  /\ o = Cardinality(Disabled(s))
  /\ s \in Seq(Entries)
  /\ cs \in Seq(Seq(BOOLEAN))
  /\ Len(cs) = Len(s)
  /\ \A i \in 1 .. Len(s) : Tells(s[i], cs[i])

LEMMA InvIsGood == IfInv <=> Good(off, ifdefStack, chains)
<1>1. ifdefStack \in Seq(Entries) => Cardinality(Disabled(ifdefStack)) \in Nat
  BY DisabledFinite
<1>2. OffLevels = Disabled(ifdefStack)
  BY DEF OffLevels, Disabled
<1>3. EntriesTellHistory <=>
        /\ Len(chains) = Len(ifdefStack)
        /\ \A i \in 1 .. Len(ifdefStack) : Tells(ifdefStack[i], chains[i])
  BY DEF EntriesTellHistory, Tells
<1> QED BY <1>1, <1>2, <1>3 DEF IfInv, IfTypeOK, OffCountsLevels, Good, Entries

LEMMA PushGood ==
  ASSUME NEW o, NEW s, NEW cs, Good(o, s, cs),
         NEW e \in Entries, NEW ch \in Seq(BOOLEAN), Tells(e, ch)
  PROVE  Good(IF e.on THEN o ELSE ParsingOff(o), Append(s, e), Append(cs, ch))
<1>1. s \in Seq(Entries) /\ cs \in Seq(Seq(BOOLEAN)) /\ Len(cs) = Len(s)
  BY DEF Good
<1>2. Append(s, e) \in Seq(Entries) /\ Append(cs, ch) \in Seq(Seq(BOOLEAN))
      /\ Len(Append(cs, ch)) = Len(Append(s, e))
  BY <1>1
<1>3. Cardinality(Disabled(Append(s, e))) =
        Cardinality(Disabled(s)) + (IF e.on THEN 0 ELSE 1)
  BY <1>1, PushDisabled
<1>4. Cardinality(Disabled(s)) \in Nat
  BY <1>1, DisabledFinite
<1>5. (IF e.on THEN o ELSE ParsingOff(o)) = Cardinality(Disabled(Append(s, e)))
  BY <1>3, <1>4 DEF Good, ParsingOff
<1>6. ASSUME NEW i \in 1 .. Len(Append(s, e))
      PROVE  Tells(Append(s, e)[i], Append(cs, ch)[i])
  <2>1. CASE i \in 1 .. Len(s)
    <3>1. Append(s, e)[i] = s[i] /\ Append(cs, ch)[i] = cs[i]
      BY <1>1, <2>1
    <3> QED BY <2>1, <3>1 DEF Good
  <2>2. CASE i = Len(s) + 1
    <3>1. Append(s, e)[i] = e /\ Append(cs, ch)[i] = ch
      BY <1>1, <2>2
    <3> QED BY <3>1
  <2> QED BY <1>1, <2>1, <2>2
<1> QED BY <1>2, <1>5, <1>6 DEF Good

LEMMA PopGood ==
  ASSUME NEW o, NEW s, NEW cs, Good(o, s, cs), s # <<>>
  PROVE  /\ Good(IF Last(s).on THEN o ELSE ParsingOn(o), Front(s), Front(cs))
         /\ Last(s) \in Entries /\ Last(cs) \in Seq(BOOLEAN)
         /\ Tells(Last(s), Last(cs))
         /\ cs # <<>>
<1>1. s \in Seq(Entries) /\ cs \in Seq(Seq(BOOLEAN)) /\ Len(cs) = Len(s)
      /\ cs # <<>>
  BY DEF Good
<1>2. /\ Len(s) \in Nat \ {0} /\ Last(s) = s[Len(s)] /\ Last(s) \in Entries
      /\ Front(s) \in Seq(Entries) /\ Len(Front(s)) = Len(s) - 1
      /\ \A i \in 1 .. (Len(s) - 1) : Front(s)[i] = s[i]
  BY <1>1, FrontLast
<1>3. /\ Last(cs) = cs[Len(cs)] /\ Last(cs) \in Seq(BOOLEAN)
      /\ Front(cs) \in Seq(Seq(BOOLEAN)) /\ Len(Front(cs)) = Len(cs) - 1
      /\ \A i \in 1 .. (Len(cs) - 1) : Front(cs)[i] = cs[i]
  BY <1>1, FrontLast
<1>4. Cardinality(Disabled(s)) =
        Cardinality(Disabled(Front(s))) + (IF Last(s).on THEN 0 ELSE 1)
  BY <1>1, PopDisabled
<1>5. Cardinality(Disabled(Front(s))) \in Nat
  BY <1>2, DisabledFinite
<1>6. (IF Last(s).on THEN o ELSE ParsingOn(o)) = Cardinality(Disabled(Front(s)))
  BY <1>4, <1>5 DEF Good, ParsingOn
<1>7. \A i \in 1 .. Len(Front(s)) : Tells(Front(s)[i], Front(cs)[i])
  BY <1>1, <1>2, <1>3 DEF Good
<1>8. Tells(Last(s), Last(cs))
  BY <1>1, <1>2, <1>3 DEF Good
<1> QED BY <1>1, <1>2, <1>3, <1>6, <1>7, <1>8 DEF Good

(* Text passes, the counter being zero, exactly when every open chain      *)
(* stands in its first true branch.                                        *)
LEMMA ZeroMeansTaken ==
  ASSUME NEW o, NEW s, NEW cs, Good(o, s, cs)
  PROVE  (o = 0) <=> Abs!AllTaken(cs)
<1>1. s \in Seq(Entries) /\ Len(cs) = Len(s)
  BY DEF Good
<1>2. IsFiniteSet(Disabled(s))
  BY <1>1, DisabledFinite
<1>3. (o = 0) <=> Disabled(s) = {}
  BY <1>2, FS_EmptySet DEF Good
<1>4. Disabled(s) = {} <=> \A i \in 1 .. Len(s) : s[i].on
  BY DEF Disabled
<1>5. \A i \in 1 .. Len(s) : s[i].on <=> Abs!Taken(cs[i])
  BY DEF Good, Tells
<1> QED BY <1>1, <1>3, <1>4, <1>5 DEF Abs!AllTaken

-----------------------------------------------------------------------------
(* Every step keeps the invariant.  Proved for the action and its frame,   *)
(* so that specifications whose steps are steps of the stack can use it.   *)
LEMMA IfInit_IfInv == IfInit => IfInv
<1> SUFFICES ASSUME IfInit PROVE IfInv
  OBVIOUS
<1>1. Disabled(<<>>) = {}
  BY DEF Disabled
<1>2. off = 0 /\ ifdefStack = <<>> /\ chains = <<>>
  BY DEF IfInit
<1>3. Cardinality({}) = 0
  BY FS_EmptySet
<1>4. Good(off, ifdefStack, chains)
  <2>1. <<>> \in Seq(Entries) /\ <<>> \in Seq(Seq(BOOLEAN))
    OBVIOUS
  <2>2. Len(<<>>) = 0 /\ \A i \in 1 .. 0 : FALSE
    OBVIOUS
  <2> QED BY <1>1, <1>2, <1>3, <2>1, <2>2 DEF Good
<1> QED BY <1>4, InvIsGood

LEMMA NextBranchGood ==
  ASSUME NEW cond \in BOOLEAN, NEW enable \in BOOLEAN, IfInv,
         ifdefStack # <<>>,
         enable <=> (~ Last(ifdefStack).everOn /\ cond),
         NextBranch(enable, cond)
  PROVE  /\ Good(off', ifdefStack', chains')
         /\ Abs!Branched(cond)
<1> DEFINE last == Last(ifdefStack)
           new  == IfEntry(enable, last.everOn)
           ch   == Append(Last(chains), cond)
           o    == IF last.on THEN off ELSE ParsingOn(off)
<1>1. Good(off, ifdefStack, chains)
  BY InvIsGood
<1>2. /\ Good(o, Front(ifdefStack), Front(chains))
      /\ last \in Entries /\ Last(chains) \in Seq(BOOLEAN)
      /\ Tells(last, Last(chains)) /\ chains # <<>>
  BY <1>1, PopGood
<1>3. new \in Entries /\ Tells(new, ch) /\ ch \in Seq(BOOLEAN)
  BY <1>2, BranchTells
<1>4. Good(IF new.on THEN o ELSE ParsingOff(o),
           Append(Front(ifdefStack), new), Append(Front(chains), ch))
  <2> HIDE DEF o, new, ch
  <2> QED BY <1>2, <1>3, PushGood
<1>5. chains \in Seq(Seq(BOOLEAN))
  BY <1>1 DEF Good
<1>6. Last(chains) = chains[Len(chains)]
  BY <1>2, <1>5, FrontLast
<1>7. chains' = [chains EXCEPT ![Len(chains)] = ch]
  BY <1>6 DEF NextBranch
<1>8. chains' = Append(Front(chains), ch)
  <2> HIDE DEF ch
  <2> QED BY <1>2, <1>3, <1>5, <1>7, ExceptLast
<1>9. /\ ifdefStack' = Append(Front(ifdefStack), new)
      /\ off' = IF new.on THEN o ELSE ParsingOff(o)
  BY DEF NextBranch, ReplacedOff
<1>10. Abs!Branched(cond)
  BY <1>2 DEF NextBranch, Abs!Branched
<1> QED BY <1>4, <1>8, <1>9, <1>10

(* A step of the stack keeps the invariant and does to the histories what  *)
(* the abstract specification allows.                                      *)
LEMMA IfNextGood ==
  ASSUME IfInv, IfNext
  PROVE  /\ Good(off', ifdefStack', chains')
         /\ (\E c \in BOOLEAN : Abs!Opened(c) \/ Abs!Branched(c)) \/ Abs!Closed
<1>1. Good(off, ifdefStack, chains)
  BY InvIsGood
<1>2. ASSUME NEW cond \in BOOLEAN, OpenIf(cond)
      PROVE  Good(off', ifdefStack', chains') /\ Abs!Opened(cond)
  <2> DEFINE new == IfEntry(cond, FALSE)
  <2>1. new \in Entries /\ Tells(new, <<cond>>)
    BY OpenedTells
  <2>2. <<cond>> \in Seq(BOOLEAN)
    OBVIOUS
  <2>3. new.on = cond
    BY DEF IfEntry
  <2>4. Good(IF new.on THEN off ELSE ParsingOff(off),
             Append(ifdefStack, new), Append(chains, <<cond>>))
    <3> HIDE DEF new
    <3> QED BY <1>1, <2>1, <2>2, PushGood
  <2> QED BY <1>2, <2>3, <2>4 DEF OpenIf, Abs!Opened
<1>3. ASSUME NEW cond \in BOOLEAN, ElsifIf(cond)
      PROVE  Good(off', ifdefStack', chains') /\ Abs!Branched(cond)
  <2> DEFINE enable == ~ Last(ifdefStack).everOn /\ cond
  <2>1. enable \in BOOLEAN /\ ifdefStack # <<>> /\ NextBranch(enable, cond)
    BY <1>3 DEF ElsifIf
  <2> HIDE DEF enable
  <2> QED BY <2>1, NextBranchGood DEF enable
<1>4. ASSUME ElseIf
      PROVE  Good(off', ifdefStack', chains') /\ Abs!Branched(TRUE)
  <2> DEFINE enable == ~ Last(ifdefStack).everOn
  <2>1. enable \in BOOLEAN /\ ifdefStack # <<>> /\ NextBranch(enable, TRUE)
    BY <1>4 DEF ElseIf
  <2>2. enable <=> (~ Last(ifdefStack).everOn /\ TRUE)
    OBVIOUS
  <2> HIDE DEF enable
  <2> QED BY <2>1, <2>2, NextBranchGood
<1>5. ASSUME EndIf
      PROVE  Good(off', ifdefStack', chains') /\ Abs!Closed
  <2>1. Good(IF Last(ifdefStack).on THEN off ELSE ParsingOn(off),
             Front(ifdefStack), Front(chains)) /\ chains # <<>>
    BY <1>1, <1>5, PopGood DEF EndIf
  <2> QED BY <1>5, <2>1 DEF EndIf, Abs!Closed, Front
<1> QED BY <1>2, <1>3, <1>4, <1>5 DEF IfNext

LEMMA IfInv_Step == IfInv /\ [IfNext]_ifVars => IfInv'
<1> SUFFICES ASSUME IfInv, [IfNext]_ifVars PROVE IfInv'
  OBVIOUS
<1>1. CASE IfNext
  <2>1. Good(off', ifdefStack', chains')
    BY <1>1, IfNextGood
  <2>2. (IfInv <=> Good(off, ifdefStack, chains))'
    BY InvIsGood, PTL
  <2> QED BY <2>1, <2>2 DEF Good
<1>2. CASE UNCHANGED ifVars
  BY <1>2 DEF ifVars, IfInv, IfTypeOK, OffCountsLevels, OffLevels,
    EntriesTellHistory, Abs!Taken
<1> QED BY <1>1, <1>2

LEMMA IfInvariance == IfSpec => []IfInv
<1> QED BY IfInit_IfInv, IfInv_Step, PTL DEF IfSpec

(* m_off never goes below zero: the "Underflow of parsing cmds" check of   *)
(* parsingOn cannot fail, however conditionals are nested.                 *)
THEOREM NoUnderflow == IfSpec => []IfTypeOK
<1>1. IfInv => IfTypeOK
  BY DEF IfInv
<1> QED BY <1>1, IfInvariance, PTL

(* m_off is at all times the number of levels that are not on.             *)
THEOREM CounterCorrect == IfSpec => []OffCountsLevels
<1>1. IfInv => OffCountsLevels
  BY DEF IfInv
<1> QED BY <1>1, IfInvariance, PTL

(* The (on, everOn) pair of a level is a summary of its branches: on       *)
(* exactly in the first branch that held, everOn exactly from then on.     *)
THEOREM EntriesCorrect == IfSpec => []EntriesTellHistory
<1>1. IfInv => EntriesTellHistory
  BY DEF IfInv
<1> QED BY <1>1, IfInvariance, PTL

(* The counter and the stack implement first-true-branch selection.        *)
THEOREM StackImplementsSelection == IfSpec => RefinesCondCompile
<1>1. IfInit => Abs!AbsInit
  BY DEF IfInit, Abs!AbsInit
<1>2. IfInv /\ [IfNext]_ifVars => [Abs!AbsNext]_<<chains, off = 0>>
  <2> SUFFICES ASSUME IfInv, [IfNext]_ifVars
               PROVE  [Abs!AbsNext]_<<chains, off = 0>>
    OBVIOUS
  <2>1. CASE IfNext
    <3>1. Good(off', ifdefStack', chains')
      BY <2>1, IfNextGood
    <3>2. (\E c \in BOOLEAN : Abs!Opened(c) \/ Abs!Branched(c)) \/ Abs!Closed
      BY <2>1, IfNextGood
    <3>3. (off' = 0) <=> Abs!AllTaken(chains')
      BY <3>1, ZeroMeansTaken
    <3>4. (off = 0)' = Abs!AllTaken(chains')
      BY <3>3 DEF Abs!AllTaken
    <3> QED BY <3>2, <3>4 DEF Abs!AbsNext
  <2>2. CASE UNCHANGED ifVars
    BY <2>2 DEF ifVars
  <2> QED BY <2>1, <2>2
<1> QED BY <1>1, <1>2, IfInvariance, PTL DEF IfSpec, RefinesCondCompile, Abs!AbsSpec
=============================================================================
