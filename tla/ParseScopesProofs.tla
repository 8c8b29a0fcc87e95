-------------------------- MODULE ParseScopesProofs --------------------------
(***************************************************************************)
(* The stack of scopes, for any names and any number of entries: whatever  *)
(* the source says and wherever its errors are, the netlist stays at the   *)
(* bottom and the scopes of open constructs stay where they were pushed.   *)
(* Then the heap: what a release spares, how an operation leaves it, and   *)
(* that before the first error the stack is the open constructs' and the   *)
(* interfaces left behind, each scope kept alive by a name in a table that *)
(* is kept alive in turn.                                                  *)
(***************************************************************************)
EXTENDS ParseScopes, FiniteSetTheorems, SequenceLemmas, TLAPS

Constructs == [type : Types, scope : Ids, under : Ids, at : Nat]

(* What is needed besides: values are of their kind, so that positions and *)
(* entries can be spoken of.                                               *)
ScopesKind ==
  /\ DOMAIN ent = Ids /\ stack \in Seq(Ids) /\ open \in Seq(Constructs)
  /\ current \in Ids
ScopesInv == ScopesKind /\ OpenScopesOnStack

(* No operation on the heap adds or removes places. *)
LEMMA ReleaseDomain ==
  ASSUME NEW e, NEW D PROVE DOMAIN Release(e, D) = DOMAIN e
BY DEF Release

LEMMA FileDomain ==
  ASSUME NEW e, NEW i, NEW k, NEW new PROVE DOMAIN File(e, i, k, new) = DOMAIN e
BY ReleaseDomain DEF File

LEMMA ReplaceDomain ==
  ASSUME NEW e, NEW i, NEW t, NEW k, NEW new
  PROVE  DOMAIN replaceInsert(e, i, t, k, new) = DOMAIN e
BY FileDomain DEF replaceInsert

LEMMA ImportDomain ==
  ASSUME NEW e, NEW i, NEW pkg, NEW k
  PROVE  /\ DOMAIN ImportOne(e, i, pkg, k) = DOMAIN e
         /\ DOMAIN ImportStar(e, i, pkg) = DOMAIN e
BY FileDomain, ReleaseDomain DEF ImportOne, ImportStar

(* A scope pushed for a new construct lies above all the others. *)
LEMMA PushKeeps ==
  ASSUME ScopesInv, NEW new \in Ids, NEW type \in Types, NEW under \in Ids,
         pushScope(new), open' = Append(open, Construct(type, new, under)),
         DOMAIN ent' = Ids
  PROVE  ScopesInv'
<1>1. Construct(type, new, under) \in Constructs
      /\ Construct(type, new, under).at = Len(stack) + 1
      /\ Construct(type, new, under).scope = new
  BY DEF ScopesInv, ScopesKind, Construct, Constructs
<1>2. ScopesKind'
  BY <1>1 DEF ScopesInv, ScopesKind, pushScope
<1>3. stack' # <<>> /\ stack'[1] = 1 /\ current' = stack'[Len(stack')]
  BY DEF ScopesInv, ScopesKind, OpenScopesOnStack, pushScope
<1>4. ASSUME NEW k \in 1 .. Len(open')
      PROVE  /\ open'[k].at \in 2 .. Len(stack') /\ stack'[open'[k].at] = open'[k].scope
             /\ \A j \in 1 .. k - 1 : open'[j].at < open'[k].at
  <2>1. CASE k = Len(open) + 1
    <3>1. open'[k] = Construct(type, new, under)
      BY <2>1 DEF ScopesInv, ScopesKind
    <3>2. \A j \in 1 .. k - 1 : open'[j] = open[j] /\ open[j].at \in 2 .. Len(stack)
      BY <2>1 DEF ScopesInv, ScopesKind, OpenScopesOnStack
    <3> QED
      BY <1>1, <3>1, <3>2 DEF ScopesInv, ScopesKind, OpenScopesOnStack, pushScope
  <2>2. CASE k \in 1 .. Len(open)
    <3>1. open'[k] = open[k] /\ \A j \in 1 .. k - 1 : open'[j] = open[j]
      BY <2>2 DEF ScopesInv, ScopesKind
    <3> QED
      BY <2>2, <3>1 DEF ScopesInv, ScopesKind, OpenScopesOnStack, pushScope
  <2> QED
    BY <2>1, <2>2 DEF ScopesInv, ScopesKind
<1> QED
  BY <1>2, <1>3, <1>4 DEF ScopesInv, OpenScopesOnStack

(* So does one that belongs to no construct. *)
LEMMA LeaveKeeps ==
  ASSUME ScopesInv, NEW new \in Ids, pushScope(new), UNCHANGED open, DOMAIN ent' = Ids
  PROVE  ScopesInv'
<1>1. /\ stack' \in Seq(Ids) /\ Len(stack') = Len(stack) + 1 /\ stack'[Len(stack')] = new
      /\ Len(stack) \in Nat \ {0} /\ \A k \in 1 .. Len(stack) : stack'[k] = stack[k]
  BY DEF ScopesInv, ScopesKind, OpenScopesOnStack, pushScope
<1>2. current' = new /\ stack[1] = 1
  BY DEF ScopesInv, OpenScopesOnStack, pushScope
<1>3. ASSUME NEW k \in 1 .. Len(open)
      PROVE  open[k].at \in 2 .. Len(stack') /\ stack'[open[k].at] = open[k].scope
  <2>1. open[k].at \in 2 .. Len(stack) /\ stack[open[k].at] = open[k].scope
    BY DEF ScopesInv, OpenScopesOnStack
  <2> QED
    BY <1>1, <2>1
<1>4. stack' # <<>> /\ stack'[1] = 1
  BY <1>1, <1>2
<1>5. open' = open /\ DOMAIN ent' = Ids /\ current' \in Ids /\ open \in Seq(Constructs)
  BY <1>2 DEF ScopesInv, ScopesKind
<1>6. \A k \in 1 .. Len(open) : \A j \in 1 .. k - 1 : open[j].at < open[k].at
  BY DEF ScopesInv, OpenScopesOnStack
<1>7. OpenScopesOnStack'
  BY <1>1, <1>2, <1>3, <1>4, <1>5, <1>6 DEF OpenScopesOnStack
<1> QED
  BY <1>1, <1>5, <1>7 DEF ScopesInv, ScopesKind

(* Constructs forgotten by an error, or at the end of the text: the stack  *)
(* stays.                                                                  *)
LEMMA ForgetKeeps ==
  ASSUME ScopesInv, NEW left \in 0 .. Len(open), open' = SubSeq(open, 1, left),
         UNCHANGED <<stack, current>>, DOMAIN ent' = Ids
  PROVE  ScopesInv'
<1>1. ScopesKind' /\ Len(open') = left /\ \A k \in 1 .. left : open'[k] = open[k]
  BY DEF ScopesInv, ScopesKind
<1> QED
  BY <1>1 DEF ScopesInv, ScopesKind, OpenScopesOnStack

(* The end of a construct pops one scope at most, its own or one that an   *)
(* error left above it.                                                    *)
LEMMA EndKeeps ==
  ASSUME ScopesInv, End PROVE ScopesInv'
<1>1. open # <<>> /\ open' = Front(open) /\ ent' = ent
  BY DEF End
<1>2. Len(open) - 1 \in 0 .. Len(open) /\ open' = SubSeq(open, 1, Len(open) - 1)
  BY <1>1 DEF ScopesInv, ScopesKind, Front
<1>3. CASE UNCHANGED <<stack, current>>
  BY <1>1, <1>2, <1>3, ForgetKeeps DEF ScopesInv, ScopesKind
<1>4. CASE popScope
  <2>1. Len(open) \in Nat /\ Len(open) >= 1 /\ Len(stack) \in Nat /\ Len(stack) >= 2
    <3>1. Len(open) \in Nat /\ Len(open) >= 1 /\ Len(stack) \in Nat
      BY <1>1 DEF ScopesInv, ScopesKind
    <3>2. open[1].at \in 2 .. Len(stack)
      BY <3>1 DEF ScopesInv, OpenScopesOnStack
    <3> QED
      BY <3>1, <3>2
  <2>2. /\ stack' = SubSeq(stack, 1, Len(stack) - 1) /\ Len(stack') = Len(stack) - 1
        /\ \A k \in 1 .. Len(stack) - 1 : stack'[k] = stack[k]
        /\ stack' \in Seq(Ids) /\ current' = stack[Len(stack) - 1] /\ current' \in Ids
    BY <1>4, <2>1 DEF popScope, Front, ScopesInv, ScopesKind
  <2>3. /\ open' \in Seq(Constructs) /\ Len(open') = Len(open) - 1
        /\ \A k \in 1 .. Len(open) - 1 : open'[k] = open[k]
    <3>1. open \in Seq(Constructs) /\ Len(open) - 1 \in Nat /\ Len(open) - 1 <= Len(open)
      BY <2>1 DEF ScopesInv, ScopesKind
    <3> QED
      BY <1>2, <3>1, Prefix
  <2>4. ASSUME NEW k \in 1 .. Len(open) - 1
        PROVE  open[k].at \in 2 .. Len(stack) - 1
    <3>1. /\ open[k].at \in 2 .. Len(stack) /\ open[Len(open)].at \in 2 .. Len(stack)
          /\ open[k].at < open[Len(open)].at
      BY <2>1 DEF ScopesInv, OpenScopesOnStack
    <3> QED
      BY <2>1, <3>1
  <2>5. OpenScopesOnStack'
    <3>1. stack' # <<>> /\ stack'[1] = 1 /\ current' = stack'[Len(stack')]
      BY <2>1, <2>2 DEF ScopesInv, OpenScopesOnStack
    <3>2. ASSUME NEW k \in 1 .. Len(open')
          PROVE  /\ open'[k].at \in 2 .. Len(stack') /\ stack'[open'[k].at] = open'[k].scope
                 /\ \A j \in 1 .. k - 1 : open'[j].at < open'[k].at
      <4>1. /\ k \in 1 .. Len(open) /\ k \in 1 .. Len(open) - 1 /\ open'[k] = open[k]
            /\ \A j \in 1 .. k - 1 : open'[j] = open[j]
        BY <2>1, <2>3
      <4>2. /\ open[k].at \in 2 .. Len(stack) - 1 /\ stack[open[k].at] = open[k].scope
            /\ \A j \in 1 .. k - 1 : open[j].at < open[k].at
        BY <2>4, <4>1 DEF ScopesInv, OpenScopesOnStack
      <4>3. stack'[open[k].at] = stack[open[k].at] /\ open[k].at \in 2 .. Len(stack')
        BY <2>1, <2>2, <4>2
      <4> QED
        BY <4>1, <4>2, <4>3
    <3> QED
      BY <3>1, <3>2 DEF OpenScopesOnStack
  <2> QED
    BY <1>1, <2>2, <2>3, <2>5 DEF ScopesInv, ScopesKind
<1> QED
  BY <1>3, <1>4 DEF End, symPopScope
-----------------------------------------------------------------------------
LEMMA FreshIsPlace ==
  ASSUME NEW more, HasFresh(more) PROVE Fresh(more) \in Ids
BY DEF HasFresh, Fresh

(* A scope to be opened is filed, pushed and remembered. *)
LEMMA OpensKeeps ==
  ASSUME ScopesInv, NEW type \in Types, NEW key, NEW under \in Ids,
         Opens(type, key, under)
  PROVE  ScopesInv'
<1> DEFINE new == Fresh({nextId})
<1>1. new \in Ids
  BY FreshIsPlace DEF Opens, Room
<1>2. DOMAIN ent' = Ids
  BY ReplaceDomain DEF Opens, symPushNewUnder, ScopesInv, ScopesKind
<1> QED
  BY <1>1, <1>2, PushKeeps DEF Opens, symPushNewUnder

LEMMA ScopesInitial == ScopesInit => ScopesInv
BY SymAssumption
DEF ScopesInit, ScopesInv, ScopesKind, OpenScopesOnStack, Constructs

LEMMA ScopesStep ==
  ASSUME ScopesInv, [ScopesNext]_scopeVars PROVE ScopesInv'
<1>0. current \in Ids /\ DOMAIN ent = Ids /\ open \in Seq(Constructs)
  BY DEF ScopesInv, ScopesKind
<1>1. ASSUME NEW type \in Types, NEW name, NEW key, Begin(type, name, key) PROVE ScopesInv'
  BY <1>0, <1>1, OpensKeeps DEF Begin
<1>2. CASE BeginPackage
  BY <1>1, <1>2 DEF BeginPackage, Types
<1>3. CASE BeginOther
  BY <1>1, <1>3 DEF BeginOther, Types
<1>4. CASE BeginLabelled \/ BeginClass
  BY <1>1, <1>4 DEF BeginLabelled, BeginClass, Types
<1>5. CASE BeginAnon \/ BeginNew
  BY <1>0, <1>5, OpensKeeps DEF BeginAnon, BeginNew, Types
<1>6. CASE BeginSubclass
  <2> DEFINE new == Fresh({nextId})
  <2>1. PICK name, scp :
          /\ HasFresh({nextId}) /\ pushScope(new)
          /\ ent' = ImportStar(replaceInsert(ent, current, "class", name, new), new, scp)
          /\ open' = Append(open, Construct("class", new, current))
    BY <1>6 DEF BeginSubclass, Room
  <2>2. new \in Ids
    BY <2>1, FreshIsPlace
  <2>3. DOMAIN ent' = Ids
    <3> DEFINE heap == replaceInsert(ent, current, "class", name, new)
    <3>1. DOMAIN heap = Ids
      BY <1>0, ReplaceDomain
    <3>2. ent' = ImportStar(heap, new, scp)
      BY <2>1
    <3> HIDE DEF heap, new
    <3> QED
      BY <3>1, <3>2, ImportDomain
  <2> QED
    BY <1>0, <2>1, <2>2, <2>3, PushKeeps DEF Types
<1>7. CASE BeginOutOfBlock
  <2>1. PICK class \in TypeNames, key \in {Qualified, New} :
          TokenType(Token(class).scp) = "type" /\ Opens("function", key, Token(class).scp)
    BY <1>7 DEF BeginOutOfBlock
  <2>2. Token(class).scp \in Ids
    <3> DEFINE scp == Token(class).scp
    <3>1. scp \in Live(ent)
      <4> HIDE DEF scp
      <4> QED
        BY <2>1 DEF TokenType, scp
    <3> QED
      BY <1>0, <3>1 DEF Live
  <2> QED
    BY <2>1, <2>2, OpensKeeps DEF Types
<1>8. CASE End
  BY <1>8, EndKeeps
<1>9. ASSUME UNCHANGED <<stack, current, open>>, DOMAIN ent' = Ids PROVE ScopesInv'
  BY <1>9 DEF ScopesInv, ScopesKind, OpenScopesOnStack
<1>10. CASE Typedef \/ Prototype \/ PrototypeNew
  <2>1. ASSUME NEW type, NEW key, Declare(type, key) PROVE ScopesInv'
    BY <1>0, <1>9, <2>1, ReplaceDomain DEF Declare
  <2> QED
    BY <1>10, <2>1 DEF Typedef, Prototype, PrototypeNew
<1>11. CASE ImportName \/ ImportAll
  <2>1. ASSUME NEW pkg, NEW what, Import(pkg, what) PROVE ScopesInv'
    <3>1. DOMAIN ent' = Ids /\ UNCHANGED <<stack, current, open>>
      <4> DEFINE entp == Visible(pkg)
      <4>1. /\ ent' \in {ent, ImportStar(ent, current, entp),
                        ImportOne(ent, current, entp, what)}
            /\ UNCHANGED <<stack, current, open>>
        BY <2>1 DEF Import
      <4> HIDE DEF entp
      <4> QED
        BY <1>0, <4>1, ImportDomain
    <3> QED
      BY <1>9, <3>1
  <2> QED
    BY <1>11, <2>1 DEF ImportName, ImportAll
<1>12. CASE Use \/ ScopedUse \/ ScopedKeyword
  BY <1>0, <1>9, <1>12 DEF Use, ScopedUse, ScopedKeyword
<1>13. CASE SyntaxError
  BY <1>0, <1>13, ForgetKeeps DEF SyntaxError
<1>14. CASE NextText
  <2>1. 0 \in 0 .. Len(open) /\ open' = SubSeq(open, 1, 0)
    BY <1>0, <1>14 DEF NextText
  <2> QED
    BY <1>0, <1>14, <2>1, ForgetKeeps DEF NextText
<1>15. CASE NewParser
  BY <1>0, <1>15, SymAssumption
  DEF NewParser, netlist, ScopesInv, ScopesKind, OpenScopesOnStack
<1>16. CASE UNCHANGED scopeVars
  BY <1>0, <1>9, <1>16 DEF scopeVars
<1>17. CASE ExternInterface
  <2>1. PICK name : Room /\ symPushNewUnder("interface", name, current) /\ UNCHANGED open
    BY <1>17 DEF ExternInterface
  <2>2. Fresh({nextId}) \in Ids
    BY <2>1, FreshIsPlace DEF Room
  <2>3. DOMAIN ent' = Ids
    BY <1>0, <2>1, ReplaceDomain DEF symPushNewUnder
  <2> QED
    BY <2>1, <2>2, <2>3, LeaveKeeps DEF symPushNewUnder
<1> QED
  BY <1>2, <1>3, <1>4, <1>5, <1>6, <1>7, <1>8, <1>10, <1>11, <1>12, <1>13, <1>14,
     <1>15, <1>16, <1>17 DEF ScopesNext

(* VSymStack never underflows and never loses the scope of a construct     *)
(* that is still open: popScope's error is unreachable, for every source.  *)
THEOREM ScopesKept == ScopesSpec => []OpenScopesOnStack
<1>1. ScopesInv => OpenScopesOnStack
  BY DEF ScopesInv
<1> QED
  BY ScopesInitial, ScopesStep, <1>1, PTL DEF ScopesSpec
-----------------------------------------------------------------------------
(* A table is forced on the lexer across statements only by a reported     *)
(* error: the two lookups of an import see the same tables before that.    *)
ForcedByError == ~ errors => nextId = Null
LookupInv == ForcedByError /\ NoInternalError

LEMMA ForcedStep ==
  ASSUME ForcedByError, [ScopesNext]_scopeVars PROVE ForcedByError'
<1> USE DEF ForcedByError, pastVars
<1>1. CASE UNCHANGED scopeVars
  BY <1>1 DEF scopeVars
<1>2. ASSUME NEW type, NEW name, NEW key, Begin(type, name, key) PROVE nextId' = Null
  BY <1>2 DEF Begin, Consume
<1>3. CASE BeginPackage \/ BeginOther \/ BeginLabelled \/ BeginClass
  BY <1>2, <1>3 DEF BeginPackage, BeginOther, BeginLabelled, BeginClass
<1>4. CASE BeginAnon
  BY <1>4 DEF BeginAnon, LooksAhead
<1>5. CASE BeginNew \/ BeginSubclass \/ BeginOutOfBlock
  BY <1>5 DEF BeginNew, tokenVars, BeginSubclass, BeginOutOfBlock
<1>6. CASE End
  BY <1>6 DEF End, LooksAhead, symPopScope
<1>7. CASE ExternInterface \/ Typedef \/ Prototype
  BY <1>7 DEF ExternInterface, Typedef, Prototype, Consume
<1>8. CASE PrototypeNew
  BY <1>8 DEF PrototypeNew, Declare
<1>9. CASE ImportName \/ ImportAll
  BY <1>9 DEF ImportName, ImportAll, Import
<1>10. CASE Use \/ ScopedUse \/ ScopedKeyword
  BY <1>10 DEF Use, ScopedUse, ScopedKeyword, Consume
<1>11. CASE SyntaxError \/ NextText \/ NewParser
  BY <1>11 DEF SyntaxError, NextText, NewParser, tokenVars
<1> QED
  BY <1>1, <1>3, <1>4, <1>5, <1>6, <1>7, <1>8, <1>9, <1>10, <1>11 DEF ScopesNext

LEMMA InternalStep ==
  ASSUME LookupInv, [ScopesNext]_scopeVars PROVE NoInternalError'
<1> USE DEF LookupInv, NoInternalError
<1>1. CASE UNCHANGED internal
  BY <1>1
<1>2. ASSUME NEW pkg, NEW what, Import(pkg, what) PROVE NoInternalError'
  <2>1. errors \/ Visible(pkg) = Token(pkg).scp
    BY DEF ForcedByError, Token, Resolve
  <2> QED
    BY <1>2, <2>1 DEF Import
<1>3. CASE ImportName \/ ImportAll
  BY <1>2, <1>3 DEF ImportName, ImportAll
<1>4. CASE BeginPackage \/ BeginOther \/ BeginLabelled \/ BeginClass
  BY <1>1, <1>4 DEF BeginPackage, BeginOther, BeginLabelled, BeginClass, Begin, pastVars
<1>5. CASE BeginAnon \/ BeginNew \/ BeginSubclass \/ BeginOutOfBlock \/ ExternInterface
  BY <1>1, <1>5
  DEF BeginAnon, BeginNew, BeginSubclass, BeginOutOfBlock, ExternInterface, pastVars
<1>6. CASE Typedef \/ Prototype \/ PrototypeNew
  BY <1>1, <1>6 DEF Typedef, Prototype, PrototypeNew, Declare
<1>7. CASE End \/ Use \/ ScopedUse \/ ScopedKeyword
  BY <1>1, <1>7 DEF End, Use, ScopedUse, ScopedKeyword, pastVars
<1>8. CASE SyntaxError \/ NextText \/ NewParser \/ UNCHANGED scopeVars
  BY <1>1, <1>8 DEF SyntaxError, NextText, NewParser, scopeVars
<1> QED
  BY <1>3, <1>4, <1>5, <1>6, <1>7, <1>8 DEF ScopesNext

(* Before the first error an import takes the package of its token: no     *)
(* table is forced then, so that both lookups go up from the same scope.   *)
THEOREM ImportsResolve == ScopesSpec => []NoInternalError
<1>1. ScopesInit => LookupInv
  BY DEF ScopesInit, LookupInv, ForcedByError, NoInternalError
<1>2. LookupInv /\ [ScopesNext]_scopeVars => LookupInv'
  BY ForcedStep, InternalStep DEF LookupInv
<1>3. LookupInv => NoInternalError
  BY DEF LookupInv
<1> QED
  BY <1>1, <1>2, <1>3, PTL DEF ScopesSpec
-----------------------------------------------------------------------------
(* The heap is sound: live entries are entries, no table has a dangling    *)
(* name, no live entry a dangling parent, and the netlist is in no table.  *)
Entries == [type : Types, parent : Ids \cup {Null}, sub : [Keys -> Ids \cup {Null}]]
HeapOK(e) ==
  /\ DOMAIN e = Ids
  /\ \A i \in Live(e) : e[i] \in Entries
  /\ \A i \in Live(e), k \in Keys : e[i].sub[k] # Null => e[i].sub[k] \in Live(e) \ {1}
  /\ \A i \in Live(e) : e[i].parent # Null => e[i].parent \in Live(e)
  /\ 1 \in Live(e) /\ e[1].type = "netlist" /\ e[1].parent = Null

(* An entry in a set that holds one owner of each of its members goes only *)
(* if it is dropped and has no owner at all.                               *)
LEMMA FreedSpares ==
  ASSUME NEW e, NEW D, NEW S, S \subseteq Live(e),
         \A x \in S : \/ x \notin D /\ Owners(e, x) = {}
                      \/ Owners(e, x) \cap S # {}
  PROVE  S \cap Freed(e, D) = {}
<1> DEFINE F == Live(e) \ S
<1>1. ClosedUnderFree(e, D, F)
  <2> SUFFICES ASSUME NEW i \in Live(e), i \in D \/ Owners(e, i) \cap F # {},
                      Owners(e, i) \subseteq F, i \in S
               PROVE  FALSE
    BY DEF ClosedUnderFree
  <2> QED
    OBVIOUS
<1>2. F \in SUBSET Live(e)
  OBVIOUS
<1>3. \A i \in Freed(e, D) : i \in F
  BY <1>1, <1>2 DEF Freed
<1> QED
  BY <1>3

(* The entries that go are closed under going. *)
LEMMA FreedClosed ==
  ASSUME NEW e, NEW D
  PROVE  ClosedUnderFree(e, D, Freed(e, D))
<1> DEFINE F == Freed(e, D)
<1> SUFFICES ASSUME NEW i \in Live(e), i \in D \/ Owners(e, i) \cap F # {},
                    Owners(e, i) \subseteq F
             PROVE  i \in F
  BY DEF ClosedUnderFree
<1>1. ASSUME NEW G \in SUBSET Live(e), ClosedUnderFree(e, D, G) PROVE i \in G
  <2>1. F \subseteq G
    BY <1>1 DEF Freed
  <2>2. (i \in D \/ Owners(e, i) \cap G # {}) /\ Owners(e, i) \subseteq G
    BY <2>1
  <2> HIDE DEF F
  <2> QED
    BY <1>1, <2>2 DEF ClosedUnderFree
<1> QED
  BY <1>1 DEF Freed

(* What has an owner that stays, stays. *)
LEMMA FreedOwners ==
  ASSUME NEW e, NEW D, NEW j \in Freed(e, D)
  PROVE  Owners(e, j) \subseteq Freed(e, D)
<1> DEFINE F == Freed(e, D)
           G == F \ {j}
<1> SUFFICES ASSUME ~ (Owners(e, j) \subseteq F) PROVE FALSE
  OBVIOUS
<1>1. F \subseteq Live(e) /\ ClosedUnderFree(e, D, F)
  BY FreedClosed DEF Freed
<1>2. ClosedUnderFree(e, D, G)
  <2> SUFFICES ASSUME NEW i \in Live(e), i \in D \/ Owners(e, i) \cap G # {},
                      Owners(e, i) \subseteq G
               PROVE  i \in G
    BY DEF ClosedUnderFree
  <2>1. (i \in D \/ Owners(e, i) \cap F # {}) /\ Owners(e, i) \subseteq F
    OBVIOUS
  <2>2. i \in F
    <3> HIDE DEF F
    <3> QED
      BY <1>1, <2>1 DEF ClosedUnderFree
  <2>3. i # j
    BY <2>1
  <2> QED
    BY <2>2, <2>3
<1>3. G \in SUBSET Live(e)
  BY <1>1
<1>4. j \in G
  <2> HIDE DEF G
  <2> QED
    BY <1>2, <1>3 DEF Freed
<1> QED
  BY <1>4
-----------------------------------------------------------------------------
(* How an operation leaves the heap: nothing is added; what stays keeps    *)
(* its type, its table but for the names K of i, and its parent if that    *)
(* stays; and the set S stays, if S is spared.                             *)
Spared(e, i, K, S) ==
  /\ S \subseteq Live(e)
  /\ \A x \in S \ {1} : \E o \in S, k \in Keys : e[o].sub[k] = x /\ ~ (o = i /\ k \in K)
Leaves(e, f, i, K) ==
  /\ Live(f) \subseteq Live(e)
  /\ \A x \in Live(f) :
       /\ f[x].type = e[x].type
       /\ f[x].parent = IF e[x].parent \in Live(f) THEN e[x].parent ELSE Null
       /\ \A k \in Keys : ~ (x = i /\ k \in K) => f[x].sub[k] = e[x].sub[k]

LEMMA EntryIsLive ==
  ASSUME NEW x \in Entries PROVE x # Gone
<1>1. x.type \in Types /\ Gone.type = "freed"
  BY DEF Entries, Gone
<1> QED
  BY <1>1 DEF Types

LEMMA ReleaseSound ==
  ASSUME NEW e, HeapOK(e), NEW D, D \subseteq Live(e) \ {1}
  PROVE  /\ HeapOK(Release(e, D))
         /\ Live(Release(e, D)) = Live(e) \ Freed(e, D)
         /\ \A x \in Live(Release(e, D)) :
              Release(e, D)[x] = [e[x] EXCEPT !.parent = IF @ \in Live(Release(e, D)) THEN @ ELSE Null]
<1> DEFINE F == Freed(e, D)
           f == Release(e, D)
<1>1. 1 \notin F
  <2>1. Owners(e, 1) = {}
    BY SymAssumption DEF HeapOK, Owners
  <2>2. {1} \subseteq Live(e) /\ \A x \in {1} : x \notin D /\ Owners(e, x) = {}
    BY <2>1 DEF HeapOK
  <2> QED
    BY <2>2, FreedSpares
<1>2. DOMAIN f = Ids
  BY DEF Release, HeapOK
<1>3. \A i \in Ids : f[i] = IF i \in F \/ i \notin Live(e) THEN Gone
                            ELSE [e[i] EXCEPT !.parent = IF @ \in F THEN Null ELSE @]
  BY DEF Release, HeapOK
<1>4. Live(e) \subseteq Ids /\ Live(f) \subseteq Ids
  BY <1>2 DEF Live, HeapOK
<1> HIDE DEF f
<1>5. ASSUME NEW i \in Live(e), i \notin F
      PROVE  f[i] \in Entries /\ f[i].sub = e[i].sub /\ f[i].type = e[i].type
             /\ f[i].parent = IF e[i].parent \in F THEN Null ELSE e[i].parent
  <2>1. f[i] = [e[i] EXCEPT !.parent = IF @ \in F THEN Null ELSE @]
    BY <1>3, <1>4, <1>5
  <2>2. e[i] \in Entries
    BY DEF HeapOK
  <2> QED
    BY <2>1, <2>2 DEF Entries
<1>6. Live(f) = Live(e) \ F
  <2>1. \A i \in Live(f) : i \in Live(e) /\ i \notin F
    BY <1>2, <1>3 DEF Live
  <2>2. \A i \in Live(e) \ F : f[i] # Gone
    BY <1>5, EntryIsLive
  <2> QED
    BY <1>2, <1>4, <2>1, <2>2 DEF Live
<1>7. \A i \in Live(f) : f[i] \in Entries
  BY <1>5, <1>6
<1>8. ASSUME NEW i \in Live(f), NEW k \in Keys, f[i].sub[k] # Null
      PROVE  f[i].sub[k] \in Live(f) \ {1}
  <2>1. e[i].sub[k] \in Live(e) \ {1} /\ f[i].sub[k] = e[i].sub[k]
    BY <1>5, <1>6, <1>8 DEF HeapOK
  <2>2. i \in Owners(e, e[i].sub[k]) /\ i \notin F
    BY <1>6 DEF Owners
  <2>3. e[i].sub[k] \notin F
    BY <2>2, FreedOwners
  <2> QED
    BY <1>6, <2>1, <2>3
<1>9. \A i \in Live(f) : /\ f[i].parent # Null => f[i].parent \in Live(f)
                         /\ f[i].parent = IF e[i].parent \in Live(f) THEN e[i].parent ELSE Null
  <2> TAKE i \in Live(f)
  <2>1. e[i].parent # Null => e[i].parent \in Live(e)
    BY <1>6 DEF HeapOK
  <2>2. Null \notin Live(f)
    BY <1>4, SymAssumption
  <2> HIDE DEF F
  <2> QED
    BY <1>5, <1>6, <2>1, <2>2
<1>10. 1 \in Live(f) /\ f[1].type = "netlist" /\ f[1].parent = Null
  <2>1. 1 \in Live(e) /\ e[1].type = "netlist" /\ e[1].parent = Null
    BY DEF HeapOK
  <2> HIDE DEF F
  <2> QED
    BY <1>1, <1>5, <1>6, <2>1
<1>11. HeapOK(f)
  BY <1>2, <1>7, <1>8, <1>9, <1>10 DEF HeapOK
<1>12. ASSUME NEW x \in Live(f)
       PROVE  f[x] = [e[x] EXCEPT !.parent = IF @ \in Live(f) THEN @ ELSE Null]
  <2>1. f[x] = [e[x] EXCEPT !.parent = IF @ \in F THEN Null ELSE @] /\ e[x] \in Entries
    BY <1>3, <1>4, <1>6 DEF HeapOK
  <2>2. (IF e[x].parent \in F THEN Null ELSE e[x].parent)
          = (IF e[x].parent \in Live(f) THEN e[x].parent ELSE Null)
    <3>1. x \in Live(e) /\ x \notin F
      BY <1>6
    <3> HIDE DEF F
    <3> QED
      BY <1>5, <1>9, <3>1
  <2> HIDE DEF F
  <2> QED
    BY <2>1, <2>2 DEF Entries
<1> QED
  BY <1>6, <1>11, <1>12 DEF f

(* Names of one table changed, to live entries. *)
Renamed(e, f, i, K, table) ==
  /\ i \in Live(e) /\ K \subseteq Keys /\ table \in [Keys -> Ids \cup {Null}]
  /\ DOMAIN f = Ids /\ f[i] = [e[i] EXCEPT !.sub = table]
  /\ \A x \in Ids \ {i} : f[x] = e[x]
  /\ \A k \in Keys : \/ table[k] = e[i].sub[k]
                     \/ k \in K /\ table[k] \in Live(e) \ {1}

LEMMA RenamedSound ==
  ASSUME NEW e, HeapOK(e), NEW f, NEW i, NEW K, NEW table, Renamed(e, f, i, K, table)
  PROVE  /\ HeapOK(f) /\ Live(f) = Live(e) /\ f[i].sub = table
         /\ \A x \in Live(f) : /\ f[x].type = e[x].type /\ f[x].parent = e[x].parent
                               /\ \A k \in Keys : ~ (x = i /\ k \in K) => f[x].sub[k] = e[x].sub[k]
<1> USE DEF HeapOK, Renamed
<1>1. Live(e) \subseteq Ids /\ i \in Ids /\ e[i] \in Entries
  BY DEF Live
<1>2. f[i] \in Entries /\ f[i].sub = table /\ f[i].type = e[i].type /\ f[i].parent = e[i].parent
  BY <1>1 DEF Entries
<1>3. f[i] # Gone
  BY <1>2, EntryIsLive
<1>4. Live(f) = Live(e)
  BY <1>1, <1>3 DEF Live
<1>5. \A x \in Live(f) : f[x] \in Entries
  BY <1>1, <1>2, <1>4
<1>6. ASSUME NEW x \in Live(f)
      PROVE  /\ f[x].type = e[x].type /\ f[x].parent = e[x].parent
             /\ \A k \in Keys : ~ (x = i /\ k \in K) => f[x].sub[k] = e[x].sub[k]
  <2>1. CASE x = i
    BY <1>1, <1>2, <2>1
  <2>2. CASE x # i
    BY <1>1, <1>4, <2>2
  <2> QED
    BY <2>1, <2>2
<1>7. ASSUME NEW x \in Live(f), NEW k \in Keys, f[x].sub[k] # Null
      PROVE  f[x].sub[k] \in Live(f) \ {1}
  <2>1. CASE x = i
    BY <1>2, <1>4, <1>7, <2>1
  <2>2. CASE x # i
    BY <1>1, <1>4, <1>7, <2>2
  <2> QED
    BY <2>1, <2>2
<1>8. \A x \in Live(f) : f[x].parent # Null => f[x].parent \in Live(f)
  BY <1>4, <1>6
<1>9. 1 \in Live(f) /\ f[1].type = "netlist" /\ f[1].parent = Null
  BY <1>4, <1>6
<1> QED
  BY <1>2, <1>4, <1>5, <1>6, <1>7, <1>8, <1>9

(* The whole effect, with or without a release. *)
Filing(e, f, i, K, table) ==
  /\ HeapOK(f) /\ Leaves(e, f, i, K)
  /\ i \in Live(f) => f[i].sub = table
  /\ \A S : Spared(e, i, K, S) => S \subseteq Live(f)

LEMMA RenamedFiles ==
  ASSUME NEW e, HeapOK(e), NEW f, NEW i, NEW K, NEW table, Renamed(e, f, i, K, table)
  PROVE  Filing(e, f, i, K, table)
<1>1. /\ HeapOK(f) /\ Live(f) = Live(e) /\ f[i].sub = table
      /\ \A x \in Live(f) : /\ f[x].type = e[x].type /\ f[x].parent = e[x].parent
                            /\ \A k \in Keys : ~ (x = i /\ k \in K) => f[x].sub[k] = e[x].sub[k]
  BY RenamedSound
<1>2. \A x \in Live(f) : f[x].parent = IF e[x].parent \in Live(f) THEN e[x].parent ELSE Null
  BY <1>1 DEF HeapOK
<1>3. \A S : Spared(e, i, K, S) => S \subseteq Live(f)
  BY <1>1 DEF Spared
<1> QED
  BY <1>1, <1>2, <1>3 DEF Filing, Leaves

LEMMA ReleasedFiles ==
  ASSUME NEW e, HeapOK(e), NEW f, NEW i, NEW K, NEW table, Renamed(e, f, i, K, table),
         NEW D, D \subseteq Live(e) \ {1}
  PROVE  Filing(e, Release(f, D), i, K, table)
<1> DEFINE g == Release(f, D)
<1>1. /\ HeapOK(f) /\ Live(f) = Live(e) /\ f[i].sub = table
      /\ \A x \in Live(f) : /\ f[x].type = e[x].type /\ f[x].parent = e[x].parent
                            /\ \A k \in Keys : ~ (x = i /\ k \in K) => f[x].sub[k] = e[x].sub[k]
  BY RenamedSound
<1>2. /\ HeapOK(g) /\ Live(g) = Live(f) \ Freed(f, D)
      /\ \A x \in Live(g) : g[x] = [f[x] EXCEPT !.parent = IF @ \in Live(g) THEN @ ELSE Null]
  BY <1>1, ReleaseSound
<1> HIDE DEF g
<1>3. ASSUME NEW x \in Live(g)
      PROVE  /\ g[x].type = f[x].type /\ g[x].sub = f[x].sub
             /\ g[x].parent = IF f[x].parent \in Live(g) THEN f[x].parent ELSE Null
  <2>1. g[x] = [f[x] EXCEPT !.parent = IF @ \in Live(g) THEN @ ELSE Null] /\ f[x] \in Entries
    BY <1>1, <1>2 DEF HeapOK
  <2> QED
    BY <2>1 DEF Entries
<1>4. Leaves(e, g, i, K)
  BY <1>1, <1>2, <1>3 DEF Leaves
<1>5. i \in Live(g) => g[i].sub = table
  BY <1>1, <1>3
<1>6. ASSUME NEW S, Spared(e, i, K, S) PROVE S \subseteq Live(g)
  <2>1. S \subseteq Live(f)
    BY <1>1, <1>6 DEF Spared
  <2>2. ASSUME NEW x \in S
        PROVE  \/ x \notin D /\ Owners(f, x) = {}
               \/ Owners(f, x) \cap S # {}
    <3>1. CASE x = 1
      <4>1. Owners(f, 1) = {}
        BY <1>1, SymAssumption DEF HeapOK, Owners
      <4> QED
        BY <3>1, <4>1
    <3>2. CASE x # 1
      <4>1. PICK o \in S, k \in Keys : e[o].sub[k] = x /\ ~ (o = i /\ k \in K)
        BY <1>6, <3>2 DEF Spared
      <4>2. o \in Live(f) /\ f[o].sub[k] = x
        BY <1>1, <2>1, <4>1
      <4>3. o \in Owners(f, x)
        BY <4>2 DEF Owners
      <4> QED
        BY <4>3
    <3> QED
      BY <3>1, <3>2
  <2>3. S \cap Freed(f, D) = {}
    BY <2>1, <2>2, FreedSpares
  <2> QED
    BY <1>2, <2>1, <2>3
<1>7. Filing(e, g, i, K, table)
  BY <1>2, <1>4, <1>5, <1>6 DEF Filing
<1> QED
  BY <1>7 DEF g

(* replaceInsert, of an entry that there is. *)
LEMMA FileSound ==
  ASSUME NEW e, HeapOK(e), NEW i \in Live(e), NEW key \in Keys, NEW new \in Live(e) \ {1}
  PROVE  Filing(e, File(e, i, key, new), i, {key}, [e[i].sub EXCEPT ![key] = new])
<1> DEFINE f == [e EXCEPT ![i].sub[key] = new]
           table == [e[i].sub EXCEPT ![key] = new]
<1>1. Live(e) \subseteq Ids /\ e[i] \in Entries /\ DOMAIN e = Ids
  BY DEF HeapOK, Live
<1>2. e[i].sub \in [Keys -> Ids \cup {Null}]
  BY <1>1 DEF Entries
<1>3. /\ table \in [Keys -> Ids \cup {Null}] /\ table[key] = new
      /\ \A k \in Keys \ {key} : table[k] = e[i].sub[k]
  BY <1>1, <1>2
<1>4. f[i] = [e[i] EXCEPT !.sub = table] /\ DOMAIN f = Ids /\ \A x \in Ids \ {i} : f[x] = e[x]
  BY <1>1
<1> HIDE DEF f, table
<1>5. Renamed(e, f, i, {key}, table)
  BY <1>3, <1>4 DEF Renamed
<1>6. CASE e[i].sub[key] \in {Null, new}
  BY <1>5, <1>6, RenamedFiles DEF File, f, table
<1>7. CASE e[i].sub[key] \notin {Null, new}
  <2>1. {e[i].sub[key]} \subseteq Live(e) \ {1}
    BY <1>7 DEF HeapOK
  <2>2. Filing(e, Release(f, {e[i].sub[key]}), i, {key}, table)
    BY <1>5, <2>1, ReleasedFiles
  <2>3. File(e, i, key, new) = Release(f, {e[i].sub[key]})
    BY <1>7 DEF File, f
  <2> QED
    BY <2>2, <2>3 DEF table
<1> QED
  BY <1>6, <1>7
-----------------------------------------------------------------------------
(* What an operation leaves of the heap when it files under i, with the    *)
(* names K, and adds the entries Added.                                      *)
Grown(e, f, i, K, Added) ==
  /\ HeapOK(f) /\ Live(f) \subseteq Live(e) \cup Added
  /\ \A x \in Live(f) \ Added :
       /\ f[x].type = e[x].type
       /\ f[x].parent = IF e[x].parent \in Live(f) THEN e[x].parent ELSE Null
       /\ \A k \in Keys : ~ (x = i /\ k \in K) => f[x].sub[k] = e[x].sub[k]
  /\ \A S : Spared(e, i, K, S) => S \subseteq Live(f)

LEMMA FilingGrows ==
  ASSUME NEW e, NEW f, NEW i, NEW K, NEW table, Filing(e, f, i, K, table)
  PROVE  Grown(e, f, i, K, {})
BY DEF Filing, Leaves, Grown

LEMMA ReplaceSound ==
  ASSUME NEW e, HeapOK(e), NEW i \in Live(e), NEW key \in Keys, NEW type \in Types,
         NEW new \in Ids \ Live(e), NEW f, f = replaceInsert(e, i, type, key, new)
  PROVE  /\ Grown(e, f, i, {key}, {new})
         /\ i \in Live(f) => /\ new \in Live(f) /\ f[new].type = type /\ f[new].parent = i
                             /\ f[i].sub[key] = new
<1> DEFINE d == [e EXCEPT ![new] = Entry(type, i)]
<1>1. Live(e) \subseteq Ids /\ i \in Ids /\ DOMAIN e = Ids /\ i # new /\ new # 1
  BY DEF HeapOK, Live
<1>2. d[new] = Entry(type, i) /\ DOMAIN d = Ids /\ \A x \in Ids \ {new} : d[x] = e[x]
  BY <1>1
<1> HIDE DEF d
<1>3. Entry(type, i) \in Entries /\ Entry(type, i).type = type
      /\ Entry(type, i).parent = i /\ Entry(type, i).sub = NoKeys
      /\ \A k \in Keys : Entry(type, i).sub[k] = Null
  BY <1>1 DEF Entry, Entries, NoKeys
<1>4. Live(d) = Live(e) \cup {new}
  <2>1. d[new] # Gone
    BY <1>2, <1>3, EntryIsLive
  <2> QED
    BY <1>1, <1>2, <2>1 DEF Live
<1>5. \A x \in Live(e) : d[x] = e[x]
  BY <1>1, <1>2
<1>6. HeapOK(d)
  <2>1. \A x \in Live(d) : d[x] \in Entries
    BY <1>2, <1>3, <1>4, <1>5 DEF HeapOK
  <2>2. \A x \in Live(d), k \in Keys : d[x].sub[k] # Null => d[x].sub[k] \in Live(d) \ {1}
    BY <1>2, <1>3, <1>4, <1>5 DEF HeapOK
  <2>3. \A x \in Live(d) : d[x].parent # Null => d[x].parent \in Live(d)
    BY <1>2, <1>3, <1>4, <1>5 DEF HeapOK
  <2>4. 1 \in Live(d) /\ d[1].type = "netlist" /\ d[1].parent = Null
    BY <1>4, <1>5 DEF HeapOK
  <2> QED
    BY <1>2, <2>1, <2>2, <2>3, <2>4 DEF HeapOK
<1> DEFINE table == [d[i].sub EXCEPT ![key] = new]
<1>7. Filing(d, f, i, {key}, table)
  <2>1. f = File(d, i, key, new)
    BY DEF replaceInsert, d
  <2> QED
    BY <1>1, <1>4, <1>6, <2>1, FileSound
<1>8. table[key] = new
  <2>1. d[i] \in Entries
    BY <1>4, <1>6 DEF HeapOK
  <2> QED
    BY <2>1 DEF Entries
<1> HIDE DEF table
<1>9. \A x \in Live(f) \ {new} :
        /\ f[x].type = e[x].type
        /\ f[x].parent = IF e[x].parent \in Live(f) THEN e[x].parent ELSE Null
        /\ \A k \in Keys : ~ (x = i /\ k = key) => f[x].sub[k] = e[x].sub[k]
  BY <1>4, <1>5, <1>7 DEF Filing, Leaves
<1>10. ASSUME NEW S, Spared(e, i, {key}, S) PROVE S \subseteq Live(f)
  <2>1. Spared(d, i, {key}, S)
    BY <1>4, <1>5, <1>10 DEF Spared
  <2> QED
    BY <1>7, <2>1 DEF Filing
<1>11. Grown(e, f, i, {key}, {new})
  BY <1>4, <1>7, <1>9, <1>10 DEF Grown, Filing, Leaves
<1>12. ASSUME i \in Live(f)
       PROVE  new \in Live(f) /\ f[new].type = type /\ f[new].parent = i /\ f[i].sub[key] = new
  <2>1. f[i].sub[key] = new
    BY <1>7, <1>8, <1>12 DEF Filing
  <2>2. new \in Live(f)
    BY <1>7, <1>12, <2>1, SymAssumption DEF Filing, HeapOK
  <2>3. f[new].type = d[new].type
        /\ f[new].parent = IF d[new].parent \in Live(f) THEN d[new].parent ELSE Null
    BY <1>7, <2>2 DEF Filing, Leaves
  <2> QED
    BY <1>2, <1>3, <1>12, <2>1, <2>2, <2>3
<1> QED
  BY <1>11, <1>12

LEMMA ImportOneSound ==
  ASSUME NEW e, HeapOK(e), NEW i \in Live(e), NEW pkg, NEW key \in Keys
  PROVE  Grown(e, ImportOne(e, i, pkg, key), i, Keys, {})
<1>1. CASE findSym(e, pkg, key) = Null
  <2>1. ImportOne(e, i, pkg, key) = e
    BY <1>1 DEF ImportOne
  <2>2. \A x \in Live(e) : e[x].parent = IF e[x].parent \in Live(e) THEN e[x].parent ELSE Null
    BY DEF HeapOK
  <2> QED
    BY <2>1, <2>2 DEF Grown, Spared
<1>2. CASE findSym(e, pkg, key) # Null
  <2> DEFINE new == findSym(e, pkg, key)
  <2>1. new \in Live(e) \ {1}
    BY <1>2 DEF findSym, HeapOK
  <2>2. ImportOne(e, i, pkg, key) = File(e, i, key, new)
    BY <1>2 DEF ImportOne
  <2> DEFINE f == File(e, i, key, new)
  <2>3. Filing(e, f, i, {key}, [e[i].sub EXCEPT ![key] = new])
    BY <2>1, FileSound
  <2> HIDE DEF f
  <2>4. Grown(e, f, i, {key}, {})
    BY <2>3, FilingGrows
  <2>5. \A S : Spared(e, i, Keys, S) => Spared(e, i, {key}, S)
    BY DEF Spared
  <2>6. Grown(e, f, i, Keys, {})
    BY <2>4, <2>5 DEF Grown
  <2> QED
    BY <2>2, <2>6 DEF f
<1> QED
  BY <1>1, <1>2

LEMMA ImportStarSound ==
  ASSUME NEW e, HeapOK(e), NEW i \in Live(e), NEW pkg
  PROVE  Grown(e, ImportStar(e, i, pkg), i, Keys, {})
<1> DEFINE took  == {k \in Keys : findSym(e, pkg, k) # Null}
           table == [k \in Keys |-> IF k \in took THEN e[pkg].sub[k] ELSE e[i].sub[k]]
           f     == [e EXCEPT ![i].sub = table]
           D     == {e[i].sub[k] : k \in took} \ {Null}
<1>1. Live(e) \subseteq Ids /\ i \in Ids /\ DOMAIN e = Ids /\ e[i] \in Entries
  BY DEF HeapOK, Live
<1>2. \A k \in took : e[pkg].sub[k] \in Live(e) \ {1}
  BY DEF findSym, HeapOK
<1>3. \A k \in Keys : e[i].sub[k] \in Ids \cup {Null}
  BY <1>1 DEF Entries
<1>4. /\ table \in [Keys -> Ids \cup {Null}]
      /\ \A k \in Keys : \/ table[k] = e[i].sub[k]
                         \/ k \in Keys /\ table[k] \in Live(e) \ {1}
  BY <1>1, <1>2, <1>3
<1>5. D \subseteq Live(e) \ {1}
  BY DEF HeapOK
<1>6. ImportStar(e, i, pkg) = Release(f, D)
  BY DEF ImportStar
<1> HIDE DEF table
<1>7. f[i] = [e[i] EXCEPT !.sub = table] /\ DOMAIN f = Ids /\ \A x \in Ids \ {i} : f[x] = e[x]
  BY <1>1
<1> HIDE DEF f, D
<1>8. Renamed(e, f, i, Keys, table)
  BY <1>4, <1>7 DEF Renamed
<1>9. Filing(e, Release(f, D), i, Keys, table)
  BY <1>5, <1>8, ReleasedFiles
<1> QED
  BY <1>6, <1>9, FilingGrows
-----------------------------------------------------------------------------
(* A scope and its parents, upwards, as far as one likes. *)
Above(e, i) ==
  LET above[n \in Nat] == IF n = 0 THEN i ELSE parentp(e, above[n - 1])
  IN  above

LEMMA AboveIs ==
  ASSUME NEW e, HeapOK(e), NEW i \in Ids \cup {Null}
  PROVE  /\ Above(e, i)[0] = i
         /\ \A n \in Nat : Above(e, i)[n + 1] = parentp(e, Above(e, i)[n])
<1> DEFINE X == Ids \cup {Null}
           up == [x \in X |-> parentp(e, x)]
           step == [n \in Nat |-> up]
<1>1. \A x \in X : parentp(e, x) \in X
  BY DEF parentp, HeapOK, Entries
<1>2. step \in [Nat -> [X -> X]]
  BY <1>1
<1>3. PICK g \in [Nat -> X] : g[0] = i /\ \A n \in Nat : g[n + 1] = step[n][g[n]]
  <2>1. i \in X
    OBVIOUS
  <2> HIDE DEF step, X, up
  <2> QED
    BY <1>2, <2>1, Iteration, SMTT(20)
<1>4. \A n \in Nat : g[n + 1] = parentp(e, g[n])
  BY <1>3
<1>5. g = [n \in Nat |-> IF n = 0 THEN i ELSE parentp(e, g[n - 1])]
  <2>1. \A n \in Nat : g[n] = IF n = 0 THEN i ELSE parentp(e, g[n - 1])
    <3> TAKE n \in Nat
    <3>1. CASE n = 0
      BY <1>3, <3>1
    <3>2. CASE n # 0
      <4>1. n - 1 \in Nat /\ (n - 1) + 1 = n
        BY <3>2
      <4> QED
        BY <1>4, <3>2, <4>1
    <3> QED
      BY <3>1, <3>2
  <2> QED
    BY <1>3, <2>1
<1> DEFINE Fits(h) == h = [n \in Nat |-> IF n = 0 THEN i ELSE parentp(e, h[n - 1])]
<1>6. Above(e, i) = CHOOSE h : Fits(h)
  BY DEF Above
<1>7. Fits(Above(e, i))
  <2>1. Fits(g)
    BY <1>5
  <2> HIDE DEF Fits
  <2> QED
    BY <1>6, <2>1
<1> HIDE DEF X
<1> DEFINE a == Above(e, i)
<1>8. a = [n \in Nat |-> IF n = 0 THEN i ELSE parentp(e, a[n - 1])]
  BY <1>7
<1> HIDE DEF a
<1>9. a[0] = i /\ \A n \in Nat : n + 1 \in Nat /\ n + 1 # 0 /\ (n + 1) - 1 = n
  BY <1>8
<1>10. \A n \in Nat : a[n + 1] = parentp(e, a[n])
  BY <1>8, <1>9
<1> QED
  BY <1>9, <1>10 DEF a

(* Up is the first of them. *)
LEMMA UpIsAbove ==
  ASSUME NEW e, HeapOK(e), NEW i \in Ids \cup {Null}
  PROVE  /\ DOMAIN Up(e, i) = 0 .. Cardinality(Ids)
         /\ \A n \in DOMAIN Up(e, i) : Up(e, i)[n] = Above(e, i)[n]
<1> DEFINE a == Above(e, i)
           C == 0 .. Cardinality(Ids)
           g == [n \in C |-> a[n]]
           Fits(h) == h = [n \in C |-> IF n = 0 THEN i ELSE parentp(e, h[n - 1])]
<1>0. Cardinality(Ids) \in Nat
  BY FS_CardinalityType, SymAssumption
<1>1. a[0] = i /\ \A n \in Nat : a[n + 1] = parentp(e, a[n])
  BY AboveIs
<1> HIDE DEF a
<1>2. ASSUME NEW n \in C PROVE g[n] = IF n = 0 THEN i ELSE parentp(e, g[n - 1])
  <2>1. CASE n = 0
    BY <1>1, <2>1
  <2>2. CASE n # 0
    <3>1. n - 1 \in C /\ n - 1 \in Nat /\ (n - 1) + 1 = n
      BY <1>0, <2>2
    <3> QED
      BY <1>1, <2>2, <3>1
  <2> QED
    BY <2>1, <2>2
<1>3. Fits(g)
  BY <1>2
<1>4. Up(e, i) = CHOOSE h : Fits(h)
  BY DEF Up
<1> DEFINE u == Up(e, i)
<1>5. Fits(u)
  <2> HIDE DEF Fits, g
  <2> QED
    BY <1>3, <1>4
<1> HIDE DEF u, g
<1>6. DOMAIN u = C /\ \A n \in C : u[n] = IF n = 0 THEN i ELSE parentp(e, u[n - 1])
  BY <1>5
<1> DEFINE T == {n \in Nat : n \in C => u[n] = a[n]}
<1>7. 0 \in T
  BY <1>0, <1>1, <1>6
<1>8. ASSUME NEW n \in Nat, n \in T PROVE n + 1 \in T
  <2> SUFFICES ASSUME n + 1 \in C PROVE u[n + 1] = a[n + 1]
    OBVIOUS
  <2>1. n \in C /\ n + 1 # 0 /\ (n + 1) - 1 = n
    BY <1>0
  <2>2. u[n] = a[n]
    BY <1>8, <2>1
  <2> QED
    BY <1>1, <1>6, <2>1, <2>2
<1>9. \A n \in Nat : n \in T
  <2> HIDE DEF T
  <2> QED
    BY <1>7, <1>8, Induction
<1>10. \A n \in C : n \in Nat
  BY <1>0
<1> QED
  BY <1>6, <1>9, <1>10 DEF u, a

(* They stay within a set that has the parents of its members. *)
LEMMA AboveWithin ==
  ASSUME NEW e, HeapOK(e), NEW S, S \subseteq Ids \cup {Null}, NEW i \in S,
         \A x \in S : parentp(e, x) \in S
  PROVE  \A n \in Nat : Above(e, i)[n] \in S
<1> DEFINE T == {n \in Nat : Above(e, i)[n] \in S}
<1>1. 0 \in T
  BY AboveIs
<1>2. \A n \in Nat : n \in T => n + 1 \in T
  BY AboveIs
<1>3. \A n \in Nat : n \in T
  <2> HIDE DEF T
  <2> QED
    BY <1>1, <1>2, Induction
<1> QED
  BY <1>3

(* Down a stack in which each scope is the parent of the next, they are    *)
(* the scopes of the stack.                                                *)
LEMMA AboveStack ==
  ASSUME NEW e, HeapOK(e), NEW st \in Seq(Ids), st # <<>>, NEW m \in 0 .. Len(st) - 1,
         \A k \in 1 .. Len(st) : k > Len(st) - m => parentp(e, st[k]) = st[k - 1]
  PROVE  \A n \in 0 .. m : Above(e, st[Len(st)])[n] = st[Len(st) - n]
<1> DEFINE L == Len(st)
           a == Above(e, st[L])
           T == {n \in Nat : n <= m => a[n] = st[L - n]}
<1>1. L \in Nat \ {0} /\ st[L] \in Ids
  OBVIOUS
<1>2. a[0] = st[L] /\ \A n \in Nat : a[n + 1] = parentp(e, a[n])
  <2> DEFINE top == st[L]
  <2>1. top \in Ids \cup {Null}
    BY <1>1
  <2> HIDE DEF top
  <2>2. /\ Above(e, top)[0] = top
        /\ \A n \in Nat : Above(e, top)[n + 1] = parentp(e, Above(e, top)[n])
    BY <2>1, AboveIs
  <2> QED
    BY <2>2 DEF top
<1> HIDE DEF a
<1>3. 0 \in T
  BY <1>1, <1>2
<1>4. ASSUME NEW n \in Nat, n \in T PROVE n + 1 \in T
  <2> SUFFICES ASSUME n + 1 <= m PROVE a[n + 1] = st[L - (n + 1)]
    OBVIOUS
  <2>1. a[n] = st[L - n]
    BY <1>4
  <2>2. L - n \in 1 .. Len(st) /\ L - n > Len(st) - m /\ (L - n) - 1 = L - (n + 1)
    BY <1>1
  <2>3. parentp(e, st[L - n]) = st[L - (n + 1)]
    BY <2>2
  <2> QED
    BY <1>2, <2>1, <2>3
<1>5. \A n \in Nat : n \in T
  <2> HIDE DEF T
  <2> QED
    BY <1>3, <1>4, Induction
<1> QED
  BY <1>5 DEF a

(* The least of a set of numbers. *)
LEMMA MinIsLeast ==
  ASSUME NEW T, T \subseteq Nat, T # {}
  PROVE  Min(T) \in T /\ \A y \in T : Min(T) <= y
<1>1. \E x \in T : \A y \in T : x <= y
  BY Least
<1> QED
  BY <1>1 DEF Min

(* What is found upwards is in the table of one of them. *)
LEMMA FoundIn ==
  ASSUME NEW e, HeapOK(e), NEW i \in Ids \cup {Null}, NEW key, findEntUpward(e, i, key) # Null
  PROVE  \E n \in Nat : /\ findSym(e, Above(e, i)[n], key) = findEntUpward(e, i, key)
<1> DEFINE up == Up(e, i)
           having == {n \in DOMAIN up : findSym(e, up[n], key) # Null}
<1>1. DOMAIN up = 0 .. Cardinality(Ids) /\ \A n \in DOMAIN up : up[n] = Above(e, i)[n]
  BY UpIsAbove
<1> HIDE DEF up
<1>2. findEntUpward(e, i, key) = IF having = {} THEN Null ELSE findSym(e, up[Min(having)], key)
  BY DEF findEntUpward, FindIn, up
<1>3. having # {} /\ having \subseteq Nat
  BY <1>1, <1>2
<1>4. Min(having) \in having
  BY <1>3, MinIsLeast
<1> QED
  BY <1>1, <1>2, <1>3, <1>4
-----------------------------------------------------------------------------
(* Before the first error the stack is that of a list of constructs, the   *)
(* open ones and the interfaces that were left behind.  The scope of       *)
(* construct k is kept alive by its name in the table it was filed under.  *)
(* That is the scope around it, or a class or type that is named in a      *)
(* scope further down: then the construct is a function, and its name that *)
(* of a method.                                                            *)
Methods == {Qualified, New}
Kept(e, st, op, k) ==
  /\ st[k + 1] = op[k].scope /\ st[k + 1] \in Live(e)
  /\ e[st[k + 1]].type = op[k].type /\ e[st[k + 1]].parent = op[k].under
  /\ \E key \in Keys : /\ e[op[k].under].sub[key] = st[k + 1]
                       /\ op[k].type # "function" => key \notin Methods
Placed(e, st, op, k) ==
  \/ op[k].under = st[k]
  \/ /\ op[k].type = "function" /\ e[op[k].under].type \in {"class", "type"}
     /\ \E j \in 1 .. k, key \in Keys \ Methods : e[st[j]].sub[key] = op[k].under

(* In a function or a block there are only blocks.                         *)
Nested(op) ==
  /\ op # <<>> => op[1].type # "block"
  /\ \A k \in 1 .. Len(op) : \A j \in 1 .. k - 1 :
       op[j].type \in {"function", "block"} => op[k].type = "block"

Mirror(e, st, op) ==
  /\ Len(st) = Len(op) + 1 /\ st[1] = 1
  /\ \A j, k \in 1 .. Len(st) : st[j] = st[k] => j = k
  /\ Nested(op)
  /\ \A k \in 1 .. Len(op) : Kept(e, st, op, k) /\ Placed(e, st, op, k)

(* The list has the open constructs at the places where they were pushed,  *)
(* and interfaces at the others.                                           *)
Standing(op, on, left) ==
  /\ Len(op) = Len(on) + left
  /\ \A k \in 1 .. Len(on) : on[k].at - 1 \in 1 .. Len(op) /\ op[on[k].at - 1] = on[k]
  /\ \A k \in 1 .. Len(on) : \A j \in 1 .. k - 1 : on[j].at < on[k].at
  /\ \A m \in 1 .. Len(op) :
       op[m].type # "interface" => \E k \in 1 .. Len(on) : on[k].at = m + 1
MirrorBeforeErrors ==
  ~ errors => \E op \in Seq(Constructs) :
                Mirror(ent, stack, op) /\ Standing(op, open, leftover)

Spine(st, op) == {st[k] : k \in 1 .. Len(st)} \cup {op[k].under : k \in 1 .. Len(op)}

(* Filing under i with the names K touches no name that keeps a scope.     *)
Unhit(st, op, i, K) ==
  \A k \in 1 .. Len(op) :
    /\ op[k].under # i \/ (op[k].type # "function" /\ K \subseteq Methods)
    /\ \A j \in 1 .. k : st[j] # i \/ K \subseteq Methods

(* The entries and constructs of the stack. *)
Shape(e, st, op) ==
  /\ HeapOK(e) /\ st \in Seq(Ids) /\ op \in Seq(Constructs) /\ Mirror(e, st, op)

LEMMA ShapeHas ==
  ASSUME NEW e, NEW st, NEW op, Shape(e, st, op)
  PROVE  /\ Len(op) \in Nat /\ Len(st) \in Nat /\ Len(st) = Len(op) + 1
         /\ Live(e) \subseteq Ids /\ Null \notin Live(e)
         /\ \A k \in 1 .. Len(st) : st[k] \in Live(e)
         /\ \A k \in 1 .. Len(op) :
              /\ k \in 1 .. Len(st) /\ k + 1 \in 1 .. Len(st)
              /\ op[k].under \in Live(e) /\ op[k] \in Constructs
<1>1. Len(op) \in Nat /\ Len(st) \in Nat /\ Len(st) = Len(op) + 1
  BY DEF Shape, Mirror
<1>2. Live(e) \subseteq Ids /\ Null \notin Live(e)
  BY SymAssumption DEF Live, Shape, HeapOK
<1>3. ASSUME NEW k \in 1 .. Len(op)
      PROVE  /\ k \in 1 .. Len(st) /\ k + 1 \in 1 .. Len(st)
             /\ op[k].under \in Live(e) /\ op[k] \in Constructs
             /\ st[k + 1] \in Live(e)
  <2>1. op[k] \in Constructs /\ Kept(e, st, op, k)
    BY DEF Shape, Mirror
  <2>2. st[k + 1] \in Live(e) /\ e[st[k + 1]].parent = op[k].under
    BY <2>1 DEF Kept
  <2>3. op[k].under # Null
    BY <2>1, SymAssumption DEF Constructs
  <2>4. op[k].under \in Live(e)
    BY <2>2, <2>3 DEF Shape, HeapOK
  <2> QED
    BY <1>1, <2>1, <2>2, <2>4
<1>4. ASSUME NEW k \in 1 .. Len(st) PROVE st[k] \in Live(e)
  <2>1. CASE k = 1
    BY <2>1 DEF Shape, Mirror, HeapOK
  <2>2. CASE k # 1
    <3>1. k - 1 \in 1 .. Len(op) /\ (k - 1) + 1 = k
      BY <1>1, <2>2
    <3> QED
      BY <1>3, <3>1
  <2> QED
    BY <2>1, <2>2
<1> QED
  BY <1>1, <1>2, <1>3, <1>4

(* The edges that keep a scope, where filing does not touch them. *)
LEMMA Edges ==
  ASSUME NEW e, NEW st, NEW op, Shape(e, st, op), NEW i, NEW K, Unhit(st, op, i, K),
         NEW k \in 1 .. Len(op)
  PROVE  /\ \E key \in Keys : /\ e[op[k].under].sub[key] = st[k + 1]
                              /\ op[k].type # "function" => key \notin Methods
                              /\ ~ (op[k].under = i /\ key \in K)
         /\ \/ op[k].under = st[k]
            \/ /\ op[k].type = "function" /\ e[op[k].under].type \in {"class", "type"}
               /\ \E j \in 1 .. k, key \in Keys \ Methods :
                    e[st[j]].sub[key] = op[k].under /\ ~ (st[j] = i /\ key \in K)
<1>1. Kept(e, st, op, k) /\ Placed(e, st, op, k)
  BY DEF Shape, Mirror
<1>2. PICK key \in Keys : /\ e[op[k].under].sub[key] = st[k + 1]
                          /\ op[k].type # "function" => key \notin Methods
  BY <1>1 DEF Kept
<1>3. ~ (op[k].under = i /\ key \in K)
  BY <1>2 DEF Unhit
<1>4. ASSUME op[k].under # st[k]
      PROVE  /\ op[k].type = "function" /\ e[op[k].under].type \in {"class", "type"}
             /\ \E j \in 1 .. k, name \in Keys \ Methods :
                  e[st[j]].sub[name] = op[k].under /\ ~ (st[j] = i /\ name \in K)
  <2>1. PICK j \in 1 .. k, name \in Keys \ Methods : e[st[j]].sub[name] = op[k].under
    BY <1>1, <1>4 DEF Placed
  <2>2. ~ (st[j] = i /\ name \in K)
    BY <2>1 DEF Unhit
  <2> QED
    BY <1>1, <1>4, <2>1, <2>2 DEF Placed
<1> QED
  BY <1>2, <1>3, <1>4

LEMMA SpineSpared ==
  ASSUME NEW e, NEW st, NEW op, Shape(e, st, op), NEW i, NEW K, Unhit(st, op, i, K)
  PROVE  Spared(e, i, K, Spine(st, op))
<1> DEFINE S == Spine(st, op)
<1>1. S \subseteq Live(e)
  BY ShapeHas DEF Spine
<1>2. ASSUME NEW k \in 1 .. Len(st), st[k] # 1
      PROVE  \E o \in S, key \in Keys : e[o].sub[key] = st[k] /\ ~ (o = i /\ key \in K)
  <2>1. k - 1 \in 1 .. Len(op) /\ (k - 1) + 1 = k
    BY <1>2, ShapeHas DEF Shape, Mirror
  <2>2. op[k - 1].under \in S
    BY <2>1 DEF Spine
  <2> QED
    BY <2>1, <2>2, Edges
<1>3. ASSUME NEW k \in 1 .. Len(op), op[k].under # 1
      PROVE  \E o \in S, key \in Keys : e[o].sub[key] = op[k].under /\ ~ (o = i /\ key \in K)
  <2>1. CASE op[k].under = st[k]
    BY <1>2, <1>3, <2>1, ShapeHas
  <2>2. CASE op[k].under # st[k]
    <3>1. PICK j \in 1 .. k, key \in Keys \ Methods :
            e[st[j]].sub[key] = op[k].under /\ ~ (st[j] = i /\ key \in K)
      BY <2>2, Edges
    <3>2. j \in 1 .. Len(st)
      BY ShapeHas
    <3>3. st[j] \in S
      BY <3>2 DEF Spine
    <3> QED
      BY <3>1, <3>3
  <2> QED
    BY <2>1, <2>2
<1> QED
  BY <1>1, <1>2, <1>3 DEF Spared, Spine

(* So what keeps the scopes is there after filing. *)
LEMMA KeptGrown ==
  ASSUME NEW e, NEW st, NEW op, Shape(e, st, op), NEW i, NEW K, Unhit(st, op, i, K),
         NEW f, NEW Added, Added \cap Live(e) = {}, Grown(e, f, i, K, Added)
  PROVE  /\ Spine(st, op) \subseteq Live(f)
         /\ \A k \in 1 .. Len(op) : Kept(f, st, op, k) /\ Placed(f, st, op, k)
<1>1. Spine(st, op) \subseteq Live(f) /\ Spine(st, op) \subseteq Live(e)
  <2>1. Spared(e, i, K, Spine(st, op))
    BY SpineSpared
  <2>2. Spine(st, op) \subseteq Live(f)
    BY <2>1 DEF Grown
  <2> QED
    BY <2>1, <2>2 DEF Spared
<1>2. \A x \in Spine(st, op) :
        /\ f[x].type = e[x].type
        /\ e[x].parent \in Live(f) => f[x].parent = e[x].parent
        /\ \A key \in Keys : ~ (x = i /\ key \in K) => f[x].sub[key] = e[x].sub[key]
  BY <1>1 DEF Grown
<1>3. ASSUME NEW k \in 1 .. Len(op)
      PROVE  Kept(f, st, op, k) /\ Placed(f, st, op, k)
  <2>1. /\ k \in 1 .. Len(st) /\ k + 1 \in 1 .. Len(st)
        /\ \A j \in 1 .. k : j \in 1 .. Len(st)
    BY ShapeHas
  <2>2. /\ st[k + 1] \in Spine(st, op) /\ op[k].under \in Spine(st, op)
        /\ \A j \in 1 .. k : st[j] \in Spine(st, op)
    BY <2>1 DEF Spine
  <2>3. Kept(e, st, op, k)
    BY DEF Shape, Mirror
  <2>4. /\ st[k + 1] = op[k].scope /\ st[k + 1] \in Live(f)
        /\ f[st[k + 1]].type = op[k].type /\ f[st[k + 1]].parent = op[k].under
    BY <1>1, <1>2, <2>2, <2>3 DEF Kept
  <2>5. Kept(f, st, op, k)
    BY <1>2, <2>2, <2>4, Edges DEF Kept
  <2>6. Placed(f, st, op, k)
    <3>1. CASE op[k].under = st[k]
      BY <3>1 DEF Placed
    <3>2. CASE op[k].under # st[k]
      <4>1. PICK j \in 1 .. k, key \in Keys \ Methods :
              e[st[j]].sub[key] = op[k].under /\ ~ (st[j] = i /\ key \in K)
        BY <3>2, Edges
      <4>2. op[k].type = "function" /\ e[op[k].under].type \in {"class", "type"}
        BY <3>2, Edges
      <4>3. f[st[j]].sub[key] = op[k].under /\ f[op[k].under].type \in {"class", "type"}
        BY <1>2, <2>2, <4>1, <4>2
      <4> QED
        BY <4>1, <4>2, <4>3 DEF Placed
    <3> QED
      BY <3>1, <3>2
  <2> QED
    BY <2>5, <2>6
<1> QED
  BY <1>1, <1>3

LEMMA MirrorSame ==
  ASSUME NEW e, NEW st, NEW op, Shape(e, st, op), NEW i, NEW K, Unhit(st, op, i, K),
         NEW f, Grown(e, f, i, K, {})
  PROVE  Shape(f, st, op)
<1>1. \A k \in 1 .. Len(op) : Kept(f, st, op, k) /\ Placed(f, st, op, k)
  BY KeptGrown
<1> QED
  BY <1>1 DEF Shape, Mirror, Grown

(* A scope opened: filed under i, where that stays. *)
LEMMA MirrorPush ==
  ASSUME NEW e, NEW st, NEW op, Shape(e, st, op), NEW i, NEW K, Unhit(st, op, i, K),
         NEW f, NEW new \in Ids \ Live(e), Grown(e, f, i, K, {new}),
         \A k \in 1 .. Len(st) : st[k] # new,
         NEW c \in Constructs, c.scope = new, c.under = i,
         op = <<>> => c.type # "block",
         op # <<>> /\ op[Len(op)].type \in {"function", "block"} => c.type = "block",
         new \in Live(f), f[new].type = c.type, f[new].parent = i,
         \E key \in Keys : f[i].sub[key] = new /\ (c.type # "function" => key \notin Methods),
         \/ i = st[Len(st)]
         \/ /\ c.type = "function" /\ f[i].type \in {"class", "type"}
            /\ \E j \in 1 .. Len(st), key \in Keys \ Methods : f[st[j]].sub[key] = i
  PROVE  Shape(f, Append(st, new), Append(op, c))
<1> DEFINE L == Len(op)
           sn == Append(st, new)
           on == Append(op, c)
<1>1. L \in Nat /\ Len(st) = L + 1 /\ st \in Seq(Ids) /\ op \in Seq(Constructs)
  BY ShapeHas DEF Shape
<1>2. /\ sn \in Seq(Ids) /\ Len(sn) = L + 2 /\ sn[L + 2] = new
      /\ \A k \in 1 .. L + 1 : sn[k] = st[k]
  BY <1>1
<1>3. /\ on \in Seq(Constructs) /\ Len(on) = L + 1 /\ on[L + 1] = c
      /\ \A k \in 1 .. L : on[k] = op[k]
  BY <1>1
<1> HIDE DEF sn, on
<1>4. \A k \in 1 .. L : Kept(f, st, op, k) /\ Placed(f, st, op, k)
  BY KeptGrown
<1>5. ASSUME NEW k \in 1 .. L + 1 PROVE Kept(f, sn, on, k) /\ Placed(f, sn, on, k)
  <2>1. CASE k = L + 1
    <3>1. sn[k + 1] = new /\ on[k] = c /\ sn[k] = st[Len(st)]
      BY <1>1, <1>2, <1>3, <2>1
    <3>2. \A j \in 1 .. k : sn[j] = st[j]
      BY <1>2, <2>1
    <3>3. 1 .. k = 1 .. Len(st)
      BY <1>1, <2>1
    <3>4. Kept(f, sn, on, k)
      BY <3>1 DEF Kept
    <3>5. Placed(f, sn, on, k)
      BY <3>1, <3>2, <3>3 DEF Placed
    <3> QED
      BY <3>4, <3>5
  <2>2. CASE k \in 1 .. L
    <3>1. sn[k + 1] = st[k + 1] /\ on[k] = op[k] /\ \A j \in 1 .. k : sn[j] = st[j]
      BY <1>1, <1>2, <1>3, <2>2
    <3>2. sn[k] = st[k]
      BY <1>1, <1>2, <2>2
    <3>3. Kept(f, st, op, k) /\ Placed(f, st, op, k)
      BY <1>4, <2>2
    <3>4. Kept(f, sn, on, k)
      BY <3>1, <3>3 DEF Kept
    <3>5. Placed(f, sn, on, k)
      BY <3>1, <3>2, <3>3 DEF Placed
    <3> QED
      BY <3>4, <3>5
  <2> QED
    BY <1>1, <2>1, <2>2
<1>6. sn[1] = 1 /\ Len(sn) = Len(on) + 1
  BY <1>1, <1>2, <1>3 DEF Shape, Mirror
<1>7. ASSUME NEW j \in 1 .. Len(sn), NEW k \in 1 .. Len(sn), sn[j] = sn[k] PROVE j = k
  <2>1. CASE j \in 1 .. L + 1 /\ k \in 1 .. L + 1
    BY <1>1, <1>2, <1>7, <2>1 DEF Shape, Mirror
  <2>2. CASE j = L + 2 \/ k = L + 2
    BY <1>1, <1>2, <1>7, <2>2
  <2> QED
    BY <1>1, <1>2, <2>1, <2>2
<1>8. Nested(on)
  <2>1. on[1].type # "block"
    BY <1>1, <1>3 DEF Shape, Mirror, Nested
  <2>2. ASSUME NEW k \in 1 .. L + 1, NEW j \in 1 .. k - 1, on[j].type \in {"function", "block"}
        PROVE  on[k].type = "block"
    <3>1. j \in 1 .. L /\ op[j].type \in {"function", "block"}
      BY <1>1, <1>3, <2>2
    <3>2. CASE k \in 1 .. L
      BY <1>3, <3>1, <3>2 DEF Shape, Mirror, Nested
    <3>3. CASE k = L + 1
      <4>1. op[L].type \in {"function", "block"}
        BY <1>1, <3>1 DEF Shape, Mirror, Nested
      <4> QED
        BY <1>1, <1>3, <3>1, <3>3, <4>1
    <3> QED
      BY <1>1, <3>2, <3>3
  <2> QED
    BY <1>3, <2>1, <2>2 DEF Nested
<1>9. Shape(f, sn, on)
  BY <1>2, <1>3, <1>5, <1>6, <1>7, <1>8 DEF Shape, Mirror, Grown
<1> QED
  BY <1>9 DEF sn, on

(* A scope closed. *)
LEMMA MirrorPop ==
  ASSUME NEW e, NEW st, NEW op, Shape(e, st, op), op # <<>>
  PROVE  Shape(e, SubSeq(st, 1, Len(st) - 1), SubSeq(op, 1, Len(op) - 1))
<1> DEFINE L == Len(op) - 1
           sn == SubSeq(st, 1, Len(st) - 1)
           on == SubSeq(op, 1, Len(op) - 1)
<1>1. L \in Nat /\ Len(op) = L + 1 /\ Len(st) = L + 2 /\ st \in Seq(Ids) /\ op \in Seq(Constructs)
  BY ShapeHas DEF Shape
<1>2. sn \in Seq(Ids) /\ Len(sn) = L + 1 /\ \A k \in 1 .. L + 1 : sn[k] = st[k]
  BY <1>1, Prefix
<1>3. on \in Seq(Constructs) /\ Len(on) = L /\ \A k \in 1 .. L : on[k] = op[k]
  BY <1>1, Prefix
<1> HIDE DEF sn, on
<1>4. ASSUME NEW k \in 1 .. L PROVE Kept(e, sn, on, k) /\ Placed(e, sn, on, k)
  <2>1. /\ sn[k + 1] = st[k + 1] /\ on[k] = op[k] /\ sn[k] = st[k]
        /\ \A j \in 1 .. k : sn[j] = st[j]
    BY <1>1, <1>2, <1>3
  <2>2. Kept(e, st, op, k) /\ Placed(e, st, op, k)
    BY <1>1 DEF Shape, Mirror
  <2>3. Kept(e, sn, on, k)
    BY <2>1, <2>2 DEF Kept
  <2>4. Placed(e, sn, on, k)
    BY <2>1, <2>2 DEF Placed
  <2> QED
    BY <2>3, <2>4
<1>5. /\ sn[1] = 1 /\ Len(sn) = Len(on) + 1
      /\ \A j, k \in 1 .. Len(sn) : sn[j] = sn[k] => j = k
  BY <1>1, <1>2, <1>3 DEF Shape, Mirror
<1>6. Nested(on)
  <2>1. ASSUME on # <<>> PROVE on[1].type # "block"
    <3>1. 1 \in 1 .. L
      BY <1>1, <1>3, <2>1
    <3>2. on[1] = op[1] /\ op # <<>>
      BY <1>1, <1>3, <3>1
    <3> QED
      BY <3>2 DEF Shape, Mirror, Nested
  <2>2. ASSUME NEW k \in 1 .. L, NEW j \in 1 .. k - 1, on[j].type \in {"function", "block"}
        PROVE  on[k].type = "block"
    <3>1. j \in 1 .. L /\ on[k] = op[k] /\ on[j] = op[j] /\ k \in 1 .. Len(op)
      BY <1>1, <1>3
    <3>2. op[j].type \in {"function", "block"}
      BY <2>2, <3>1
    <3> QED
      BY <3>1, <3>2 DEF Shape, Mirror, Nested
  <2> QED
    BY <1>3, <2>1, <2>2 DEF Nested
<1>7. Shape(e, sn, on)
  BY <1>2, <1>3, <1>4, <1>5, <1>6 DEF Shape, Mirror
<1> QED
  BY <1>7 DEF sn, on

(* Nothing that keeps a scope is in the table of the innermost, whatever   *)
(* the name, or, when no function or block is open, has a qualified name.  *)
LEMMA UnhitTop ==
  ASSUME NEW e, NEW st, NEW op, Shape(e, st, op), NEW K
  PROVE  Unhit(st, op, st[Len(st)], K)
<1> DEFINE L == Len(op)
           top == st[L + 1]
<1>1. L \in Nat /\ Len(st) = L + 1 /\ \A j, k \in 1 .. Len(st) : st[j] = st[k] => j = k
  BY ShapeHas DEF Shape, Mirror
<1>2. ASSUME NEW k \in 1 .. L, NEW j \in 1 .. k PROVE st[j] # top
  BY <1>1
<1>3. ASSUME NEW k \in 1 .. L, op[k].under = top PROVE FALSE
  <2>1. op[k].under # st[k]
    BY <1>2, <1>3
  <2>2. op[k].type = "function" /\ e[top].type \in {"class", "type"}
    BY <1>3, <2>1 DEF Shape, Mirror, Placed
  <2>3. L \in 1 .. L /\ e[top].type = op[L].type
    BY <1>1 DEF Shape, Mirror, Kept
  <2>4. CASE k = L
    BY <2>2, <2>3, <2>4
  <2>5. CASE k # L
    <3>1. k \in 1 .. L - 1
      BY <1>1, <2>5
    <3>2. op[L].type = "block"
      BY <2>2, <2>3, <3>1 DEF Shape, Mirror, Nested
    <3> QED
      BY <2>2, <2>3, <3>2
  <2> QED
    BY <2>4, <2>5
<1> QED
  BY <1>1, <1>2, <1>3 DEF Unhit

LEMMA UnhitMethods ==
  ASSUME NEW e, NEW st, NEW op, Shape(e, st, op), NEW i, NEW K, K \subseteq Methods,
         \A k \in 1 .. Len(op) : op[k].type # "function"
  PROVE  Unhit(st, op, i, K)
BY DEF Unhit
-----------------------------------------------------------------------------
(* What is found upwards from a live scope is live, and is in the table of *)
(* an entry that is in every set of entries closed under parents.          *)
LEMMA FoundLive ==
  ASSUME NEW e, HeapOK(e), NEW i \in Ids \cup {Null}, NEW key \in Keys,
         findEntUpward(e, i, key) # Null
  PROVE  /\ findEntUpward(e, i, key) \in Live(e) \ {1}
         /\ \A S : /\ S \subseteq Ids \cup {Null} /\ i \in S
                   /\ \A x \in S : parentp(e, x) \in S
                   => \E x \in S \cap Live(e) : e[x].sub[key] = findEntUpward(e, i, key)
<1> DEFINE found == findEntUpward(e, i, key)
<1>1. PICK n \in Nat : findSym(e, Above(e, i)[n], key) = found
  BY FoundIn
<1> HIDE DEF found
<1>2. Above(e, i)[n] \in Live(e) /\ e[Above(e, i)[n]].sub[key] = found /\ found # Null
  BY <1>1 DEF findSym, found
<1>3. found \in Live(e) \ {1}
  BY <1>2 DEF HeapOK
<1>4. ASSUME NEW S, S \subseteq Ids \cup {Null}, i \in S, \A x \in S : parentp(e, x) \in S
      PROVE  \E x \in S \cap Live(e) : e[x].sub[key] = found
  <2>1. Above(e, i)[n] \in S
    BY <1>4, AboveWithin
  <2> QED
    BY <1>2, <2>1
<1> QED
  BY <1>3, <1>4 DEF found

(* Outside functions, the tables that are looked in are the stack's. *)
LEMMA FoundOnStack ==
  ASSUME NEW e, NEW st, NEW op, Shape(e, st, op), NEW key \in Keys,
         \A k \in 1 .. Len(op) : op[k].type # "function",
         findEntUpward(e, st[Len(st)], key) # Null
  PROVE  \E j \in 1 .. Len(st) : e[st[j]].sub[key] = findEntUpward(e, st[Len(st)], key)
<1> DEFINE S == {st[k] : k \in 1 .. Len(st)} \cup {Null}
<1>1. Len(st) \in 1 .. Len(st) /\ HeapOK(e) /\ \A k \in 1 .. Len(st) : st[k] \in Live(e)
  BY ShapeHas DEF Shape
<1>2. S \subseteq Ids \cup {Null} /\ st[Len(st)] \in S /\ st[Len(st)] \in Ids
  BY <1>1, ShapeHas
<1>3. ASSUME NEW x \in S PROVE parentp(e, x) \in S
  <2>1. CASE x = Null
    BY <2>1, ShapeHas DEF parentp
  <2>2. CASE x = 1
    BY <1>1, <2>2 DEF parentp, HeapOK
  <2>3. ASSUME NEW k \in 1 .. Len(st), x = st[k], x # 1 PROVE parentp(e, x) \in S
    <3>1. k - 1 \in 1 .. Len(op) /\ (k - 1) + 1 = k /\ k - 1 \in 1 .. Len(st)
      BY <2>3, ShapeHas DEF Shape, Mirror
    <3>2. Kept(e, st, op, k - 1) /\ Placed(e, st, op, k - 1)
      BY <3>1 DEF Shape, Mirror
    <3>3. parentp(e, x) = st[k - 1]
      BY <1>1, <2>3, <3>1, <3>2 DEF Kept, Placed, parentp
    <3> QED
      BY <3>1, <3>3
  <2> QED
    BY <2>1, <2>2, <2>3
<1>4. \E x \in S \cap Live(e) : e[x].sub[key] = findEntUpward(e, st[Len(st)], key)
  <2> HIDE DEF S
  <2> QED
    BY <1>1, <1>2, <1>3, FoundLive
<1> QED
  BY <1>4, ShapeHas

(* In the innermost construct that is no block, and that is live, or in    *)
(* the netlist, objofUpward finds its answer.                              *)
LEMMA ObjofOnStack ==
  ASSUME NEW op, Shape(ent, stack, op), current = stack[Len(stack)]
  PROVE  objofUpward # Null
<1> DEFINE L == Len(stack)
           up == Up(ent, current)
           T == {n \in 0 .. L - 1 : ent[stack[L - n]].type # "block"}
<1>1. L \in Nat \ {0} /\ Len(op) = L - 1 /\ stack \in Seq(Ids) /\ HeapOK(ent)
  BY ShapeHas DEF Shape
<1>2. L - 1 \in T
  BY <1>1 DEF Shape, Mirror, HeapOK
<1>3. PICK m \in T : \A n \in T : m <= n
  <2>1. T \subseteq 0 .. L - 1 /\ T # {}
    BY <1>2
  <2>2. T \subseteq Nat
    <3>1. 0 .. L - 1 \subseteq Nat
      BY <1>1
    <3> HIDE DEF T
    <3> QED
      BY <2>1, <3>1
  <2> HIDE DEF T
  <2> QED
    BY <2>1, <2>2, Least
<1>4. m \in 0 .. L - 1 /\ ent[stack[L - m]].type # "block"
  BY <1>3
<1>5. ASSUME NEW k \in 1 .. L, k > L - m PROVE parentp(ent, stack[k]) = stack[k - 1]
  <2>1. L - k \in 0 .. L - 1 /\ ~ (m <= L - k) /\ L - (L - k) = k
    BY <1>1, <1>4, <1>5
  <2>2. ent[stack[k]].type = "block"
    BY <1>3, <2>1
  <2>3. k - 1 \in 1 .. Len(op) /\ (k - 1) + 1 = k
    BY <1>1, <1>4, <1>5
  <2>4. Kept(ent, stack, op, k - 1) /\ Placed(ent, stack, op, k - 1)
    BY <2>3 DEF Shape, Mirror
  <2>5. op[k - 1].type = "block" /\ ent[stack[k]].parent = op[k - 1].under /\ stack[k] \in Live(ent)
    BY <2>2, <2>3, <2>4 DEF Kept
  <2> QED
    BY <2>4, <2>5 DEF Placed, parentp
<1>6. Above(ent, current)[m] = stack[L - m]
  <2>1. m \in 0 .. m /\ stack # <<>>
    BY <1>1, <1>4
  <2> QED
    BY <1>1, <1>4, <1>5, <2>1, AboveStack
<1>7. L <= Cardinality(Ids) /\ Cardinality(Ids) \in Nat
  <2>1. stack \in Injection(1 .. L, Ids)
    BY <1>1 DEF Shape, Mirror, Injection, IsInjective
  <2>2. Cardinality(1 .. L) <= Cardinality(Ids)
    BY <2>1, FS_Injection, SymAssumption
  <2>3. Cardinality(1 .. L) = L
    <3>1. 1 \in Int /\ L \in Int /\ ~ (1 > L) /\ L - 1 + 1 = L
      BY <1>1
    <3>2. Cardinality(1 .. L) = IF 1 > L THEN 0 ELSE L - 1 + 1
      BY <3>1, FS_Interval
    <3> QED
      BY <3>1, <3>2
  <2>4. Cardinality(Ids) \in Nat
    BY FS_CardinalityType, SymAssumption
  <2> QED
    BY <2>2, <2>3, <2>4
<1>8. DOMAIN up = 0 .. Cardinality(Ids) /\ \A n \in DOMAIN up : up[n] = Above(ent, current)[n]
  <2>1. current \in Ids \cup {Null}
    BY <1>1
  <2> QED
    BY <1>1, <2>1, UpIsAbove
<1> HIDE DEF up
<1>9. m \in DOMAIN up /\ up[m] = stack[L - m]
  BY <1>1, <1>4, <1>6, <1>7, <1>8
<1> DEFINE known == {n \in DOMAIN up : up[n] # Null /\ ~ typeIgnoreObjof(ent[up[n]].type)}
<1>10. m \in known
  <2>1. L - m \in 1 .. Len(stack)
    BY <1>1, <1>4
  <2>2. stack[L - m] \in Live(ent)
    BY <2>1, ShapeHas
  <2> QED
    BY <1>4, <1>9, <2>2, ShapeHas DEF typeIgnoreObjof
<1>11. known \subseteq Nat
  BY <1>7, <1>8
<1>12. objofUpward = IF known = {} THEN Null ELSE up[Min(known)]
  BY DEF objofUpward, up
<1>13. Min(known) \in known
  <2> HIDE DEF known
  <2> QED
    BY <1>10, <1>11, MinIsLeast
<1> QED
  BY <1>10, <1>12, <1>13
-----------------------------------------------------------------------------
(* A construct begins, an interface is left behind, a construct ends. *)
LEMMA PlacesAreNumbers ==
  ASSUME NEW on \in Seq(Constructs) PROVE \A k \in 1 .. Len(on) : on[k].at \in Nat
<1>1. \A k \in 1 .. Len(on) : on[k] \in Constructs
  OBVIOUS
<1> QED
  BY <1>1 DEF Constructs

LEMMA StandingPush ==
  ASSUME NEW op \in Seq(Constructs), NEW on \in Seq(Constructs), NEW left \in Nat,
         Standing(op, on, left), NEW c \in Constructs, c.at = Len(op) + 2
  PROVE  Standing(Append(op, c), Append(on, c), left)
<1> DEFINE M == Len(op)
           L == Len(on)
           oq == Append(op, c)
           nq == Append(on, c)
<1>1. M \in Nat /\ L \in Nat /\ M = L + left
  BY DEF Standing
<1>2. Len(oq) = M + 1 /\ oq[M + 1] = c /\ \A m \in 1 .. M : oq[m] = op[m]
  OBVIOUS
<1>3. Len(nq) = L + 1 /\ nq[L + 1] = c /\ \A k \in 1 .. L : nq[k] = on[k]
  OBVIOUS
<1> HIDE DEF oq, nq
<1>4. \A k \in 1 .. L : on[k].at - 1 \in 1 .. M /\ op[on[k].at - 1] = on[k] /\ on[k].at \in Nat
  BY PlacesAreNumbers DEF Standing
<1>0. \A k \in 1 .. L : \A j \in 1 .. k - 1 : on[j].at < on[k].at
  BY DEF Standing
<1> HIDE DEF M, L
<1>5. ASSUME NEW k \in 1 .. L + 1
      PROVE  /\ nq[k].at - 1 \in 1 .. M + 1 /\ oq[nq[k].at - 1] = nq[k]
             /\ \A j \in 1 .. k - 1 : nq[j].at < nq[k].at
  <2>1. CASE k = L + 1
    <3>1. \A j \in 1 .. k - 1 : j \in 1 .. L
      BY <2>1, <1>1
    <3>2. nq[k] = c /\ c.at - 1 = M + 1 /\ M + 1 \in 1 .. M + 1
      BY <1>1, <1>3, <2>1 DEF M
    <3>3. ASSUME NEW j \in 1 .. k - 1 PROVE nq[j].at < nq[k].at
      <4>1. nq[j] = on[j] /\ on[j].at - 1 \in 1 .. M /\ on[j].at \in Nat
        BY <1>3, <1>4, <3>1
      <4>2. c.at = M + 2
        BY DEF M
      <4> QED
        BY <1>1, <3>2, <4>1, <4>2
    <3> QED
      BY <1>2, <3>2, <3>3
  <2>2. CASE k \in 1 .. L
    <3>1. nq[k] = on[k] /\ \A j \in 1 .. k - 1 : nq[j] = on[j]
      BY <1>1, <1>3, <2>2
    <3>2. on[k].at - 1 \in 1 .. M /\ op[on[k].at - 1] = on[k]
      BY <1>4, <2>2
    <3>3. \A j \in 1 .. k - 1 : on[j].at < on[k].at
      BY <1>0, <2>2
    <3>4. oq[on[k].at - 1] = op[on[k].at - 1] /\ on[k].at - 1 \in 1 .. M + 1
      BY <1>1, <1>2, <3>2
    <3> QED
      BY <3>1, <3>2, <3>3, <3>4
  <2> QED
    BY <1>1, <2>1, <2>2
<1>6. ASSUME NEW m \in 1 .. M + 1, oq[m].type # "interface"
      PROVE  \E k \in 1 .. L + 1 : nq[k].at = m + 1
  <2>1. CASE m = M + 1
    <3>1. nq[L + 1].at = m + 1 /\ L + 1 \in 1 .. L + 1
      BY <1>1, <1>3, <2>1 DEF M
    <3> QED
      BY <3>1
  <2>2. CASE m \in 1 .. M
    <3>1. PICK k \in 1 .. L : on[k].at = m + 1
      BY <1>2, <1>6, <2>2 DEF Standing, L, M
    <3>2. k \in 1 .. L + 1 /\ nq[k].at = m + 1
      BY <1>1, <1>3, <3>1
    <3> QED
      BY <3>2
  <2> QED
    BY <1>1, <2>1, <2>2
<1>7. Standing(oq, nq, left)
  <2>1. Len(oq) = Len(nq) + left
    BY <1>1, <1>2, <1>3
  <2> QED
    BY <1>2, <1>3, <1>5, <1>6, <2>1 DEF Standing
<1> QED
  BY <1>7 DEF oq, nq

LEMMA StandingLeave ==
  ASSUME NEW op \in Seq(Constructs), NEW on \in Seq(Constructs), NEW left \in Nat,
         Standing(op, on, left), NEW c \in Constructs, c.type = "interface"
  PROVE  Standing(Append(op, c), on, left + 1)
<1> DEFINE M == Len(op)
           oq == Append(op, c)
<1>1. M \in Nat /\ Len(on) \in Nat /\ M = Len(on) + left
  BY DEF Standing
<1>2. Len(oq) = M + 1 /\ oq[M + 1] = c /\ \A m \in 1 .. M : oq[m] = op[m]
  OBVIOUS
<1> HIDE DEF oq
<1>3. ASSUME NEW k \in 1 .. Len(on)
      PROVE  /\ on[k].at - 1 \in 1 .. M + 1 /\ oq[on[k].at - 1] = on[k]
             /\ \A j \in 1 .. k - 1 : on[j].at < on[k].at
  <2>1. /\ on[k].at - 1 \in 1 .. M /\ op[on[k].at - 1] = on[k]
        /\ \A j \in 1 .. k - 1 : on[j].at < on[k].at
    BY DEF Standing
  <2> QED
    BY <1>1, <1>2, <2>1
<1>4. ASSUME NEW m \in 1 .. M + 1, oq[m].type # "interface"
      PROVE  \E k \in 1 .. Len(on) : on[k].at = m + 1
  <2>1. m \in 1 .. M
    BY <1>1, <1>2, <1>4
  <2> QED
    BY <1>2, <1>4, <2>1 DEF Standing
<1>5. Standing(oq, on, left + 1)
  <2>1. Len(oq) = Len(on) + (left + 1)
    BY <1>1, <1>2
  <2> HIDE DEF M
  <2> QED
    BY <1>2, <1>3, <1>4, <2>1 DEF Standing
<1> QED
  BY <1>5 DEF oq

(* What ends is the last open construct, or an interface in its place if   *)
(* that is one too.                                                        *)
LEMMA StandingPop ==
  ASSUME NEW op \in Seq(Constructs), NEW on \in Seq(Constructs), NEW left \in Nat,
         Standing(op, on, left), on # <<>>, op[Len(op)].type = on[Len(on)].type
  PROVE  Standing(SubSeq(op, 1, Len(op) - 1), SubSeq(on, 1, Len(on) - 1), left)
<1> DEFINE M == Len(op) - 1
           L == Len(on) - 1
           oq == SubSeq(op, 1, Len(op) - 1)
           nq == SubSeq(on, 1, Len(on) - 1)
<1>1. M \in Nat /\ L \in Nat /\ Len(op) = M + 1 /\ Len(on) = L + 1 /\ M = L + left
  <2>1. Len(on) \in Nat /\ Len(on) >= 1
    OBVIOUS
  <2>2. Len(op) = Len(on) + left
    BY DEF Standing
  <2> QED
    BY <2>1, <2>2
<1>2. Len(oq) = M /\ \A m \in 1 .. M : oq[m] = op[m]
  BY <1>1, Prefix
<1>3. Len(nq) = L /\ \A k \in 1 .. L : nq[k] = on[k]
  BY <1>1, Prefix
<1> HIDE DEF oq, nq
<1>4. \A k \in 1 .. L + 1 : on[k].at - 1 \in 1 .. M + 1 /\ op[on[k].at - 1] = on[k] /\ on[k].at \in Nat
  BY <1>1, PlacesAreNumbers DEF Standing
<1>5. ASSUME NEW k \in 1 .. L + 1, NEW j \in 1 .. k - 1 PROVE on[j].at < on[k].at
  BY <1>1 DEF Standing
<1> HIDE DEF M, L
<1>6. ASSUME NEW k \in 1 .. L PROVE on[k].at < on[L + 1].at
  <2>1. L + 1 \in 1 .. L + 1 /\ k \in 1 .. (L + 1) - 1
    BY <1>1
  <2> QED
    BY <1>5, <2>1
<1>7. ASSUME NEW k \in 1 .. L
      PROVE  /\ nq[k].at - 1 \in 1 .. M /\ oq[nq[k].at - 1] = nq[k]
             /\ \A j \in 1 .. k - 1 : nq[j].at < nq[k].at
  <2>1. nq[k] = on[k] /\ \A j \in 1 .. k - 1 : nq[j] = on[j]
    BY <1>1, <1>3
  <2>2. k \in 1 .. L + 1 /\ L + 1 \in 1 .. L + 1
    BY <1>1
  <2>3. on[k].at < on[L + 1].at /\ \A j \in 1 .. k - 1 : on[j].at < on[k].at
    BY <1>5, <1>6, <2>2
  <2>4. on[k].at - 1 \in 1 .. M
    BY <1>1, <1>4, <2>2, <2>3
  <2> QED
    BY <1>2, <1>4, <2>1, <2>2, <2>3, <2>4
<1>8. ASSUME NEW m \in 1 .. M, oq[m].type # "interface"
      PROVE  \E k \in 1 .. L : nq[k].at = m + 1
  <2>1. m \in 1 .. Len(op) /\ op[m].type # "interface"
    BY <1>1, <1>2, <1>8
  <2>2. PICK k \in 1 .. L + 1 : on[k].at = m + 1
    BY <1>1, <2>1 DEF Standing
  <2>3. k # L + 1
    <3> SUFFICES ASSUME k = L + 1 PROVE FALSE
      OBVIOUS
    <3>1. on[L + 1].at = m + 1 /\ op[m] = on[L + 1]
      <4>1. op[on[k].at - 1] = on[k] /\ (m + 1) - 1 = m
        BY <1>4
      <4> QED
        BY <2>2, <4>1
    <3>2. op[M + 1].type # "interface"
      BY <1>1, <2>1, <3>1
    <3>3. PICK j \in 1 .. L + 1 : on[j].at = (M + 1) + 1
      <4>1. M + 1 \in 1 .. Len(op)
        BY <1>1
      <4> QED
        BY <1>1, <3>2, <4>1 DEF Standing
    <3>4. j = L + 1 \/ j \in 1 .. L
      BY <1>1
    <3>5. on[j].at <= on[L + 1].at
      BY <1>4, <1>6, <3>4
    <3> QED
      BY <1>1, <3>1, <3>3, <3>5
  <2>4. k \in 1 .. L
    BY <1>1, <2>3
  <2> QED
    BY <1>3, <2>2, <2>4
<1>9. Standing(oq, nq, left)
  <2>1. Len(oq) = Len(nq) + left
    BY <1>1, <1>2, <1>3
  <2> QED
    BY <1>2, <1>3, <1>7, <1>8, <2>1 DEF Standing
<1> QED
  BY <1>9 DEF oq, nq

(* What stands on top is the last open construct, or an interface. *)
LEMMA StandingTop ==
  ASSUME NEW op \in Seq(Constructs), NEW on \in Seq(Constructs), NEW left \in Nat,
         Standing(op, on, left), op # <<>>, op[Len(op)].type # "interface"
  PROVE  on # <<>> /\ op[Len(op)] = on[Len(on)]
<1>1. Len(op) \in Nat \ {0} /\ Len(on) \in Nat
  OBVIOUS
<1>2. PICK k \in 1 .. Len(on) : on[k].at = Len(op) + 1
  <2>1. Len(op) \in 1 .. Len(op)
    BY <1>1
  <2> QED
    BY <2>1 DEF Standing
<1>3. Len(on) \in 1 .. Len(on)
  BY <1>1
<1>4. on[Len(on)].at - 1 \in 1 .. Len(op) /\ on[Len(on)].at \in Nat
  BY <1>3, PlacesAreNumbers DEF Standing
<1>5. k = Len(on)
  <2> SUFFICES ASSUME k # Len(on) PROVE FALSE
    OBVIOUS
  <2>1. k \in 1 .. Len(on) - 1
    BY <1>1
  <2>2. on[k].at < on[Len(on)].at
    BY <1>3, <2>1 DEF Standing
  <2> QED
    BY <1>1, <1>2, <1>4, <2>2
<1>6. op[on[Len(on)].at - 1] = on[Len(on)]
  BY <1>3 DEF Standing
<1>7. on[Len(on)].at - 1 = Len(op)
  BY <1>1, <1>2, <1>5
<1> QED
  BY <1>3, <1>6, <1>7
-----------------------------------------------------------------------------
(* What is in use is not given out. *)
LEMMA FreshIsFree ==
  ASSUME NEW more, HasFresh(more)
  PROVE  /\ Fresh(more) \in Ids \ Live(ent)
         /\ \A k \in DOMAIN stack : stack[k] # Fresh(more)
<1>1. Fresh(more) \in Ids \ (InUse \cup more)
  BY DEF HasFresh, Fresh
<1> QED
  BY <1>1 DEF InUse, ToSet

LEMMA NamesAreKeys ==
  /\ PackageNames \cup TypeNames \cup OtherNames \subseteq Keys \ Methods
  /\ Names \subseteq Keys
  /\ {Anon, Keyword} \subseteq Keys \ Methods /\ Methods \subseteq Keys
BY ParseAssumption DEF Names, Methods

(* What an opened scope does to the heap. *)
Opened(e, f, i, key, new, type) ==
  /\ Grown(e, f, i, {key}, {new})
  /\ i \in Live(f) => /\ new \in Live(f) /\ f[new].type = type /\ f[new].parent = i
                      /\ f[i].sub[key] = new

LEMMA PushOpens ==
  ASSUME HeapOK(ent), NEW type \in Types, NEW key \in Keys, NEW under \in Live(ent),
         Room, symPushNewUnder(type, key, under)
  PROVE  Opened(ent, ent', under, key, Fresh({nextId}), type)
<1> DEFINE new == Fresh({nextId})
<1>1. new \in Ids \ Live(ent) /\ ent' = replaceInsert(ent, under, type, key, new)
  BY FreshIsFree DEF symPushNewUnder, Room
<1> HIDE DEF new
<1>2. Opened(ent, ent', under, key, new, type)
  BY <1>1, ReplaceSound DEF Opened
<1> QED
  BY <1>2 DEF new

(* The base is found only if the class is still there. *)
LEMMA SubclassOpens ==
  ASSUME HeapOK(ent), BeginSubclass
  PROVE  \E name \in TypeNames :
           /\ current \in Live(ent) /\ Room /\ MayBegin("class")
           /\ Opened(ent, ent', current, name, Fresh({nextId}), "class")
           /\ stack' = Append(stack, Fresh({nextId}))
           /\ open' = Append(open, Construct("class", Fresh({nextId}), current))
           /\ UNCHANGED <<errors, leftover>>
<1> DEFINE new == Fresh({nextId})
<1>1. PICK name \in TypeNames, base \in TypeNames :
        LET heap  == replaceInsert(ent, current, "class", name, new)
            scp   == findEntUpward(heap, new, base)
        IN  /\ Ready /\ Room /\ MayBegin("class")
            /\ scp # Null
            /\ ent' = ImportStar(heap, new, scp)
            /\ pushScope(new)
            /\ open' = Append(open, Construct("class", new, current))
            /\ UNCHANGED <<errors, leftover>>
  BY DEF BeginSubclass, pastVars
<1>2. Room /\ current \in Live(ent)
  BY <1>1 DEF Ready, Running
<1>3. new \in Ids \ Live(ent) /\ new # Null
  BY <1>2, FreshIsFree, SymAssumption DEF Room
<1>4. name \in Keys /\ base \in Keys
  BY NamesAreKeys
<1>5. MayBegin("class") /\ stack' = Append(stack, new) /\ UNCHANGED <<errors, leftover>>
      /\ open' = Append(open, Construct("class", new, current))
  BY <1>1 DEF pushScope
<1> HIDE DEF new
<1> DEFINE heap == replaceInsert(ent, current, "class", name, new)
           scp  == findEntUpward(heap, new, base)
<1>6. scp # Null /\ ent' = ImportStar(heap, new, scp)
  BY <1>1
<1>7. Opened(ent, heap, current, name, new, "class")
  <2>1. "class" \in Types
    BY DEF Types
  <2> QED
    BY <1>2, <1>3, <1>4, <2>1, ReplaceSound DEF Opened
<1> HIDE DEF heap
<1>8. HeapOK(heap)
  BY <1>7 DEF Opened, Grown
<1>9. new \in Live(heap)
  <2> SUFFICES ASSUME new \notin Live(heap) PROVE FALSE
    OBVIOUS
  <2> DEFINE S == {new, Null}
  <2>1. \A x \in S : parentp(heap, x) \in S
    <3>1. Null \notin Live(heap)
      BY <1>8, SymAssumption DEF HeapOK, Live
    <3> QED
      BY <3>1 DEF parentp
  <2>2. S \subseteq Ids \cup {Null} /\ new \in S /\ new \in Ids \cup {Null}
    BY <1>3
  <2>3. S \cap Live(heap) # {}
    <3> HIDE DEF S
    <3> QED
      BY <1>4, <1>6, <1>8, <2>1, <2>2, FoundLive
  <2>4. Null \notin Live(heap)
    BY <1>8, SymAssumption DEF HeapOK, Live
  <2> QED
    BY <2>3, <2>4
<1> HIDE DEF scp
<1>10. Grown(heap, ent', new, Keys, {})
  BY <1>6, <1>8, <1>9, ImportStarSound
<1>11. HeapOK(ent') /\ Live(ent') \subseteq Live(heap) /\ Live(heap) \subseteq Live(ent) \cup {new}
  BY <1>7, <1>10 DEF Grown, Opened
<1>12. Null \notin Live(ent')
  BY <1>11, SymAssumption DEF HeapOK, Live
<1>13. ASSUME NEW x \in Live(ent') \ {new}
       PROVE  /\ ent'[x].type = ent[x].type
              /\ ent'[x].parent = IF ent[x].parent \in Live(ent') THEN ent[x].parent ELSE Null
              /\ \A k \in Keys : ~ (x = current /\ k \in {name}) => ent'[x].sub[k] = ent[x].sub[k]
  <2>1. x \in Live(heap) \ {new}
    BY <1>11
  <2>2. /\ heap[x].type = ent[x].type
        /\ heap[x].parent = IF ent[x].parent \in Live(heap) THEN ent[x].parent ELSE Null
        /\ \A k \in Keys : ~ (x = current /\ k \in {name}) => heap[x].sub[k] = ent[x].sub[k]
    BY <1>7, <2>1 DEF Opened, Grown
  <2>3. /\ ent'[x].type = heap[x].type
        /\ ent'[x].parent = IF heap[x].parent \in Live(ent') THEN heap[x].parent ELSE Null
        /\ \A k \in Keys : ent'[x].sub[k] = heap[x].sub[k]
    BY <1>10, <2>1 DEF Grown
  <2> QED
    BY <1>11, <1>12, <2>2, <2>3
<1>14. ASSUME NEW S, Spared(ent, current, {name}, S) PROVE S \subseteq Live(ent')
  <2>1. S \subseteq Live(heap) /\ new \notin S
    BY <1>3, <1>7, <1>14 DEF Opened, Grown, Spared
  <2>2. \A o \in S, k \in Keys : ~ (o = current /\ k = name) => heap[o].sub[k] = ent[o].sub[k]
    BY <1>7, <2>1 DEF Opened, Grown
  <2>3. Spared(heap, new, Keys, S)
    BY <1>14, <2>1, <2>2 DEF Spared
  <2> QED
    BY <1>10, <2>3 DEF Grown
<1>15. Grown(ent, ent', current, {name}, {new})
  BY <1>11, <1>13, <1>14 DEF Grown
<1>16. ASSUME current \in Live(ent')
       PROVE  /\ new \in Live(ent') /\ ent'[new].type = "class" /\ ent'[new].parent = current
              /\ ent'[current].sub[name] = new
  <2>1. current \in Live(heap) /\ current # new
    BY <1>2, <1>3, <1>11, <1>16
  <2>2. heap[new].type = "class" /\ heap[new].parent = current /\ heap[current].sub[name] = new
    BY <1>7, <2>1 DEF Opened
  <2>3. ent'[current].sub[name] = new
    BY <1>4, <1>10, <1>16, <2>1, <2>2 DEF Grown
  <2>4. new \in Live(ent')
    BY <1>3, <1>4, <1>11, <1>16, <2>3 DEF HeapOK
  <2>5. /\ ent'[new].type = heap[new].type
        /\ ent'[new].parent = IF heap[new].parent \in Live(ent') THEN heap[new].parent ELSE Null
    BY <1>10, <2>4 DEF Grown
  <2> QED
    BY <1>16, <2>2, <2>3, <2>4, <2>5
<1>17. Opened(ent, ent', current, name, new, "class")
  BY <1>15, <1>16 DEF Opened
<1> QED
  BY <1>2, <1>5, <1>17 DEF new
-----------------------------------------------------------------------------
(* The heap is sound whatever the errors. *)
Tokens == [name : Keys \cup {Null}, scp : Ids \cup {Null}]
KindInv ==
  /\ HeapOK(ent) /\ nextId \in Ids \cup {Null} /\ held \in Tokens
  /\ anonNum \in Nat /\ leftover \in Nat
  /\ errors \in BOOLEAN /\ internal \in BOOLEAN /\ reused \in BOOLEAN

LEMMA TokenTypeLive ==
  ASSUME NEW scp, TokenType(scp) # "etc"
  PROVE  scp \in Live(ent)
BY DEF TokenType

(* A token that is no plain identifier names an entry that is live. *)
LEMMA TokenIsLive ==
  ASSUME HeapOK(ent), NEW name \in Keys, TokenType(Token(name).scp) # "etc"
  PROVE  Token(name) \in Tokens /\ Token(name).scp \in Live(ent)
<1> DEFINE scp == Resolve(name)
<1>1. Token(name) = [name |-> name, scp |-> scp] /\ Token(name).scp = scp
  BY DEF Token
<1> HIDE DEF scp
<1>2. scp \in Live(ent) /\ Live(ent) \subseteq Ids
  BY <1>1, TokenTypeLive DEF HeapOK, Live
<1> QED
  BY <1>1, <1>2 DEF Tokens

LEMMA LookedAhead ==
  ASSUME HeapOK(ent), LooksAhead
  PROVE  /\ nextId' \in {nextId, Null}
         /\ held' = NoToken \/ (held' \in Tokens /\ held'.scp \in Live(ent))
<1>1. CASE held' = NoToken /\ nextId' \in {nextId, Null}
  BY <1>1
<1>2. CASE \E name \in PackageNames \cup TypeNames :
             /\ TokenType(Token(name).scp) # "etc"
             /\ held' = Token(name) /\ nextId' = Null
  <2>1. PICK name \in PackageNames \cup TypeNames :
          /\ TokenType(Token(name).scp) # "etc"
          /\ held' = Token(name) /\ nextId' = Null
    BY <1>2
  <2>2. name \in Keys
    BY NamesAreKeys
  <2> QED
    BY <2>1, <2>2, TokenIsLive
<1> QED
  BY <1>1, <1>2 DEF LooksAhead

LEMMA NoTokenIsToken == NoToken \in Tokens /\ NoToken.scp = Null
BY DEF NoToken, Tokens

(* What a prototype, a typedef or a class to come does to the heap. *)
LEMMA DeclareGrows ==
  ASSUME HeapOK(ent), NEW type \in Types, NEW key \in Keys, Declare(type, key)
  PROVE  \E new \in Ids \ Live(ent) :
           /\ Grown(ent, ent', current, {key}, {new})
           /\ ent' = replaceInsert(ent, current, type, key, new)
<1> DEFINE new == Fresh({nextId})
<1>1. /\ current \in Live(ent) /\ HasFresh({nextId})
      /\ ent' = replaceInsert(ent, current, type, key, new)
  BY DEF Declare, Ready, Running
<1>2. new \in Ids \ Live(ent)
  BY <1>1, FreshIsFree
<1> HIDE DEF new
<1>3. Grown(ent, ent', current, {key}, {new})
  BY <1>1, <1>2, ReplaceSound
<1> QED
  BY <1>1, <1>2, <1>3

LEMMA Declares ==
  ASSUME Typedef \/ Prototype \/ PrototypeNew
  PROVE  \E type \in Types, key \in Keys : Declare(type, key)
<1>1. CASE Typedef
  BY <1>1, NamesAreKeys DEF Typedef, Types
<1>2. CASE Prototype
  BY <1>2, NamesAreKeys DEF Prototype, Types
<1>3. CASE PrototypeNew
  BY <1>3, NamesAreKeys DEF PrototypeNew, Types, Methods
<1> QED
  BY <1>1, <1>2, <1>3

(* What a construct that is filed in its surroundings may be. *)
InnerTypes == {"package", "module", "interface", "class", "function", "block"}

(* The scope of every construct is filed in a live table. *)
LEMMA InnerOpens ==
  ASSUME BeginPackage \/ BeginOther \/ BeginLabelled \/ BeginAnon \/ BeginNew \/ BeginClass
  PROVE  \E type \in InnerTypes,
            key \in Keys :
           /\ Opens(type, key, current)
           /\ type = "function" \/ key \notin Methods
           /\ UNCHANGED errors
<1> USE DEF pastVars
<1>1. CASE BeginPackage
  BY <1>1, NamesAreKeys DEF InnerTypes, BeginPackage, Begin
<1>2. CASE BeginOther
  BY <1>2, NamesAreKeys DEF InnerTypes, BeginOther, Begin
<1>3. CASE BeginLabelled
  BY <1>3, NamesAreKeys DEF InnerTypes, BeginLabelled, Begin
<1>4. CASE BeginAnon
  BY <1>4, NamesAreKeys DEF InnerTypes, BeginAnon
<1>5. CASE BeginNew
  BY <1>5, NamesAreKeys DEF InnerTypes, BeginNew, Methods
<1>6. CASE BeginClass
  BY <1>6, NamesAreKeys DEF InnerTypes, BeginClass, Begin
<1> QED
  BY <1>1, <1>2, <1>3, <1>4, <1>5, <1>6

LEMMA HeapStep ==
  ASSUME KindInv, [ScopesNext]_scopeVars PROVE HeapOK(ent')
<1> USE DEF KindInv
<1>1. CASE UNCHANGED ent
  BY <1>1
<1>2. ASSUME NEW type \in Types, NEW key \in Keys, NEW under \in Live(ent),
             Room, symPushNewUnder(type, key, under)
      PROVE  HeapOK(ent')
  BY <1>2, PushOpens DEF Opened, Grown
<1>3. CASE BeginPackage \/ BeginOther \/ BeginLabelled \/ BeginAnon \/ BeginNew \/ BeginClass
  <2>1. PICK type \in Types, key \in Keys : Opens(type, key, current)
    BY <1>3, InnerOpens DEF Types, InnerTypes
  <2> QED
    BY <1>2, <2>1 DEF Opens, Running
<1>4. CASE ExternInterface
  BY <1>2, <1>4, NamesAreKeys DEF ExternInterface, Ready, Running, Types
<1>7. CASE BeginSubclass
  BY <1>7, SubclassOpens DEF Opened, Grown
<1>8. CASE BeginOutOfBlock
  <2>1. PICK class \in TypeNames, key \in Methods :
          TokenType(Token(class).scp) = "type" /\ Opens("function", key, Token(class).scp)
    BY <1>8 DEF BeginOutOfBlock, Methods
  <2> DEFINE scp == Token(class).scp
  <2> HIDE DEF scp
  <2>2. scp \in Live(ent)
    BY <2>1, TokenTypeLive DEF scp
  <2>3. Room /\ symPushNewUnder("function", key, scp) /\ "function" \in Types
    BY <2>1 DEF scp, Types, Opens
  <2> QED
    BY <1>2, <2>2, <2>3, NamesAreKeys
<1>9. CASE End
  BY <1>1, <1>9 DEF End
<1>10. CASE Typedef \/ Prototype \/ PrototypeNew
  BY <1>10, Declares, DeclareGrows DEF Grown
<1>11. CASE ImportName \/ ImportAll
  <2>1. ASSUME NEW pkg, NEW what, what = "*" \/ what \in Keys, Import(pkg, what)
        PROVE  HeapOK(ent')
    <3> DEFINE entp == Visible(pkg)
    <3>1. \/ UNCHANGED ent
          \/ /\ current \in Live(ent)
             /\ \/ ent' = ImportStar(ent, current, entp)
                \/ what \in Keys /\ ent' = ImportOne(ent, current, entp, what)
      BY <2>1 DEF Import, Ready, Running
    <3> HIDE DEF entp
    <3>2. \A key \in Keys : current \in Live(ent) => HeapOK(ImportOne(ent, current, entp, key))
      BY ImportOneSound DEF Grown
    <3>3. current \in Live(ent) => HeapOK(ImportStar(ent, current, entp))
      BY ImportStarSound DEF Grown
    <3> QED
      BY <3>1, <3>2, <3>3
  <2>2. CASE ImportName
    BY <2>1, <2>2, NamesAreKeys DEF ImportName
  <2>3. CASE ImportAll
    BY <2>1, <2>3 DEF ImportAll
  <2> QED
    BY <1>11, <2>2, <2>3
<1>12. CASE Use \/ ScopedUse \/ ScopedKeyword
  BY <1>1, <1>12 DEF Use, ScopedUse, ScopedKeyword
<1>13. CASE SyntaxError \/ NextText \/ NewParser \/ UNCHANGED scopeVars
  BY <1>1, <1>13 DEF SyntaxError, NextText, NewParser, scopeVars
<1> QED
  BY <1>3, <1>4, <1>7, <1>8, <1>9, <1>10, <1>11, <1>12, <1>13 DEF ScopesNext

LEMMA KindInitial == ScopesInit => KindInv
<1> SUFFICES ASSUME ScopesInit PROVE KindInv
  OBVIOUS
<1>1. Entry("netlist", Null) \in Entries /\ Entry("netlist", Null).parent = Null
      /\ Entry("netlist", Null).type = "netlist"
      /\ \A k \in Keys : Entry("netlist", Null).sub[k] = Null
  BY DEF Entry, Entries, NoKeys, Types
<1>2. DOMAIN ent = Ids /\ ent[1] = Entry("netlist", Null) /\ Live(ent) = {1}
  <2>1. DOMAIN ent = Ids /\ ent[1] = Entry("netlist", Null) /\ \A i \in Ids \ {1} : ent[i] = Gone
    BY SymAssumption DEF ScopesInit
  <2>2. ent[1] # Gone
    BY <1>1, <2>1, EntryIsLive
  <2> QED
    BY <2>1, <2>2, SymAssumption DEF Live
<1>3. HeapOK(ent)
  BY <1>1, <1>2 DEF HeapOK
<1> QED
  BY <1>3, NoTokenIsToken DEF KindInv, ScopesInit

LEMMA KindStep ==
  ASSUME KindInv, [ScopesNext]_scopeVars PROVE KindInv'
<1> DEFINE Rest == /\ nextId \in Ids \cup {Null} /\ held \in Tokens
                   /\ anonNum \in Nat /\ leftover \in Nat
                   /\ errors \in BOOLEAN /\ internal \in BOOLEAN /\ reused \in BOOLEAN
<1>1. HeapOK(ent')
  BY HeapStep
<1>2. Rest /\ Live(ent) \subseteq Ids /\ HeapOK(ent) /\ NoToken \in Tokens
  BY NoTokenIsToken DEF KindInv, Live, HeapOK
<1> SUFFICES Rest'
  BY <1>1 DEF KindInv
<1> USE DEF pastVars
<1>3. ASSUME NEW type, NEW name, NEW key, Begin(type, name, key) PROVE Rest'
  BY <1>2, <1>3 DEF Begin, Opens, Consume
<1>4. CASE BeginPackage \/ BeginOther \/ BeginLabelled \/ BeginClass
  BY <1>3, <1>4 DEF BeginPackage, BeginOther, BeginLabelled, BeginClass
<1>5. CASE BeginAnon
  <2>1. nextId' \in Ids \cup {Null} /\ held' \in Tokens
    BY <1>2, <1>5, LookedAhead DEF BeginAnon
  <2>2. (reused \/ findSym(ent, current, Anon) # Null) \in BOOLEAN
    OBVIOUS
  <2> QED
    BY <1>2, <1>5, <2>1, <2>2 DEF BeginAnon, Opens
<1>6. CASE BeginNew
  <2>1. (reused \/ findSym(ent, current, New) # Null) \in BOOLEAN
    OBVIOUS
  <2> QED
    BY <1>2, <1>6, <2>1 DEF BeginNew, Opens, tokenVars
<1>7. CASE BeginSubclass
  BY <1>2, <1>7 DEF BeginSubclass
<1>8. CASE BeginOutOfBlock
  BY <1>2, <1>8 DEF BeginOutOfBlock, Opens
<1>9. CASE End
  <2>1. nextId' \in Ids \cup {Null} /\ held' \in Tokens
    BY <1>2, <1>9, LookedAhead DEF End
  <2> QED
    BY <1>2, <1>9, <2>1 DEF End, symPopScope
<1>10. CASE ExternInterface
  BY <1>2, <1>10 DEF ExternInterface, Consume
<1>11. CASE Typedef \/ Prototype
  BY <1>2, <1>11 DEF Typedef, Prototype, Declare, Consume
<1>12. CASE PrototypeNew
  <2>1. (reused \/ findSym(ent, current, New) # Null) \in BOOLEAN
    OBVIOUS
  <2> QED
    BY <1>2, <1>12, <2>1 DEF PrototypeNew, Declare
<1>13. CASE ImportName \/ ImportAll
  <2>1. ASSUME NEW pkg, NEW what, Import(pkg, what) PROVE Rest'
    <3>1. (internal \/ (~ errors /\ Visible(pkg) # Token(pkg).scp)) \in BOOLEAN
      OBVIOUS
    <3>2. internal' \in BOOLEAN /\ errors' \in BOOLEAN
      BY <1>2, <2>1, <3>1 DEF Import
    <3> QED
      BY <1>2, <2>1, <3>2 DEF Import
  <2> QED
    BY <1>13, <2>1 DEF ImportName, ImportAll
<1>14. CASE Use \/ ScopedUse
  BY <1>2, <1>14 DEF Use, ScopedUse, Consume
<1>15. CASE ScopedKeyword
  <2>1. PICK scope : /\ TokenType(scope.scp) # "etc" /\ nextId' = scope.scp
                     /\ held' = NoToken /\ errors' = TRUE
                     /\ UNCHANGED <<anonNum, leftover, internal, reused>>
    BY <1>15 DEF ScopedKeyword
  <2>2. nextId' \in Ids
    BY <1>2, <2>1, TokenTypeLive
  <2> QED
    BY <1>2, <2>1, <2>2
<1>16. CASE SyntaxError
  BY <1>2, <1>16 DEF SyntaxError
<1>17. CASE NextText
  <2>1. (errors \/ open # <<>>) \in BOOLEAN
    OBVIOUS
  <2> QED
    BY <1>2, <1>17, <2>1 DEF NextText, tokenVars
<1>18. CASE NewParser
  BY <1>2, <1>18 DEF NewParser
<1>19. CASE UNCHANGED scopeVars
  BY <1>2, <1>19 DEF scopeVars
<1> QED
  BY <1>4, <1>5, <1>6, <1>7, <1>8, <1>9, <1>10, <1>11, <1>12, <1>13, <1>14, <1>15, <1>16,
     <1>17, <1>18, <1>19 DEF ScopesNext

(* Every entry, the stack, the token that is held and the table that is    *)
(* forced on the lexer have their types, whatever is freed.                *)
THEOREM ParseTypes == ScopesSpec => []ParseTypeOK
<1>1. KindInv /\ ScopesInv => ParseTypeOK
  BY DEF KindInv, Tokens, ScopesInv, ScopesKind, HeapOK, Entries, ParseTypeOK
<1> QED
  BY ScopesInitial, ScopesStep, KindInitial, KindStep, <1>1, PTL DEF ScopesSpec
-----------------------------------------------------------------------------
(* A scope that takes no other's place frees nothing. *)
LEMMA AddedFreesNothing ==
  ASSUME HeapOK(ent), current \in Live(ent), NEW new \in Ids \ Live(ent),
         NEW type \in Types, NEW key \in Keys, findSym(ent, current, key) = Null,
         NEW f, f = replaceInsert(ent, current, type, key, new)
  PROVE  Live(ent) \subseteq Live(f)
<1> DEFINE d == [ent EXCEPT ![new] = Entry(type, current)]
           g == [d EXCEPT ![current].sub[key] = new]
<1>1. ent[current].sub[key] = Null
  BY DEF findSym
<1>2. current \in Ids /\ DOMAIN ent = Ids /\ Live(ent) \subseteq Ids
  BY DEF HeapOK, Live
<1>3. f = File(d, current, key, new)
  BY DEF replaceInsert
<1>4. \A x \in Live(ent) : d[x] = ent[x]
  BY <1>2
<1>5. d[current].sub[key] = Null
  BY <1>1, <1>4
<1>6. f = g
  BY <1>3, <1>5 DEF File
<1>7. DOMAIN g = Ids /\ \A x \in Live(ent) \ {current} : g[x] = ent[x]
  BY <1>2, <1>4
<1>8. g[current] # Gone
  <2>1. ent[current] \in Entries
    BY DEF HeapOK
  <2>2. g[current].type = ent[current].type
    BY <1>2, <1>4, <2>1 DEF Entries
  <2>3. g[current].type \in Types
    BY <2>1, <2>2 DEF Entries
  <2> HIDE DEF g
  <2> QED
    BY <2>3 DEF Gone, Types
<1> HIDE DEF g
<1> QED
  BY <1>2, <1>6, <1>7, <1>8 DEF Live

LEMMA TokenTablesStep ==
  ASSUME KindInv, TokenTablesLive, [ScopesNext]_scopeVars PROVE TokenTablesLive'
<1> USE DEF TokenTablesLive, pastVars, tokenVars
<1>0. HeapOK(ent) /\ NoToken.scp = Null
  BY NoTokenIsToken DEF KindInv
<1>1. CASE nextId' = Null /\ held' = NoToken
  BY <1>0, <1>1
<1>2. CASE UNCHANGED <<ent, nextId, held, reused>>
  BY <1>2 DEF Live
<1>4. ASSUME NEW type \in Types, NEW key \in Keys, Room, current \in Live(ent),
             ent' = replaceInsert(ent, current, type, key, Fresh({nextId})),
             reused' = (reused \/ findSym(ent, current, key) # Null)
      PROVE  ~ reused' => ~ reused /\ Live(ent) \subseteq Live(ent')
  <2> DEFINE new == Fresh({nextId})
  <2>1. new \in Ids \ Live(ent)
    BY <1>4, FreshIsFree DEF Room
  <2>2. ent' = replaceInsert(ent, current, type, key, new)
    BY <1>4
  <2> HIDE DEF new
  <2> SUFFICES ASSUME ~ reused' PROVE ~ reused /\ Live(ent) \subseteq Live(ent')
    OBVIOUS
  <2>3. ~ reused /\ findSym(ent, current, key) = Null
    BY <1>4
  <2> QED
    BY <1>0, <1>4, <2>1, <2>2, <2>3, AddedFreesNothing
<1>5. ASSUME NEW type, NEW name, NEW key, Begin(type, name, key) PROVE TokenTablesLive'
  BY <1>1, <1>5 DEF Begin, Consume
<1>6. CASE BeginPackage \/ BeginOther \/ BeginLabelled \/ BeginClass
  BY <1>5, <1>6 DEF BeginPackage, BeginOther, BeginLabelled, BeginClass
<1>7. CASE BeginAnon
  <2>1. LooksAhead /\ Opens("block", Anon, current)
        /\ reused' = (reused \/ findSym(ent, current, Anon) # Null)
    BY <1>7 DEF BeginAnon
  <2>2. ~ reused' => ~ reused /\ Live(ent) \subseteq Live(ent')
    BY <1>4, <2>1, NamesAreKeys DEF Opens, Running, symPushNewUnder, Types
  <2>3. /\ nextId' \in {nextId, Null}
        /\ held' = NoToken \/ held'.scp \in Live(ent)
    BY <1>0, <2>1, LookedAhead
  <2> QED
    BY <1>0, <2>2, <2>3
<1>8. CASE BeginNew
  <2>1. /\ Opens("function", New, current) /\ UNCHANGED <<nextId, held>>
        /\ reused' = (reused \/ findSym(ent, current, New) # Null)
    BY <1>8 DEF BeginNew
  <2>2. ~ reused' => ~ reused /\ Live(ent) \subseteq Live(ent')
    BY <1>4, <2>1, NamesAreKeys DEF Opens, Running, symPushNewUnder, Types, Methods
  <2> QED
    BY <2>1, <2>2
<1>9. CASE BeginSubclass \/ BeginOutOfBlock
  BY <1>1, <1>9 DEF BeginSubclass, BeginOutOfBlock, Ready
<1>10. CASE End
  <2>1. LooksAhead /\ ent' = ent /\ reused' = reused
    BY <1>10 DEF End
  <2>2. /\ nextId' \in {nextId, Null}
        /\ held' = NoToken \/ held'.scp \in Live(ent)
    BY <1>0, <2>1, LookedAhead
  <2> QED
    BY <1>0, <2>1, <2>2 DEF Live
<1>11. CASE ExternInterface \/ Typedef \/ Prototype
  BY <1>1, <1>11 DEF ExternInterface, Typedef, Prototype, Declare, Ready, Consume
<1>12. CASE PrototypeNew
  <2>1. /\ Declare("function", New) /\ UNCHANGED nextId
        /\ reused' = (reused \/ findSym(ent, current, New) # Null)
    BY <1>12 DEF PrototypeNew
  <2> DEFINE new == Fresh({nextId})
  <2>2. /\ current \in Live(ent) /\ HasFresh({nextId}) /\ UNCHANGED held
        /\ ent' = replaceInsert(ent, current, "function", New, new)
    BY <2>1 DEF Declare, Ready, Running
  <2>3. new \in Ids \ Live(ent)
    BY <2>2, FreshIsFree
  <2> HIDE DEF new
  <2> SUFFICES ASSUME ~ reused' PROVE {nextId, held.scp}' \subseteq Live(ent') \cup {Null}
    OBVIOUS
  <2>4. ~ reused /\ findSym(ent, current, New) = Null
    BY <2>1
  <2>5. Live(ent) \subseteq Live(ent')
    <3>1. "function" \in Types /\ New \in Keys
      BY NamesAreKeys DEF Types, Methods
    <3> QED
      BY <1>0, <2>2, <2>3, <2>4, <3>1, AddedFreesNothing
  <2> QED
    BY <2>1, <2>2, <2>4, <2>5
<1>13. CASE ImportName \/ ImportAll
  BY <1>1, <1>13 DEF ImportName, ImportAll, Import, Ready
<1>14. CASE Use \/ ScopedUse
  BY <1>1, <1>14 DEF Use, ScopedUse, Consume
<1>15. CASE ScopedKeyword
  <2>1. PICK token : /\ TokenType(token.scp) # "etc" /\ nextId' = token.scp
                     /\ held' = NoToken /\ ent' = ent
    BY <1>15 DEF ScopedKeyword
  <2>2. nextId' \in Live(ent)
    BY <2>1, TokenTypeLive
  <2> QED
    BY <1>0, <2>1, <2>2 DEF Live
<1>16. CASE SyntaxError
  <2>1. held' = NoToken /\ UNCHANGED <<ent, nextId, reused>>
    BY <1>16 DEF SyntaxError
  <2> QED
    BY <1>0, <2>1 DEF Live
<1>17. CASE NextText \/ NewParser \/ UNCHANGED scopeVars
  BY <1>1, <1>2, <1>17 DEF NextText, NewParser, scopeVars
<1> QED
  BY <1>6, <1>7, <1>8, <1>9, <1>10, <1>11, <1>12, <1>13, <1>14, <1>15, <1>16, <1>17
  DEF ScopesNext

(* The lexer is never told to look at a table that has been freed, nor is  *)
(* an entry freed that a held token names, even after errors, unless a     *)
(* scope that no identifier names replaced another.                        *)
THEOREM TokenTablesStay == ScopesSpec => []TokenTablesLive
<1>1. ScopesInit => TokenTablesLive
  BY NoTokenIsToken DEF ScopesInit, TokenTablesLive
<1> QED
  BY KindInitial, KindStep, TokenTablesStep, <1>1, PTL DEF ScopesSpec
-----------------------------------------------------------------------------
(* The stack before errors. *)
MirrorInv == KindInv /\ ScopesInv /\ ForcedByError /\ MirrorBeforeErrors

LEMMA MirrorShape ==
  ASSUME MirrorInv, ~ errors
  PROVE  /\ \E op \in Seq(Constructs) : Shape(ent, stack, op) /\ Standing(op, open, leftover)
         /\ current = stack[Len(stack)] /\ nextId = Null
         /\ open \in Seq(Constructs) /\ leftover \in Nat /\ HeapOK(ent)
BY DEF MirrorInv, KindInv, ScopesInv, ScopesKind, OpenScopesOnStack, ForcedByError,
       MirrorBeforeErrors, Shape

LEMMA MayBeginNests ==
  ASSUME NEW type \in InnerTypes,
         MayBegin(type), open \in Seq(Constructs), leftover \in Nat,
         NEW op \in Seq(Constructs), Standing(op, open, leftover)
  PROVE  /\ op = <<>> => type # "block"
         /\ op # <<>> /\ op[Len(op)].type \in {"function", "block"} => type = "block"
<1> DEFINE around == IF open = <<>> THEN "top" ELSE open[Len(open)].type
<1>1. around \in Around[type]
  BY DEF MayBegin, Last
<1> HIDE DEF around
<1>2. /\ open = <<>> => type # "block"
      /\ open # <<>> /\ open[Len(open)].type \in {"function", "block"} => type = "block"
  <2>1. CASE type = "package"
    BY <1>1, <2>1 DEF Around, around
  <2>2. CASE type = "module"
    BY <1>1, <2>2 DEF Around, around
  <2>3. CASE type = "interface"
    BY <1>1, <2>3 DEF Around, around
  <2>4. CASE type = "class" \/ type = "function"
    BY <1>1, <2>4 DEF Around, Items, around
  <2>5. CASE type = "block"
    BY <1>1, <2>5 DEF Around, around
  <2> QED
    BY <2>1, <2>2, <2>3, <2>4, <2>5 DEF InnerTypes
<1>3. op = <<>> => open = <<>>
  <2>1. Len(op) = Len(open) + leftover /\ Len(open) \in Nat
    BY DEF Standing
  <2> QED
    BY <2>1
<1>4. op # <<>> /\ op[Len(op)].type \in {"function", "block"}
        => open # <<>> /\ open[Len(open)].type \in {"function", "block"}
  BY StandingTop
<1> QED
  BY <1>2, <1>3, <1>4

(* A scope for a construct, or an interface, in the innermost scope. *)
LEMMA InnerKeeps ==
  ASSUME MirrorInv, ~ errors, current \in Live(ent), Room,
         NEW type \in InnerTypes,
         MayBegin(type), NEW key \in Keys, type = "function" \/ key \notin Methods,
         NEW op \in Seq(Constructs), Shape(ent, stack, op), Standing(op, open, leftover),
         Opened(ent, ent', current, key, Fresh({nextId}), type),
         stack' = Append(stack, Fresh({nextId})),
         NEW c, c = Construct(type, Fresh({nextId}), current)
  PROVE  /\ Shape(ent', stack', Append(op, c))
         /\ c \in Constructs /\ c.type = type /\ c.at = Len(op) + 2
<1> DEFINE new == Fresh({nextId})
<1>1. current = stack[Len(stack)] /\ open \in Seq(Constructs) /\ leftover \in Nat
  BY MirrorShape
<1>2. new \in Ids \ Live(ent) /\ \A k \in DOMAIN stack : stack[k] # new
  BY FreshIsFree DEF Room
<1>9. stack' = Append(stack, new) /\ c = Construct(type, new, current)
  OBVIOUS
<1>10. Opened(ent, ent', current, key, new, type)
  OBVIOUS
<1> HIDE DEF new
<1>3. /\ Grown(ent, ent', current, {key}, {new})
      /\ current \in Live(ent') => /\ new \in Live(ent') /\ ent'[new].type = type
                                   /\ ent'[new].parent = current /\ ent'[current].sub[key] = new
  BY <1>10 DEF Opened
<1>4. Unhit(stack, op, current, {key})
  BY <1>1, UnhitTop
<1>5. current \in Live(ent')
  <2>1. Spine(stack, op) \subseteq Live(ent')
    <3>1. {new} \cap Live(ent) = {}
      BY <1>2
    <3> QED
      BY <1>1, <1>3, <1>4, <3>1, KeptGrown
  <2>2. Len(stack) \in 1 .. Len(stack)
    BY <1>1, ShapeHas
  <2> QED
    BY <1>1, <2>1, <2>2 DEF Spine
<1>6. c \in Constructs /\ c.type = type /\ c.scope = new /\ c.under = current /\ c.at = Len(op) + 2
  <2>1. type \in Types /\ current \in Ids /\ Len(stack) + 1 \in Nat /\ Len(stack) + 1 = Len(op) + 2
    BY ShapeHas DEF Types, InnerTypes
  <2> QED
    BY <1>2, <1>9, <2>1 DEF Construct, Constructs
<1>7. /\ op = <<>> => type # "block"
      /\ op # <<>> /\ op[Len(op)].type \in {"function", "block"} => type = "block"
  BY <1>1, MayBeginNests
<1>8. \A k \in 1 .. Len(stack) : stack[k] # new
  BY <1>2 DEF Shape
<1>11. /\ op = <<>> => c.type # "block"
       /\ op # <<>> /\ op[Len(op)].type \in {"function", "block"} => c.type = "block"
       /\ \E k \in Keys : ent'[current].sub[k] = new /\ (c.type # "function" => k \notin Methods)
       /\ new \in Live(ent') /\ ent'[new].type = c.type /\ ent'[new].parent = current
  <2>1. ent'[current].sub[key] = new /\ (c.type # "function" => key \notin Methods)
    BY <1>3, <1>5, <1>6
  <2> QED
    BY <1>3, <1>5, <1>6, <1>7, <2>1
<1>12. Shape(ent', Append(stack, new), Append(op, c))
  <2>1. \/ current = stack[Len(stack)]
        \/ /\ c.type = "function" /\ ent'[current].type \in {"class", "type"}
           /\ \E j \in 1 .. Len(stack), k \in Keys \ Methods : ent'[stack[j]].sub[k] = current
    BY <1>1
  <2>2. c \in Constructs /\ c.scope = new /\ c.under = current
    BY <1>6
  <2>3. new \in Ids \ Live(ent) /\ Grown(ent, ent', current, {key}, {new})
    BY <1>2, <1>3
  <2> QED
    BY <1>4, <1>8, <1>11, <2>1, <2>2, <2>3, MirrorPush
<1> QED
  BY <1>6, <1>9, <1>12

(* A function of a class that is named, outside functions. *)
LEMMA OutOfBlockKeeps ==
  ASSUME MirrorInv, ~ errors, BeginOutOfBlock,
         NEW op \in Seq(Constructs), Shape(ent, stack, op), Standing(op, open, leftover)
  PROVE  \E c \in Constructs :
           /\ Shape(ent', stack', Append(op, c)) /\ open' = Append(open, c)
           /\ c.at = Len(op) + 2 /\ UNCHANGED leftover
<1> DEFINE new == Fresh({nextId})
<1>1. /\ Shape(ent, stack, op) /\ current = stack[Len(stack)] /\ nextId = Null
      /\ open \in Seq(Constructs) /\ leftover \in Nat
  BY MirrorShape
<1>2. PICK class \in TypeNames, key \in Methods :
        TokenType(Token(class).scp) = "type" /\ Opens("function", key, Token(class).scp)
  BY DEF BeginOutOfBlock, Methods
<1> DEFINE scp == Token(class).scp
           c == Construct("function", new, scp)
<1>3. class \in Keys \ Methods /\ key \in Keys
  BY NamesAreKeys
<1>4. scp = findEntUpward(ent, stack[Len(stack)], class)
  BY <1>1 DEF Token, Resolve, Visible
<1>5. TokenType(scp) = "type" /\ Opens("function", key, scp)
  BY <1>2
<1> HIDE DEF scp
<1>6. scp \in Live(ent) /\ ent[scp].type \in {"class", "type"} /\ scp # Null /\ scp \in Ids
  <2>1. scp \in Live(ent)
    BY <1>5, TokenTypeLive
  <2> QED
    BY <1>1, <1>5, <2>1, ShapeHas DEF TokenType
<1>7. new \in Ids \ Live(ent) /\ \A k \in DOMAIN stack : stack[k] # new
  BY <1>5, FreshIsFree DEF Opens, Room
<1>8. /\ MayBegin("function") /\ stack' = Append(stack, new)
      /\ open' = Append(open, c) /\ UNCHANGED leftover
  BY <1>5 DEF Opens, symPushNewUnder, pushScope
<1>9. Opened(ent, ent', scp, key, new, "function")
  BY <1>1, <1>3, <1>5, <1>6, PushOpens DEF Shape, Types, Opens
<1> HIDE DEF new
<1>10. /\ op = <<>> => "function" # "block"
       /\ op # <<>> => op[Len(op)].type \notin {"function", "block"}
  BY <1>1, <1>8, MayBeginNests DEF InnerTypes
<1>11. ASSUME NEW k \in 1 .. Len(op) PROVE op[k].type # "function"
  <2>1. Len(op) \in Nat /\ Len(op) \in 1 .. Len(op) /\ op # <<>>
    BY <1>1, ShapeHas
  <2>2. CASE k = Len(op)
    BY <1>10, <2>1, <2>2
  <2>3. CASE k \in 1 .. Len(op) - 1
    BY <1>1, <1>10, <2>1, <2>3 DEF Shape, Mirror, Nested
  <2> QED
    BY <2>1, <2>2, <2>3
<1>12. Unhit(stack, op, scp, {key})
  BY <1>1, <1>2, <1>11, UnhitMethods
<1>13. PICK j \in 1 .. Len(stack) : ent[stack[j]].sub[class] = scp
  BY <1>1, <1>3, <1>4, <1>6, <1>11, FoundOnStack
<1> DEFINE S == Spine(stack, op) \cup {scp}
<1>14. stack[j] \in Spine(stack, op) /\ stack[j] \in S
  BY DEF Spine
<1>15. Spared(ent, scp, {key}, S)
  <2>1. Spared(ent, scp, {key}, Spine(stack, op))
    BY <1>1, <1>12, SpineSpared
  <2>2. \E o \in S, k \in Keys : ent[o].sub[k] = scp /\ ~ (o = scp /\ k \in {key})
    BY <1>3, <1>13, <1>14
  <2> QED
    BY <1>6, <2>1, <2>2 DEF Spared
<1>16. Grown(ent, ent', scp, {key}, {new})
  BY <1>9 DEF Opened
<1>17. scp \in Live(ent') /\ stack[j] \in Live(ent') /\ scp # new /\ stack[j] # new
  <2>1. S \subseteq Live(ent')
    <3> HIDE DEF S
    <3> QED
      BY <1>15, <1>16 DEF Grown
  <2>2. stack[j] \in Live(ent)
    BY <1>1, ShapeHas
  <2> QED
    BY <1>6, <1>7, <1>14, <2>1, <2>2
<1>18. ent'[scp].type \in {"class", "type"} /\ ent'[stack[j]].sub[class] = scp
  BY <1>3, <1>6, <1>13, <1>16, <1>17 DEF Grown
<1>19. /\ new \in Live(ent') /\ ent'[new].type = "function" /\ ent'[new].parent = scp
       /\ ent'[scp].sub[key] = new
  BY <1>9, <1>17 DEF Opened
<1>20. /\ c \in Constructs /\ c.type = "function" /\ c.scope = new /\ c.under = scp
       /\ c.at = Len(op) + 2
  <2>1. Len(stack) + 1 \in Nat /\ Len(stack) + 1 = Len(op) + 2
    BY <1>1, ShapeHas
  <2> QED
    BY <1>6, <1>7, <2>1 DEF Construct, Constructs, Types
<1>21. \A k \in 1 .. Len(stack) : stack[k] # new
  BY <1>1, <1>7 DEF Shape
<1> HIDE DEF c, S
<1>22. Shape(ent', stack', Append(op, c))
  BY <1>1, <1>3, <1>7, <1>8, <1>10, <1>12, <1>13, <1>16, <1>18, <1>19, <1>20, <1>21, MirrorPush
<1> QED
  BY <1>8, <1>20, <1>22

LEMMA MirrorAfter ==
  ASSUME NEW op, Shape(ent', stack', op), Standing(op, open', leftover')
  PROVE  MirrorBeforeErrors'
BY DEF Shape, MirrorBeforeErrors

(* The end of a construct, without an error. *)
LEMMA EndMirrors ==
  ASSUME MirrorInv, ~ errors, ~ errors', End PROVE MirrorBeforeErrors'
<1>1. /\ current = stack[Len(stack)] /\ open \in Seq(Constructs) /\ leftover \in Nat
  BY MirrorShape
<1>2. PICK op \in Seq(Constructs) : Shape(ent, stack, op) /\ Standing(op, open, leftover)
  BY MirrorShape
<1>3. /\ open # <<>> /\ ent' = ent /\ leftover' = leftover /\ open' = Front(open)
      /\ stack' = Front(stack) /\ ent[current].type = Last(open).type
  BY DEF End, symPopScope, popScope
<1>4. Len(op) \in Nat \ {0} /\ Len(stack) = Len(op) + 1
  <2>1. Len(open) \in Nat \ {0}
    BY <1>1, <1>3
  <2>2. Len(op) = Len(open) + leftover
    BY <1>2 DEF Standing
  <2> QED
    BY <1>1, <1>2, <2>1, <2>2, ShapeHas
<1>5. op[Len(op)].type = open[Len(open)].type
  <2>1. Kept(ent, stack, op, Len(op))
    BY <1>2, <1>4 DEF Shape, Mirror
  <2>2. ent[current].type = op[Len(op)].type
    BY <1>1, <1>4, <2>1 DEF Kept
  <2> QED
    BY <1>3, <2>2 DEF Last
<1>6. op # <<>>
  BY <1>4
<1>7. Shape(ent, SubSeq(stack, 1, Len(stack) - 1), SubSeq(op, 1, Len(op) - 1))
  BY <1>2, <1>6, MirrorPop
<1>8. Standing(SubSeq(op, 1, Len(op) - 1), SubSeq(open, 1, Len(open) - 1), leftover)
  BY <1>1, <1>2, <1>3, <1>5, StandingPop
<1>9. Shape(ent', stack', SubSeq(op, 1, Len(op) - 1))
  BY <1>3, <1>7 DEF Front
<1>10. Standing(SubSeq(op, 1, Len(op) - 1), open', leftover')
  BY <1>3, <1>8 DEF Front
<1> QED
  BY <1>9, <1>10, MirrorAfter

(* A construct begins, or an interface is left behind. *)
LEMMA BeginMirrors ==
  ASSUME MirrorInv, ~ errors, current \in Live(ent), Room,
         NEW type \in InnerTypes,
         MayBegin(type), NEW key \in Keys, type = "function" \/ key \notin Methods,
         Opened(ent, ent', current, key, Fresh({nextId}), type),
         stack' = Append(stack, Fresh({nextId})),
         \/ /\ open' = Append(open, Construct(type, Fresh({nextId}), current))
            /\ leftover' = leftover
         \/ type = "interface" /\ open' = open /\ leftover' = leftover + 1
  PROVE  MirrorBeforeErrors'
<1>0. PICK c : c = Construct(type, Fresh({nextId}), current)
  OBVIOUS
<1>1. open \in Seq(Constructs) /\ leftover \in Nat
  BY MirrorShape
<1>2. PICK op \in Seq(Constructs) : Shape(ent, stack, op) /\ Standing(op, open, leftover)
  BY MirrorShape
<1>3. \/ open' = Append(open, c) /\ leftover' = leftover
      \/ type = "interface" /\ open' = open /\ leftover' = leftover + 1
  BY <1>0
<1>4. /\ Shape(ent', stack', Append(op, c))
      /\ c \in Constructs /\ c.type = type /\ c.at = Len(op) + 2
  BY <1>0, <1>2, InnerKeeps
<1>5. CASE open' = Append(open, c) /\ leftover' = leftover
  <2>1. Standing(Append(op, c), Append(open, c), leftover)
    BY <1>1, <1>2, <1>4, StandingPush
  <2> QED
    BY <1>4, <1>5, <2>1, MirrorAfter
<1>6. CASE type = "interface" /\ open' = open /\ leftover' = leftover + 1
  <2>1. Standing(Append(op, c), open, leftover + 1)
    BY <1>1, <1>2, <1>4, <1>6, StandingLeave
  <2> QED
    BY <1>4, <1>6, <2>1, MirrorAfter
<1> QED
  BY <1>3, <1>5, <1>6

(* An entry filed, or imported, where no scope is pushed. *)
LEMMA FilingMirrors ==
  ASSUME MirrorInv, ~ errors, UNCHANGED <<stack, open, leftover>>,
         NEW K, NEW Added, Added \cap Live(ent) = {}, Grown(ent, ent', current, K, Added)
  PROVE  MirrorBeforeErrors'
<1>1. current = stack[Len(stack)]
  BY MirrorShape
<1>2. PICK op \in Seq(Constructs) : Shape(ent, stack, op) /\ Standing(op, open, leftover)
  BY MirrorShape
<1>3. Unhit(stack, op, current, K)
  BY <1>1, <1>2, UnhitTop
<1>4. \A k \in 1 .. Len(op) : Kept(ent', stack, op, k) /\ Placed(ent', stack, op, k)
  BY <1>2, <1>3, KeptGrown
<1>5. Shape(ent', stack, op)
  BY <1>2, <1>4 DEF Shape, Mirror, Grown
<1> QED
  BY <1>2, <1>5, MirrorAfter

LEMMA MirrorStep ==
  ASSUME MirrorInv, [ScopesNext]_scopeVars PROVE MirrorBeforeErrors'
<1> USE DEF MirrorBeforeErrors, pastVars
<1>1. CASE errors'
  BY <1>1
<1>2. CASE NewParser
  <2>1. HeapOK(ent) /\ stack[1] = 1
    BY DEF MirrorInv, KindInv, ScopesInv, OpenScopesOnStack
  <2>2. stack' = <<1>> /\ open' = <<>> /\ leftover' = 0
    BY <1>2, <2>1 DEF NewParser, netlist
  <2>3. Mirror(ent', <<1>>, <<>>) /\ Standing(<<>>, <<>>, 0) /\ <<>> \in Seq(Constructs)
    BY DEF Mirror, Nested, Standing
  <2> QED
    BY <2>2, <2>3
<1>3. CASE ~ errors /\ UNCHANGED <<ent, stack, open, leftover>>
  <2>1. PICK op \in Seq(Constructs) : Shape(ent, stack, op) /\ Standing(op, open, leftover)
    BY <1>3, MirrorShape
  <2>2. Shape(ent', stack', op) /\ Standing(op, open', leftover')
    BY <1>3, <2>1
  <2> QED
    BY <2>2, MirrorAfter
<1>4. CASE ~ errors /\ (\/ BeginPackage \/ BeginOther \/ BeginLabelled
                       \/ BeginAnon \/ BeginNew \/ BeginClass)
  <2>1. PICK type \in InnerTypes,
             key \in Keys :
          Opens(type, key, current) /\ (type = "function" \/ key \notin Methods)
    BY <1>4, InnerOpens
  <2>2. Opened(ent, ent', current, key, Fresh({nextId}), type)
    BY <2>1, PushOpens DEF Opens, Running, MirrorInv, KindInv, Types, InnerTypes
  <2>3. /\ current \in Live(ent) /\ Room /\ MayBegin(type)
        /\ stack' = Append(stack, Fresh({nextId}))
        /\ open' = Append(open, Construct(type, Fresh({nextId}), current))
        /\ leftover' = leftover
    BY <2>1 DEF Opens, Running, symPushNewUnder, pushScope
  <2> QED
    BY <1>4, <2>1, <2>2, <2>3, BeginMirrors
<1>5. CASE ~ errors /\ ExternInterface
  <2>1. PICK name \in OtherNames :
          /\ current \in Live(ent) /\ Room /\ MayBegin("interface")
          /\ symPushNewUnder("interface", name, current)
          /\ open' = open /\ leftover' = leftover + 1
    BY <1>5 DEF ExternInterface, Ready, Running
  <2>2. name \in Keys /\ name \notin Methods
    BY NamesAreKeys
  <2>3. Opened(ent, ent', current, name, Fresh({nextId}), "interface")
    BY <2>1, <2>2, PushOpens DEF MirrorInv, KindInv, Types
  <2>4. stack' = Append(stack, Fresh({nextId}))
    BY <2>1 DEF symPushNewUnder, pushScope
  <2> QED
    BY <1>5, <2>1, <2>2, <2>3, <2>4, BeginMirrors DEF InnerTypes
<1>6. CASE ~ errors /\ BeginSubclass
  <2>1. HeapOK(ent)
    BY DEF MirrorInv, KindInv
  <2>2. PICK name \in TypeNames :
          /\ current \in Live(ent) /\ Room /\ MayBegin("class")
          /\ Opened(ent, ent', current, name, Fresh({nextId}), "class")
          /\ stack' = Append(stack, Fresh({nextId}))
          /\ open' = Append(open, Construct("class", Fresh({nextId}), current))
          /\ leftover' = leftover
    BY <1>6, <2>1, SubclassOpens
  <2>3. name \in Keys /\ name \notin Methods
    BY NamesAreKeys
  <2> QED
    BY <1>6, <2>2, <2>3, BeginMirrors DEF InnerTypes
<1>7. CASE ~ errors /\ BeginOutOfBlock
  <2>1. PICK op \in Seq(Constructs) : Shape(ent, stack, op) /\ Standing(op, open, leftover)
    BY <1>7, MirrorShape
  <2>2. PICK c \in Constructs :
          /\ Shape(ent', stack', Append(op, c)) /\ open' = Append(open, c)
          /\ c.at = Len(op) + 2 /\ leftover' = leftover
    BY <1>7, <2>1, OutOfBlockKeeps
  <2>3. Standing(Append(op, c), Append(open, c), leftover)
    BY <1>7, <2>1, <2>2, MirrorShape, StandingPush
  <2> QED
    BY <2>2, <2>3, MirrorAfter
<1>8. CASE ~ errors /\ ~ errors' /\ End
  BY <1>8, EndMirrors
<1>9. CASE ~ errors /\ (Typedef \/ Prototype \/ PrototypeNew)
  <2>1. PICK type \in Types, key \in Keys : Declare(type, key)
    BY <1>9, Declares
  <2>2. PICK new \in Ids \ Live(ent) : Grown(ent, ent', current, {key}, {new})
    BY <2>1, DeclareGrows DEF MirrorInv, KindInv
  <2>3. UNCHANGED <<stack, open, leftover>> /\ {new} \cap Live(ent) = {}
    BY <2>1 DEF Declare
  <2> QED
    BY <1>9, <2>2, <2>3, FilingMirrors
<1>10. CASE ~ errors /\ ~ errors' /\ (ImportName \/ ImportAll)
  <2>1. ASSUME NEW pkg, NEW what, what = "*" \/ what \in Keys, Import(pkg, what)
        PROVE  MirrorBeforeErrors'
    <3> DEFINE entp == Visible(pkg)
    <3>1. /\ current \in Live(ent) /\ UNCHANGED <<stack, open, leftover>>
          /\ \/ ent' = ImportStar(ent, current, entp)
             \/ what \in Keys /\ ent' = ImportOne(ent, current, entp, what)
      BY <1>10, <2>1 DEF Import, Ready, Running
    <3> HIDE DEF entp
    <3>2. HeapOK(ent)
      BY DEF MirrorInv, KindInv
    <3>3. Grown(ent, ent', current, Keys, {}) /\ {} \cap Live(ent) = {}
      BY <3>1, <3>2, ImportOneSound, ImportStarSound
    <3> QED
      BY <1>10, <3>1, <3>3, FilingMirrors
  <2>2. CASE ImportName
    BY <2>1, <2>2, NamesAreKeys DEF ImportName
  <2>3. CASE ImportAll
    BY <2>1, <2>3 DEF ImportAll
  <2> QED
    BY <1>10, <2>2, <2>3
<1>11. CASE ~ errors /\ (Use \/ ScopedUse)
  BY <1>3, <1>11 DEF Use, ScopedUse
<1>12. CASE ScopedKeyword \/ SyntaxError
  BY <1>1, <1>12 DEF ScopedKeyword, SyntaxError
<1>13. CASE ~ errors /\ ~ errors' /\ NextText
  BY <1>3, <1>13 DEF NextText
<1>14. CASE ~ errors /\ UNCHANGED scopeVars
  BY <1>3, <1>14 DEF scopeVars
<1>15. CASE errors /\ ~ NewParser
  <2>1. errors'
    <3>1. CASE \/ BeginPackage \/ BeginOther \/ BeginLabelled
               \/ BeginAnon \/ BeginNew \/ BeginClass
      BY <1>15, <3>1, InnerOpens
    <3>2. CASE BeginSubclass \/ BeginOutOfBlock \/ ExternInterface
      BY <1>15, <3>2 DEF BeginSubclass, BeginOutOfBlock, ExternInterface
    <3>3. CASE End
      BY <1>15, <3>3 DEF End, symPopScope
    <3>4. CASE Typedef \/ Prototype \/ PrototypeNew
      BY <1>15, <3>4, Declares DEF Declare
    <3>5. CASE ImportName \/ ImportAll
      BY <1>15, <3>5 DEF ImportName, ImportAll, Import
    <3>6. CASE Use \/ ScopedUse \/ ScopedKeyword
      BY <1>15, <3>6 DEF Use, ScopedUse, ScopedKeyword
    <3>7. CASE SyntaxError \/ NextText \/ UNCHANGED scopeVars
      BY <1>15, <3>7 DEF SyntaxError, NextText, scopeVars
    <3> QED
      BY <1>15, <3>1, <3>2, <3>3, <3>4, <3>5, <3>6, <3>7 DEF ScopesNext
  <2> QED
    BY <1>1, <2>1
<1> HIDE DEF MirrorBeforeErrors, pastVars
<1> QED
  BY <1>1, <1>2, <1>4, <1>5, <1>6, <1>7, <1>8, <1>9, <1>10, <1>11, <1>12, <1>13, <1>14,
     <1>15 DEF ScopesNext

LEMMA MirrorInitial == ScopesInit => MirrorInv
<1> SUFFICES ASSUME ScopesInit PROVE MirrorInv
  OBVIOUS
<1>1. KindInv /\ ScopesInv
  BY KindInitial, ScopesInitial
<1>2. Mirror(ent, <<1>>, <<>>) /\ Standing(<<>>, <<>>, 0) /\ <<>> \in Seq(Constructs)
  BY DEF Mirror, Nested, Standing
<1>3. MirrorBeforeErrors /\ ForcedByError
  BY <1>2 DEF ScopesInit, MirrorBeforeErrors, ForcedByError
<1> QED
  BY <1>1, <1>3 DEF MirrorInv

(* Before the first error the scopes are those of the open constructs and  *)
(* the interfaces left behind, and each is live and filed in its live      *)
(* parent; and objofUpward's assertion is not reached.                     *)
LEMMA MirrorHolds == ScopesSpec => []MirrorInv
<1>1. MirrorInv /\ [ScopesNext]_scopeVars => MirrorInv'
  BY KindStep, ScopesStep, ForcedStep, MirrorStep DEF MirrorInv
<1> QED
  BY MirrorInitial, <1>1, PTL DEF ScopesSpec

(* Before the first error the stack holds the scopes of the constructs     *)
(* that are open in the source, in order, each under the scope around it   *)
(* or the class that the source names, and besides them only what          *)
(* `extern interface` left, which symPopScope never takes off.             *)
THEOREM ScopesAreSources == ScopesSpec => []ScopesMirrorSource
<1>1. MirrorInv => ScopesMirrorSource
  <2> SUFFICES ASSUME MirrorInv, ~ errors
               PROVE  /\ nextId = Null
                      /\ Len(stack) = Len(open) + 1 + leftover
                      /\ \A k \in 1 .. Len(open) :
                           /\ ent[open[k].scope].type = open[k].type
                           /\ parentp(ent, open[k].scope) = open[k].under
                      /\ \A m \in 2 .. Len(stack) :
                           (\A k \in 1 .. Len(open) : open[k].at # m)
                             => ent[stack[m]].type = "interface"
    BY DEF ScopesMirrorSource
  <2>1. nextId = Null /\ open \in Seq(Constructs) /\ leftover \in Nat
    BY MirrorShape
  <2>2. PICK op \in Seq(Constructs) : Shape(ent, stack, op) /\ Standing(op, open, leftover)
    BY MirrorShape
  <2>3. /\ Len(op) \in Nat /\ Len(open) \in Nat /\ Len(stack) = Len(op) + 1
        /\ Len(op) = Len(open) + leftover
    BY <2>1, <2>2, ShapeHas DEF Standing
  <2>4. ASSUME NEW k \in 1 .. Len(op) PROVE Kept(ent, stack, op, k)
    BY <2>2 DEF Shape, Mirror
  <2>5. ASSUME NEW k \in 1 .. Len(open)
        PROVE  /\ ent[open[k].scope].type = open[k].type
               /\ parentp(ent, open[k].scope) = open[k].under
    <3> DEFINE m == open[k].at - 1
    <3>1. m \in 1 .. Len(op) /\ op[m] = open[k]
      BY <2>2 DEF Standing
    <3> HIDE DEF m
    <3>2. Kept(ent, stack, op, m)
      BY <2>4, <3>1
    <3> QED
      BY <3>1, <3>2 DEF Kept, parentp
  <2>6. ASSUME NEW m \in 2 .. Len(stack), \A k \in 1 .. Len(open) : open[k].at # m
        PROVE  ent[stack[m]].type = "interface"
    <3>1. m - 1 \in 1 .. Len(op) /\ (m - 1) + 1 = m
      BY <2>3
    <3>2. op[m - 1].type = "interface"
      BY <2>2, <2>6, <3>1 DEF Standing
    <3>3. Kept(ent, stack, op, m - 1)
      BY <2>4, <3>1
    <3> QED
      BY <3>1, <3>2, <3>3 DEF Kept
  <2> QED
    BY <2>1, <2>3, <2>5, <2>6
<1> QED
  BY MirrorHolds, <1>1, PTL

(* No scope on the stack is freed before the first error, and each stays   *)
(* filed in the table of its parent, redeclare and import what one will.   *)
THEOREM ScopesAlive == ScopesSpec => []ScopesStayAlive
<1>1. MirrorInv => ScopesStayAlive
  <2> SUFFICES ASSUME MirrorInv, ~ errors, NEW k \in 2 .. Len(stack)
               PROVE  /\ stack[k] \in Live(ent)
                      /\ parentp(ent, stack[k]) \in Live(ent)
                      /\ \E key \in Keys : findSym(ent, parentp(ent, stack[k]), key) = stack[k]
    BY DEF ScopesStayAlive
  <2>1. PICK op \in Seq(Constructs) : Shape(ent, stack, op)
    BY MirrorShape
  <2>2. k - 1 \in 1 .. Len(op) /\ (k - 1) + 1 = k
    BY <2>1, ShapeHas
  <2>3. Kept(ent, stack, op, k - 1) /\ op[k - 1].under \in Live(ent)
    BY <2>1, <2>2, ShapeHas DEF Shape, Mirror
  <2>4. stack[k] \in Live(ent) /\ parentp(ent, stack[k]) = op[k - 1].under
    BY <2>2, <2>3 DEF Kept, parentp
  <2>5. \E key \in Keys : ent[op[k - 1].under].sub[key] = stack[k]
    BY <2>2, <2>3 DEF Kept
  <2> QED
    BY <2>3, <2>4, <2>5 DEF findSym
<1> QED
  BY MirrorHolds, <1>1, PTL

(* The assertion at the end of objofUpward is not reached before an error. *)
THEOREM ObjectsFound == ScopesSpec => []ObjofFound
<1>1. MirrorInv => ObjofFound
  BY MirrorShape, ObjofOnStack DEF ObjofFound
<1> QED
  BY MirrorHolds, <1>1, PTL
=============================================================================
