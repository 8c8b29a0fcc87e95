------------------------------ MODULE SymTable ------------------------------
(***************************************************************************)
(* The parser's symbols (Parser/VAst.h, VAst.cpp) and its stack of scopes  *)
(* (VSymTable.h).  An entry is a Perl array [type, parent, {name => entry}] *)
(* that lives as long as some table refers to it: the reference to the     *)
(* parent is weak, and neither the stack nor the lexer counts as a         *)
(* reference.  `ent` is the heap of entries; an operator here returns the  *)
(* heap that a method leaves.  (findInsert is used by the self test only.) *)
(***************************************************************************)
EXTENDS Naturals, Sequences, FiniteSets, SequencesExt, FiniteSetsExt

CONSTANTS
  Ids,     \* places for entries
  Keys,    \* names under which an entry can be filed
  Null     \* no entry

ASSUME SymAssumption ==
  Null \notin Ids /\ 1 \in Ids /\ Ids \subseteq Nat /\ IsFiniteSet(Ids)

(* VAstType, those of it that the lexer or the scopes tell apart. *)
Types == {"netlist", "package", "class", "module", "interface", "function", "block",
          "type"}
MutTypeIgnoreObjof(t) == t \in {"block", "netlist"}
typeIgnoreObjof(t) == t = "block"

VARIABLES
  ent,      \* the entries
  stack,    \* m_sympStack, top last
  current   \* m_currentSymp

symVars == <<ent, stack, current>>

Gone     == [type |-> "freed"]
NoKeys   == [k \in Keys |-> Null]
Live(e)  == {i \in DOMAIN e : e[i] # Gone}
netlist  == stack[1]
Entry(type, parent) == [type |-> type, parent |-> parent, sub |-> NoKeys]

(* subhash() finds no table in a freed entry. *)
findSym(e, i, key) == IF i \in Live(e) THEN e[i].sub[key] ELSE Null
parentp(e, i)      == IF i \in Live(e) THEN e[i].parent ELSE Null
-----------------------------------------------------------------------------
(* Perl's reference counts: entries that have no reference left go, and    *)
(* with them those that only they refer to; entries that refer to each     *)
(* other stay.  Weak references to what went become undefined.             *)
Owners(e, i) == {o \in Live(e) : \E k \in Keys : e[o].sub[k] = i}

ClosedUnderFree(e, dropped, F) ==
  \A i \in Live(e) \ F :
    i \in dropped \/ Owners(e, i) \cap F # {} => ~ (Owners(e, i) \subseteq F)
Freed(e, dropped) ==
  {i \in Live(e) : \A F \in SUBSET Live(e) :
                     i \in F \/ ~ ClosedUnderFree(e, dropped, F)}

(* Mutant: a weak reference keeps something that is no entry. *)
MutRelease(e, dropped) ==
  LET F == Freed(e, dropped)
  IN  [i \in DOMAIN e |->
         IF i \in F \/ i \notin Live(e) THEN Gone
         ELSE [e[i] EXCEPT !.parent = IF @ \in F THEN 0 ELSE @]]
Release(e, dropped) ==
  LET F == Freed(e, dropped)
  IN  [i \in DOMAIN e |->
         IF i \in F \/ i \notin Live(e) THEN Gone
         ELSE [e[i] EXCEPT !.parent = IF @ \in F THEN Null ELSE @]]

(* VAstEnt::replaceInsert: the old entry of that name, if any, loses a     *)
(* reference.  The entry is one already filed elsewhere, or a new one.     *)
File(e, i, key, new) ==
  LET filed == [e EXCEPT ![i].sub[key] = new]
  IN  IF e[i].sub[key] \in {Null, new} THEN filed
      ELSE Release(filed, {e[i].sub[key]})

replaceInsert(e, i, type, key, new) ==
  File([e EXCEPT ![new] = Entry(type, i)], i, key, new)

(* VAstEnt::import.  A name the package lacks is not imported, in silence. *)
(* For "*" every entry of the package is filed under the name it has there.*)
ImportOne(e, i, pkg, key) ==
  IF findSym(e, pkg, key) = Null THEN e ELSE File(e, i, key, findSym(e, pkg, key))
ImportStar(e, i, pkg) ==
  LET took  == {k \in Keys : findSym(e, pkg, k) # Null}
      filed == [e EXCEPT ![i].sub = [k \in Keys |-> IF k \in took THEN e[pkg].sub[k]
                                                    ELSE @[k]]]
      dropped == {e[i].sub[k] : k \in took} \ {Null}
  IN  Release(filed, dropped)
-----------------------------------------------------------------------------
(* The entry i, its parent, and so on; Null once there is none.  No chain  *)
(* of parents is longer than there are entries.                            *)
Up(e, i) ==
  LET up[n \in 0 .. Cardinality(Ids)] == IF n = 0 THEN i ELSE parentp(e, up[n - 1])
  IN  up

(* VSymStack::findEntUpward: the nearest table from i up that has the name. *)
FindIn(e, tables, key) ==
  LET having == {n \in DOMAIN tables : findSym(e, tables[n], key) # Null}
  IN  IF having = {} THEN Null ELSE findSym(e, tables[Min(having)], key)
findEntUpward(e, i, key) == FindIn(e, Up(e, i), key)

(* VSymStack::objofUpward; it asserts that there is one. *)
objofUpward ==
  LET up    == Up(ent, current)
      known == {n \in DOMAIN up : up[n] # Null /\ ~ typeIgnoreObjof(ent[up[n]].type)}
  IN  IF known = {} THEN Null ELSE up[Min(known)]

(* pushScope; popScope, which leaves m_currentSymp when it empties the     *)
(* stack.  Mutant: it leaves it always.                                    *)
pushScope(i) == stack' = Append(stack, i) /\ current' = i
MutPopScope ==
  /\ stack' = Front(stack)
  /\ current' = IF Len(stack) = 1 THEN current ELSE stack[Len(stack)]
popScope ==
  /\ stack' = Front(stack)
  /\ current' = IF Len(stack) = 1 THEN current ELSE stack[Len(stack) - 1]

(* A place for a new entry: one that nothing refers to any more. *)
InUse == Live(ent) \cup ToSet(stack) \cup {current}
         \cup {ent[i].parent : i \in Live(ent)}
Fresh(more) == CHOOSE i \in Ids \ (InUse \cup more) : TRUE
HasFresh(more) == Ids \ (InUse \cup more) # {}
=============================================================================
