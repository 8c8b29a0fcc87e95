----------------------------- MODULE ParseScopes -----------------------------
(***************************************************************************)
(* How the parser uses its symbols: VParse.h, VParse.cpp, lexToken of      *)
(* VParseLex.l, and the actions of VParseBison.y that open and close       *)
(* scopes, declare and import names.                                       *)
(* A step is a statement, or the beginning or the end of a construct: its  *)
(* identifiers are lexed, which resolves each at once, then its actions    *)
(* run; the grammar lets nothing come between.  The exceptions are the     *)
(* optional label of an end keyword and of begin and fork: to see that     *)
(* there is none, bison lexes the next token, before it runs the action    *)
(* that closes or opens the scope.  `held` is that token.                  *)
(***************************************************************************)
EXTENDS SymTable

CONSTANTS
  PackageNames, TypeNames, OtherNames,  \* names by what is declared with them
  Anon,        \* the name of the first anonymous scope of a parser
  Qualified,   \* the name of a method declared outside its class: "c::f"
  New,         \* "new", the name of every constructor
  Keyword,     \* "begin" or "fork", under which a block with a label is filed
  MaxDepth     \* bound: scopes on the stack

Names == PackageNames \cup TypeNames \cup OtherNames

ASSUME ParseAssumption ==
  /\ Names \cup {Anon, Qualified, New, Keyword} = Keys
  /\ {Anon, Qualified, New, Keyword} \cap Names = {}
  /\ {Qualified, New} \cap {Anon, Keyword} = {}
  /\ Null \notin Keys /\ MaxDepth \in Nat \ {0}

VARIABLES
  nextId,    \* m_symTableNextId
  anonNum,   \* m_anonNum
  held,      \* the token bison holds while it closes or opens a scope
  open,      \* history: the constructs bison has open, where their scope is
  leftover,  \* history: how many scopes `extern interface` has left behind
  errors,    \* an error was reported
  internal,  \* history: before any, an import took another package than its token's
  reused     \* history: a scope that no identifier names took another's place

tokenVars == <<nextId, held>>
pastVars  == <<errors, internal, reused>>
scopeVars == <<ent, stack, current, nextId, anonNum, held, open, leftover, errors,
               internal, reused>>

Construct(type, scope, under) ==
  [type |-> type, scope |-> scope, under |-> under, at |-> Len(stack) + 1]
NoToken == [name |-> Null, scp |-> Null]

(* Every operator on names below acts on the heap and scope of now. *)
Visible(name) == findEntUpward(ent, current, name)

(* lexToken, for an identifier: a forced table is looked at, and no other, *)
(* and is forgotten.  A token read ahead is resolved when it is delivered. *)
(* Mutants: the stack is searched, not the parents; the forced table is    *)
(* remembered until something is found there.                              *)
MutResolve(name) == IF nextId # Null THEN findSym(ent, nextId, name)
                    ELSE FindIn(ent, Reverse(stack), name)
Resolve(name) == IF nextId # Null THEN findSym(ent, nextId, name) ELSE Visible(name)
Token(name)   == [name |-> name, scp |-> Resolve(name)]
MutConsume(token) == nextId' = IF token.scp = Null THEN nextId ELSE Null
Consume(token) == nextId' = Null

(* The token type that the parser sees. *)
TokenType(scp) ==
  IF scp \notin Live(ent) THEN "etc"
  ELSE CASE ent[scp].type = "package"           -> "package"
         [] ent[scp].type \in {"class", "type"} -> "type"
         [] OTHER                               -> "etc"

(* Bison looks at the next token, which the lexer resolves in the scope of *)
(* now: it may be a keyword, a label or another identifier that matters no *)
(* more, or a package or a type, which is held.                            *)
LooksAhead ==
  \/ held' = NoToken /\ nextId' \in {nextId, Null}
  \/ \E name \in PackageNames \cup TypeNames :
       /\ TokenType(Token(name).scp) # "etc"
       /\ held' = Token(name) /\ nextId' = Null

(* The first identifier of a statement, held or lexed now. *)
FirstTokens(names) ==
  IF held = NoToken THEN {Token(name) : name \in names}
  ELSE {held} \cap [name : names, scp : Ids \cup {Null}]

(* Between statements; subhash() of a freed scope fails an assertion, and  *)
(* the program is over.                                                    *)
Running == current \in Live(ent)
Ready == held = NoToken /\ Running
Room  == Len(stack) <= MaxDepth /\ HasFresh({nextId})

(* What the grammar lets a construct stand in. *)
Items  == {"top", "package", "module", "interface", "class"}
Around == [package   |-> {"top"},
           module    |-> {"top", "module"},
           interface |-> {"top", "module", "interface"},
           class     |-> Items,
           function  |-> Items,
           block     |-> {"module", "interface", "function", "block"}]
MayBegin(type) ==
  (IF open = <<>> THEN "top" ELSE Last(open).type) \in Around[type]
-----------------------------------------------------------------------------
(* symPushNewUnder, symPushNew, symPushNewAnon.                            *)
(* Mutant: filed beside the current scope.                                 *)
MutSymPushNewUnder(type, key, under) ==
  LET beside == IF Len(stack) > 1 THEN stack[Len(stack) - 1] ELSE under
  IN  /\ ent' = replaceInsert(ent, beside, type, key, Fresh({nextId}))
      /\ pushScope(Fresh({nextId}))
symPushNewUnder(type, key, under) ==
  /\ ent' = replaceInsert(ent, under, type, key, Fresh({nextId}))
  /\ pushScope(Fresh({nextId}))

(* The front of a construct that stays open until its end. *)
Opens(type, key, under) ==
  /\ Running /\ Room /\ MayBegin(type)
  /\ symPushNewUnder(type, key, under)
  /\ open' = Append(open, Construct(type, Fresh({nextId}), under))
  /\ UNCHANGED leftover

(* symPopScope.  Mutant: blocks stay. *)
MutSymPopScope(type) ==
  IF ent[current].type # type
  THEN errors' = TRUE /\ UNCHANGED <<stack, current>>
  ELSE (IF type = "block" THEN UNCHANGED <<stack, current>> ELSE popScope) /\ UNCHANGED errors
symPopScope(type) ==
  IF ent[current].type # type
  THEN errors' = TRUE /\ UNCHANGED <<stack, current>>
  ELSE popScope /\ UNCHANGED errors

(* package, module, interface, function name.  A function name must not be *)
(* a type, or it is taken for the type of its result.                      *)
MayName(type, name) == type = "function" => TokenType(Token(name).scp) = "etc"
Begin(type, name, key) ==
  /\ held = NoToken /\ MayName(type, name)
  /\ Opens(type, key, current)
  /\ Consume(Token(name))
  /\ UNCHANGED <<anonNum, held, pastVars>>
BeginPackage == \E name \in PackageNames : Begin("package", name, name)
BeginOther == \E type \in {"module", "interface", "function"}, name \in OtherNames :
                 Begin(type, name, name)

(* begin : name, fork : name *)
BeginLabelled == \E name \in OtherNames : Begin("block", name, Keyword)

(* begin, fork, struct, ... without a name *)
BeginAnon ==
  /\ held = NoToken /\ anonNum = 0
  /\ anonNum' = anonNum + 1
  /\ reused' = (reused \/ findSym(ent, current, Anon) # Null)
  /\ Opens("block", Anon, current)
  /\ LooksAhead
  /\ UNCHANGED <<errors, internal>>

(* function new: no identifier is lexed. *)
BeginNew ==
  /\ held = NoToken
  /\ reused' = (reused \/ findSym(ent, current, New) # Null)
  /\ Opens("function", New, current)
  /\ UNCHANGED <<anonNum, tokenVars, errors, internal>>

(* class name [extends base]: the scope is pushed before the base is read, *)
(* and everything filed under the base is filed in the class too.          *)
BeginClass == \E name \in TypeNames : Begin("class", name, name)
BeginSubclass ==
  \E name, base \in TypeNames :
    LET new   == Fresh({nextId})
        heap  == replaceInsert(ent, current, "class", name, new)
        scp   == findEntUpward(heap, new, base)
    IN  /\ Ready /\ Room /\ MayBegin("class")
        /\ scp # Null /\ heap[scp].type \in {"class", "type"}
        /\ ent' = ImportStar(heap, new, scp)
        /\ pushScope(new)
        /\ open' = Append(open, Construct("class", new, current))
        /\ nextId' = Null
        /\ UNCHANGED <<anonNum, held, leftover, pastVars>>

(* function class::name, function class::new: a body outside its class,    *)
(* filed under the class.                                                  *)
BeginOutOfBlock ==
  \E class \in TypeNames, key \in {Qualified, New} :
    LET scp == Token(class).scp
    IN  /\ held = NoToken /\ TokenType(scp) = "type"
        /\ key = Qualified =>
             \E name \in OtherNames : TokenType(findSym(ent, scp, name)) = "etc"
        /\ Opens("function", key, scp)
        /\ nextId' = Null
        /\ UNCHANGED <<anonNum, held, pastVars>>

(* end...: a label, or the next token, is lexed before the scope is left.  *)
End ==
  /\ Ready /\ open # <<>>
  /\ symPopScope(Last(open).type)
  /\ open' = Front(open)
  /\ LooksAhead
  /\ UNCHANGED <<ent, anonNum, leftover, internal, reused>>

(* extern interface name ...; : its scope is pushed, and stays. *)
ExternInterface ==
  \E name \in OtherNames :
    /\ Ready /\ Room /\ MayBegin("interface")
    /\ symPushNewUnder("interface", name, current)
    /\ leftover' = leftover + 1
    /\ Consume(Token(name))
    /\ UNCHANGED <<anonNum, held, open, pastVars>>
-----------------------------------------------------------------------------
(* A new entry without contents, in the current scope. *)
Declare(type, key) ==
  /\ Ready /\ HasFresh({nextId})
  /\ ent' = replaceInsert(ent, current, type, key, Fresh({nextId}))
  /\ UNCHANGED <<stack, current, anonNum, held, open, leftover, errors, internal>>

(* typedef ... name; typedef class name; *)
Typedef ==
  \E type \in {"type", "class"}, name \in TypeNames :
    Declare(type, name) /\ nextId' = Null /\ UNCHANGED reused

(* extern module name ...; extern function name; extern function new; and  *)
(* other prototypes, whose scope is pushed and popped.                     *)
Prototype ==
  \E type \in {"module", "function"}, name \in OtherNames :
    /\ MayBegin(type) /\ MayName(type, name)
    /\ Declare(type, name) /\ Consume(Token(name)) /\ UNCHANGED reused
PrototypeNew ==
  /\ MayBegin("function")
  /\ Declare("function", New)
  /\ reused' = (reused \/ findSym(ent, current, New) # Null)
  /\ UNCHANGED nextId

(* import package::name; import package::*;  The package is looked for     *)
(* again by name.                                                          *)
Import(pkg, what) ==
  LET entp == Visible(pkg)
  IN  /\ Ready
      /\ TokenType(Token(pkg).scp) = "package"
      /\ nextId' = Null
      /\ internal' = (internal \/ (~ errors /\ entp # Token(pkg).scp))
      /\ IF entp = Null
         THEN errors' = TRUE /\ UNCHANGED ent
         ELSE /\ ent' = IF what = "*" THEN ImportStar(ent, current, entp)
                        ELSE ImportOne(ent, current, entp, what)
              /\ UNCHANGED errors
      /\ UNCHANGED <<stack, current, anonNum, held, open, leftover, reused>>
ImportName == \E pkg \in PackageNames, name \in Names : Import(pkg, name)
ImportAll  == \E pkg \in PackageNames : Import(pkg, "*")

(* A statement that begins with an identifier: a declaration if it is a    *)
(* type, else an instance.                                                 *)
Use ==
  /\ Running
  /\ \E token \in FirstTokens(TypeNames) : Consume(token)
  /\ held' = NoToken
  /\ UNCHANGED <<ent, stack, current, anonNum, open, leftover, pastVars>>

(* scope::name, and scope::keyword, a keyword misused as an identifier:    *)
(* an error, and the forced table stays.                                   *)
ScopedUse ==
  /\ Running
  /\ \E token \in FirstTokens(PackageNames \cup TypeNames) :
       TokenType(token.scp) # "etc"
  /\ nextId' = Null /\ held' = NoToken
  /\ UNCHANGED <<ent, stack, current, anonNum, open, leftover, pastVars>>
ScopedKeyword ==
  \E token \in FirstTokens(PackageNames \cup TypeNames) :
    /\ Running /\ TokenType(token.scp) # "etc"
    /\ nextId' = token.scp /\ held' = NoToken /\ errors' = TRUE
    /\ UNCHANGED <<ent, stack, current, anonNum, open, leftover, internal, reused>>

(* A syntax error: bison unwinds to a rule that takes errors, and forgets  *)
(* the constructs above it; the scopes stay.                               *)
SyntaxError ==
  \E left \in 0 .. Len(open) :
    /\ open' = SubSeq(open, 1, left)
    /\ errors' = TRUE /\ held' = NoToken
    /\ UNCHANGED <<ent, stack, current, nextId, anonNum, leftover, internal, reused>>

(* The end of a text, and the next one, by the same parser or a new one    *)
(* with the same symbol table.                                             *)
NextText ==
  /\ held = NoToken
  /\ open' = <<>> /\ errors' = (errors \/ open # <<>>)
  /\ UNCHANGED <<ent, stack, current, tokenVars, anonNum, leftover, internal, reused>>
NewParser ==
  /\ held = NoToken
  /\ stack' = <<netlist>> /\ current' = netlist
  /\ nextId' = Null /\ anonNum' = 0 /\ open' = <<>> /\ leftover' = 0
  /\ errors' = FALSE /\ reused' = FALSE
  /\ UNCHANGED <<ent, held, internal>>
-----------------------------------------------------------------------------
ScopesInit ==
  /\ ent = [i \in Ids |-> IF i = 1 THEN Entry("netlist", Null) ELSE Gone]
  /\ stack = <<1>> /\ current = 1
  /\ nextId = Null /\ anonNum = 0 /\ held = NoToken /\ open = <<>>
  /\ leftover = 0 /\ errors = FALSE /\ internal = FALSE /\ reused = FALSE

ScopesNext ==
  \/ BeginPackage \/ BeginOther \/ BeginLabelled \/ BeginAnon \/ BeginNew
  \/ BeginClass \/ BeginSubclass \/ BeginOutOfBlock
  \/ End \/ ExternInterface
  \/ Typedef \/ Prototype \/ PrototypeNew \/ ImportName \/ ImportAll
  \/ Use \/ ScopedUse \/ ScopedKeyword \/ SyntaxError \/ NextText \/ NewParser

ScopesSpec == ScopesInit /\ [][ScopesNext]_scopeVars
-----------------------------------------------------------------------------
(* Types. *)
ParseTypeOK ==
  /\ \A i \in Live(ent) :
       ent[i] \in [type : Types, parent : Ids \cup {Null}, sub : [Keys -> Ids \cup {Null}]]
  /\ stack \in Seq(Ids) /\ current \in Ids /\ nextId \in Ids \cup {Null}
  /\ held \in [name : Keys \cup {Null}, scp : Ids \cup {Null}]
  /\ anonNum \in Nat /\ leftover \in Nat /\ {errors, internal, reused} \subseteq BOOLEAN

(* The bottom of the stack is the netlist and is never popped ("symbol     *)
(* stack underflow" cannot be reported), m_currentSymp is the top, and the *)
(* scope of every construct that bison has open is on the stack where it   *)
(* was pushed, whatever errors have left there besides.                    *)
OpenScopesOnStack ==
  /\ stack # <<>> /\ stack[1] = 1 /\ current = stack[Len(stack)]
  /\ \A k \in 1 .. Len(open) :
       /\ open[k].at \in 2 .. Len(stack) /\ stack[open[k].at] = open[k].scope
       /\ \A j \in 1 .. k - 1 : open[j].at < open[k].at

(* The stack holds no reference, yet no scope on it is freed before the    *)
(* first error: each is still filed in its parent, and that is live.       *)
ScopesStayAlive ==
  ~ errors =>
    \A k \in 2 .. Len(stack) :
      /\ stack[k] \in Live(ent)
      /\ parentp(ent, stack[k]) \in Live(ent)
      /\ \E key \in Keys : findSym(ent, parentp(ent, stack[k]), key) = stack[k]

(* Even after errors, the table that the lexer has been told to look at,   *)
(* and the entry of the token that bison holds, are live, though nothing   *)
(* refers to either: what could free them is a scope or a name filed in    *)
(* their place, and that begins with an identifier, which uses them up.    *)
(* The exceptions are the scopes that no identifier names: a constructor's *)
(* that replaces another in the same table, and an anonymous one that      *)
(* replaces an earlier parser's.                                           *)
TokenTablesLive == ~ reused => {nextId, held.scp} \subseteq Live(ent) \cup {Null}

(* Without a reported error the open constructs have their scopes, type by *)
(* type, each filed under the one around it or under the class that the    *)
(* source names; the stack has no others but interfaces, one for every     *)
(* `extern interface`; and no forced lookup outlives its statement.        *)
ScopesMirrorSource ==
  ~ errors =>
    /\ nextId = Null
    /\ Len(stack) = Len(open) + 1 + leftover
    /\ \A k \in 1 .. Len(open) :
         /\ ent[open[k].scope].type = open[k].type
         /\ parentp(ent, open[k].scope) = open[k].under
    /\ \A m \in 2 .. Len(stack) :
         (\A k \in 1 .. Len(open) : open[k].at # m) => ent[stack[m]].type = "interface"

(* The assertion at the end of objofUpward is not reached before an error  *)
(* is reported: whatever a block stands in is an object, and is live.      *)
ObjofFound == ~ errors => objofUpward # Null

(* "Internal problem, because we earlier found pkg to label it an ID": an  *)
(* import looks its package up from the scope upwards, the lexer may have  *)
(* looked in a forced table.  Before the first error both find the same.   *)
NoInternalError == ~ internal
=============================================================================
