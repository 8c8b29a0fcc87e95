-------------------------- MODULE StateTokenProofs --------------------------
(***************************************************************************)
(* TLAPS proofs about StateToken, for every set of names, every option and *)
(* every depth.  Whatever handler a token reaches, all that it can do to   *)
(* the conditional stack is a step of IfdefStack, and all that it does to  *)
(* the outside it does when m_off is zero (Disciplined): the invariant of  *)
(* IfdefStack then says what m_off being zero means.  The stacks that are  *)
(* not about conditionals come after that.                                 *)
(***************************************************************************)
EXTENDS StateToken, IfdefStackProofs

Outside == {"text", "define", "undef"}

(* What every handler keeps to. *)
Disciplined ==
  /\ [IfNext]_ifVars
  /\ effect' \in Outside => off = 0 /\ UNCHANGED chains
  /\ defs' # defs => off = 0
  /\ status' = "eof" => errs' \/ ifdefStack' = <<>>

(* The handlers that leave conditionals alone keep to it when they return  *)
(* something only if m_off is zero.                                        *)
LEMMA QuietDisciplined ==
  ASSUME UNCHANGED <<ifVars, defs>>, effect' \in Outside => off = 0,
         status' # "eof"
  PROVE  Disciplined
BY DEF Disciplined, ifVars

LEMMA CommonDisciplined ==
  ASSUME NEW r, status = "run", Common(r)
  PROVE  Disciplined
<1>1. UNCHANGED <<ifVars, defs>>
  BY DEF Common, White, Comment, Line, JoinLeft, macroVars
<1>2. effect' \in Outside => off = 0
  BY DEF Common, White, Comment, Line, JoinLeft, Fine, Emitted, Outside
<1>3. status' # "eof"
  BY DEF Common, White, Comment, Line, JoinLeft, Fine
<1> QED BY <1>1, <1>2, <1>3, QuietDisciplined

(* The directives' names: `ifdef, `ifndef and `elsif move the stack, `undef *)
(* and `define change the table, in each case as m_off was before.          *)
LEMMA InDefineDisciplined ==
  ASSUME NEW r, status = "run", InDefine(r)
  PROVE  Disciplined
<1>1. CASE IfName(r)
  <2>1. PICK c \in BOOLEAN : OpenIf(c)
    BY <1>1 DEF IfName, Exists
  <2>2. IfNext /\ effect' = "none" /\ defs' = defs /\ status' = "run"
    BY <1>1, <2>1 DEF IfName, Fine, IfNext
  <2> QED BY <2>2 DEF Disciplined, Outside
<1>2. CASE ElsifName(r)
  <2>1. [IfNext]_ifVars
    BY <1>2 DEF ElsifName, Exists, IfNext
  <2>2. effect' = "none" /\ defs' = defs /\ status' # "eof"
    BY <1>2 DEF ElsifName, Fine, Complains
  <2> QED BY <2>1, <2>2 DEF Disciplined, Outside
<1>3. CASE UndefName(r)
  <2>1. UNCHANGED ifVars /\ status' = "run"
    BY <1>3 DEF UndefName, Fine
  <2>2. off # 0 => effect' = "none" /\ defs' = defs
    BY <1>3 DEF UndefName, Fine, Emitted
  <2> QED BY <2>1, <2>2 DEF Disciplined, Outside, ifVars
<1>4. CASE Value(r)
  <2>1. UNCHANGED ifVars /\ status' = "run"
    BY <1>4 DEF Value, Fine
  <2>2. off # 0 => effect' = "white" /\ defs' = defs
    BY <1>4 DEF Value, Fine
  <2> QED BY <2>1, <2>2 DEF Disciplined, Outside, ifVars
<1>5. CASE DefineName(r) \/ NameText(r) \/ NameError(r) \/ Formals(r) \/ BadValue(r)
  <2>1. UNCHANGED <<ifVars, defs>>
    BY <1>5 DEF DefineName, NameText, NameError, Formals, BadValue, macroVars
  <2>2. effect' \in Outside => off = 0
    BY <1>5 DEF DefineName, NameText, NameError, Formals, BadValue, Fine,
      Complains, FatalSrc, Emitted, Outside
  <2>3. status' # "eof"
    BY <1>5 DEF DefineName, NameText, NameError, Formals, BadValue, Fine,
      Complains, FatalSrc
  <2> QED BY <2>1, <2>2, <2>3, QuietDisciplined
<1> QED BY <1>1, <1>2, <1>3, <1>4, <1>5 DEF InDefine

(* Arguments are gathered without a word to the outside. *)
LEMMA InArgsDisciplined ==
  ASSUME NEW r, status = "run", InArgs(r)
  PROVE  Disciplined
<1>1. UNCHANGED <<ifVars, defs>>
  BY DEF InArgs, ParenOpen, ParenMissing, ArgWithoutRef, ArgComma, ArgClose,
    ArgText, macroVars
<1>2. effect' = "none" /\ status' # "eof"
  BY DEF InArgs, ParenOpen, ParenMissing, ArgWithoutRef, ArgComma, ArgClose,
    ArgText, Fine, Complains, FatalSrc
<1> QED BY <1>1, <1>2, QuietDisciplined DEF Outside

LEMMA InNameDisciplined ==
  ASSUME NEW r, status = "run", InName(r)
  PROVE  Disciplined
<1>1. UNCHANGED <<ifVars, defs>>
  BY DEF InName, IncString, IncAngle, IncError, ErrorName, JoinRight,
    JoinError, StrifyEnd, StrifyEof, StrifyText, macroVars
<1>2. effect' \in {"none", "include"} /\ status' # "eof"
  BY DEF InName, IncString, IncAngle, IncError, ErrorName, JoinRight,
    JoinError, StrifyEnd, StrifyEof, StrifyText, Fine, Complains, FatalSrc
<1> QED BY <1>1, <1>2, QuietDisciplined DEF Outside

(* The top level: `else, `endif, `undefineall and the end of the file are  *)
(* the cases that matter.                                                  *)
LEMMA TopLevelDisciplined ==
  ASSUME NEW r, status = "run", TopLevel(r)
  PROVE  Disciplined
<1>1. CASE ElseOrEndif(r)
  <2>1. [IfNext]_ifVars
    BY <1>1 DEF ElseOrEndif, IfNext
  <2>2. effect' = "none" /\ defs' = defs /\ status' # "eof"
    BY <1>1 DEF ElseOrEndif, Fine, Complains, macroVars
  <2> QED BY <2>1, <2>2 DEF Disciplined, Outside
<1>2. CASE UndefineAll(r)
  <2>1. UNCHANGED ifVars /\ status' = "run"
    BY <1>2 DEF UndefineAll, Fine
  <2>2. off # 0 => effect' = "none" /\ defs' = defs
    BY <1>2 DEF UndefineAll, Fine, Emitted
  <2> QED BY <2>1, <2>2 DEF Disciplined, Outside, ifVars
<1>3. CASE Eof(r)
  <2>1. UNCHANGED <<ifVars, defs>> /\ effect' \in {"none", "eof"}
    BY <1>3 DEF Eof, macroVars
  <2>2. ifdefStack # <<>> => errs' = TRUE
    BY <1>3 DEF Eof
  <2> QED BY <2>1, <2>2 DEF Disciplined, Outside, ifVars
<1>4. CASE Include(r) \/ Directive(r) \/ TopText(r) \/ Unexpected(r)
           \/ RefTooDeep(r) \/ RefUndefined(r) \/ RefSimple(r) \/ RefParams(r)
  <2>1. UNCHANGED <<ifVars, defs>>
    BY <1>4 DEF Include, Directive, TopText, Unexpected, RefTooDeep,
      RefUndefined, RefSimple, RefParams, macroVars
  <2>2. effect' \in Outside => off = 0
    BY <1>4 DEF Include, Directive, TopText, Unexpected, RefTooDeep,
      RefUndefined, RefSimple, RefParams, Fine, Complains, FatalSrc, Emitted,
      Outside
  <2>3. status' # "eof"
    BY <1>4 DEF Include, Directive, TopText, Unexpected, RefTooDeep,
      RefUndefined, RefSimple, RefParams, Fine, Complains, FatalSrc
  <2> QED BY <2>1, <2>2, <2>3, QuietDisciplined
<1> QED BY <1>1, <1>2, <1>3, <1>4 DEF TopLevel

LEMMA NextDisciplined == Next => Disciplined
<1> SUFFICES ASSUME Next PROVE Disciplined
  OBVIOUS
<1>1. status = "run"
  BY DEF Next
<1>2. CASE LexError
  <2>1. UNCHANGED <<ifVars, defs>> /\ effect' = "none" /\ status' # "eof"
    BY <1>1, <1>2 DEF LexError, Complains, macroVars
  <2> QED BY <2>1, QuietDisciplined DEF Outside
<1>3. CASE AtEof
  BY <1>3 DEF AtEof, Disciplined, Outside, ifVars, macroVars
<1>4. ASSUME NEW r \in RawTokens,
             Common(r) \/ InDefine(r) \/ InArgs(r) \/ InName(r) \/ TopLevel(r)
      PROVE  Disciplined
  BY <1>1, <1>4, CommonDisciplined, InDefineDisciplined, InArgsDisciplined,
    InNameDisciplined, TopLevelDisciplined
<1> QED BY <1>2, <1>3, <1>4 DEF Next
-----------------------------------------------------------------------------
Inv == IfInv /\ EffectsOnlyWherePassing /\ EndsClosedOrReported

LEMMA InitInv == Init => Inv
<1> SUFFICES ASSUME Init PROVE Inv
  OBVIOUS
<1>1. IfInv
  BY IfInit_IfInv DEF Init
<1>2. effect = "none" /\ status = "run"
  BY DEF Init
<1> QED BY <1>1, <1>2 DEF Inv, EffectsOnlyWherePassing, EndsClosedOrReported

LEMMA InvStep == Inv /\ [Next]_vars => Inv'
<1> SUFFICES ASSUME Inv, [Next]_vars PROVE Inv'
  OBVIOUS
<1>1. CASE Next
  <2>1. Disciplined
    BY <1>1, NextDisciplined
  <2>2. IfInv'
    BY <2>1, IfInv_Step DEF Inv, Disciplined
  <2>3. EffectsOnlyWherePassing'
    <3> SUFFICES ASSUME effect' \in Outside PROVE Abs!AllTaken(chains')
      BY DEF EffectsOnlyWherePassing, Outside, Abs!AllTaken, Abs!Taken
    <3>1. off = 0 /\ chains' = chains
      BY <2>1 DEF Disciplined
    <3>2. Good(off, ifdefStack, chains)
      BY InvIsGood DEF Inv
    <3> QED BY <3>1, <3>2, ZeroMeansTaken
  <2>4. EndsClosedOrReported'
    BY <2>1 DEF Disciplined, EndsClosedOrReported
  <2> QED BY <2>2, <2>3, <2>4 DEF Inv
<1>2. CASE UNCHANGED vars
  <2>1. UNCHANGED <<ifVars, chains, ifdefStack, effect, status, errs>>
    BY <1>2 DEF vars, ifVars
  <2>2. IfInv'
    BY <2>1, IfInv_Step DEF Inv
  <2> QED BY <2>1, <2>2 DEF Inv, EffectsOnlyWherePassing,
            EndsClosedOrReported, Abs!AllTaken, Abs!Taken
<1> QED BY <1>1, <1>2

LEMMA Invariance == Spec => []Inv
<1> QED BY InitInv, InvStep, PTL DEF Spec

(* Whatever tokens come, in whatever states, with or without errors, m_off *)
(* is the number of disabled levels.                                       *)
THEOREM CounterKept == Spec => []OffCountsLevels
<1>1. Inv => OffCountsLevels
  BY DEF Inv, IfInv
<1> QED BY <1>1, Invariance, PTL

(* Text leaves getStateToken, and `define and `undef take effect, only     *)
(* where every enclosing chain is in its first true branch.                *)
THEOREM NothingFromDisabledText == Spec => []EffectsOnlyWherePassing
<1>1. Inv => EffectsOnlyWherePassing
  BY DEF Inv
<1> QED BY <1>1, Invariance, PTL

(* No end of file is returned with a conditional open and nothing said.    *)
THEOREM OpenIfdefReported == Spec => []EndsClosedOrReported
<1>1. Inv => EndsClosedOrReported
  BY DEF Inv
<1> QED BY <1>1, Invariance, PTL

(* No step taken under a disabled conditional changes the table of macros. *)
THEOREM TableKeptWhereDisabled == Spec => DefsKeptWhereOff
<1>1. Inv /\ [Next]_vars => [~ Abs!AllTaken(chains) => defs' = defs]_vars
  <2> SUFFICES ASSUME Inv, Next, defs' # defs PROVE Abs!AllTaken(chains)
    BY DEF vars
  <2>1. off = 0
    BY NextDisciplined DEF Disciplined
  <2>2. Good(off, ifdefStack, chains)
    BY InvIsGood DEF Inv
  <2> QED BY <2>1, <2>2, ZeroMeansTaken
<1> QED BY <1>1, Invariance, PTL DEF Spec, DefsKeptWhereOff
-----------------------------------------------------------------------------
(* The stacks: the parser's states, the lexer's start states, the pending  *)
(* references and joins.  They are kept in step by hand, in two files;     *)
(* before an error is reported only the state on top can have a start      *)
(* state of its own (Shape), so a token that the lexer returns in it is    *)
(* one that the state knows.                                               *)
ArgStates  == {"DEFPAREN", "DEFARG"}
ModeStates == ArgStates \cup {"DEFFORM", "DEFVALUE"}
Pushes     == {"none", "SYMBOL", "DEFREF", "STRING"}

(* The bottom of a stack stays. *)
GoodStack(s, S, bottom) == s \in Seq(S) /\ s # <<>> /\ s[1] = bottom

Typed ==
  /\ GoodStack(states, ProcState, "TOP") /\ GoodStack(lexs, LexState, "INITIAL")
  /\ defs \in [Names -> Params] /\ lastSym \in Names \cup {NoName}
  /\ defRefs \in Seq(Int) /\ joins \in Seq({"SYMBOL", "DEFREF"})
  /\ pushed \in Pushes
  /\ defDepth \in Nat /\ parenLevel \in Int
  /\ defPutJoin \in BOOLEAN /\ lineCmt \in BOOLEAN /\ errs \in BOOLEAN
  /\ status \in {"run", "croaked", "fatal", "eof"} /\ effect \in Effects

(* The start states of the lexer in each state of the parser. *)
Bare    == <<"INITIAL">>
Over(m) == <<"INITIAL", m>>
LexsFor(c) ==
  CASE c \in ArgStates  -> {Over("ARGMODE")}
    [] c = "DEFFORM"  -> {Over("DEFFPAR"), Over("DEFFORM")}
    [] c = "DEFVALUE" -> {Over("DEFVAL")}
    [] c = "INCNAME"  -> {Bare, Over("INCMODE")}
    [] OTHER          -> {Bare}
Refs(c) == IF c \in ArgStates THEN 1 ELSE 0
Joins(c) == IF c = "JOIN" THEN 1 ELSE 0

Shape ==
  /\ \A i \in 1 .. Len(states) - 1 : states[i] \notin ModeStates
  /\ lexs \in LexsFor(cur)
  /\ Len(defRefs) = Refs(cur)
  /\ Len(joins) = CountIn(states, {"JOIN"})

StackInv == Typed /\ (~ errs => Shape) /\ FatalOnlyAfterError

-----------------------------------------------------------------------------
(* Stacks. *)
LEMMA PushKeeps ==
  ASSUME NEW S, NEW b, NEW s, GoodStack(s, S, b), NEW x \in S
  PROVE  /\ GoodStack(Append(s, x), S, b)
         /\ Len(Append(s, x)) = Len(s) + 1 /\ Last(Append(s, x)) = x
         /\ Append(s, x)[Len(s) + 1] = x
         /\ \A i \in 1 .. Len(s) : Append(s, x)[i] = s[i]
<1>1. s \in Seq(S) /\ s # <<>> /\ s[1] = b /\ Len(s) \in Nat \ {0}
  BY DEF GoodStack
<1>2. /\ Append(s, x) \in Seq(S) /\ Len(Append(s, x)) = Len(s) + 1
      /\ Append(s, x)[Len(s) + 1] = x
      /\ \A i \in 1 .. Len(s) : Append(s, x)[i] = s[i]
  BY <1>1
<1>3. Append(s, x) # <<>> /\ Append(s, x)[1] = b
  BY <1>1, <1>2
<1>4. Last(Append(s, x)) = x
  BY <1>2 DEF Last
<1> QED
  BY <1>2, <1>3, <1>4 DEF GoodStack

LEMMA TopOf ==
  ASSUME NEW S, NEW b, NEW s, GoodStack(s, S, b)
  PROVE  /\ s \in Seq(S) /\ Len(s) \in Nat \ {0} /\ Last(s) \in S
         /\ Last(s) = s[Len(s)] /\ (Last(s) # b => Len(s) > 1)
<1>1. s \in Seq(S) /\ s # <<>> /\ s[1] = b
  BY DEF GoodStack
<1>2. Len(s) \in Nat \ {0} /\ Last(s) \in S /\ Last(s) = s[Len(s)]
  BY <1>1, FrontLast
<1> QED
  BY <1>1, <1>2

LEMMA PopKeeps ==
  ASSUME NEW S, NEW b, NEW s, GoodStack(s, S, b), Last(s) # b
  PROVE  /\ GoodStack(Front(s), S, b) /\ Len(Front(s)) = Len(s) - 1
         /\ \A i \in 1 .. Len(s) - 1 : Front(s)[i] = s[i]
         /\ Last(Front(s)) = s[Len(s) - 1] /\ Len(s) - 1 \in 1 .. Len(s) - 1
<1>1. s \in Seq(S) /\ s # <<>> /\ s[1] = b /\ Len(s) \in Nat /\ Len(s) > 1
  BY TopOf DEF GoodStack
<1>2. /\ Front(s) \in Seq(S) /\ Len(Front(s)) = Len(s) - 1
      /\ \A i \in 1 .. Len(s) - 1 : Front(s)[i] = s[i]
  BY <1>1, FrontLast
<1>3. Front(s) # <<>> /\ 1 \in 1 .. Len(s) - 1 /\ Len(s) - 1 \in 1 .. Len(s) - 1
  BY <1>1, <1>2
<1> DEFINE f == Front(s)
<1>4. f \in Seq(S) /\ f # <<>> /\ Len(f) = Len(s) - 1 /\ f[1] = b /\ f[Len(s) - 1] = s[Len(s) - 1]
  BY <1>1, <1>2, <1>3
<1> HIDE DEF f
<1>5. Last(f) = s[Len(s) - 1] /\ GoodStack(f, S, b)
  BY <1>4 DEF GoodStack, Last
<1> QED
  BY <1>2, <1>3, <1>5 DEF f

LEMMA ChangeKeeps ==
  ASSUME NEW S, NEW b, NEW s, GoodStack(s, S, b), Last(s) # b, NEW x \in S
  PROVE  /\ GoodStack(Append(Front(s), x), S, b)
         /\ Len(Append(Front(s), x)) = Len(s) /\ Last(Append(Front(s), x)) = x
         /\ Append(Front(s), x)[Len(s)] = x
         /\ \A i \in 1 .. Len(s) - 1 : Append(Front(s), x)[i] = s[i]
<1>1. GoodStack(Front(s), S, b)
  BY PopKeeps
<1>2. Len(Front(s)) = Len(s) - 1
  BY PopKeeps
<1>3. \A i \in 1 .. Len(s) - 1 : Front(s)[i] = s[i]
  <2>1. s \in Seq(S) /\ s # <<>>
    BY DEF GoodStack
  <2> QED
    BY <2>1, FrontLast
<1>4. Len(s) \in Nat
  BY TopOf
<1> DEFINE f == Front(s)
<1>5. /\ GoodStack(f, S, b) /\ Len(f) = Len(s) - 1
      /\ \A i \in 1 .. Len(s) - 1 : f[i] = s[i]
  BY <1>1, <1>2, <1>3
<1> HIDE DEF f
<1>6. /\ GoodStack(Append(f, x), S, b)
      /\ Len(Append(f, x)) = Len(f) + 1 /\ Last(Append(f, x)) = x
      /\ Append(f, x)[Len(f) + 1] = x
      /\ \A i \in 1 .. Len(f) : Append(f, x)[i] = f[i]
  BY <1>5, PushKeeps
<1>7. Len(f) + 1 = Len(s)
  BY <1>4, <1>5
<1> QED
  BY <1>5, <1>6, <1>7 DEF f

LEMMA Pairs ==
  ASSUME NEW m \in LexState
  PROVE  /\ Append(Bare, m) = Over(m)
         /\ Front(Over(m)) = Bare /\ Last(Over(m)) = m /\ Last(Bare) = "INITIAL"
         /\ Len(Bare) = 1 /\ Len(Over(m)) = 2
<1>1. Len(Over(m)) = 2 /\ Over(m)[1] = "INITIAL" /\ Over(m)[2] = m
  BY DEF Over
<1>2. Last(Over(m)) = m /\ Last(Bare) = "INITIAL" /\ Len(Bare) = 1
  BY <1>1 DEF Last, Bare
<1>3. /\ Over(m) \in Seq(LexState) /\ Bare \in Seq(LexState)
      /\ Bare[1] = "INITIAL" /\ Bare # <<>>
  BY DEF Over, Bare, LexState
<1> HIDE DEF Over, Bare
<1>4. Front(Over(m)) = Bare
  <2> DEFINE f == Front(Over(m))
  <2>1. /\ f \in Seq(LexState) /\ Len(f) = Len(Bare)
        /\ \A i \in 1 .. Len(Bare) : f[i] = Bare[i]
    <3>1. Over(m) # <<>>
      BY <1>1
    <3>2. /\ f \in Seq(LexState) /\ Len(f) = Len(Over(m)) - 1
          /\ \A i \in 1 .. Len(Over(m)) - 1 : f[i] = Over(m)[i]
      BY <1>3, <3>1, FrontLast
    <3> QED
      BY <1>1, <1>2, <1>3, <3>2
  <2> HIDE DEF f
  <2>2. f = Bare
    BY <1>3, <2>1
  <2> QED
    BY <2>2 DEF f
<1>5. Append(Bare, m) = Over(m)
  <2> DEFINE a == Append(Bare, m)
  <2>0. GoodStack(Bare, LexState, "INITIAL")
    BY <1>3 DEF GoodStack
  <2>1. a \in Seq(LexState) /\ Len(a) = 2 /\ a[1] = "INITIAL" /\ a[2] = m
    <3>1. GoodStack(a, LexState, "INITIAL")
      BY <2>0, PushKeeps
    <3>2. Len(a) = Len(Bare) + 1 /\ a[Len(Bare) + 1] = m
      BY <2>0, PushKeeps
    <3> HIDE DEF a
    <3>3. Len(Bare) + 1 = 2
      BY <1>2
    <3> QED
      BY <3>1, <3>2, <3>3 DEF GoodStack
  <2> HIDE DEF a
  <2>2. Len(a) = Len(Over(m)) /\ \A i \in 1 .. Len(a) : a[i] = Over(m)[i]
    BY <1>1, <2>1
  <2>3. a = Over(m)
    BY <1>3, <2>1, <2>2
  <2> QED
    BY <2>3 DEF a
<1> QED
  BY <1>1, <1>2, <1>4, <1>5

-----------------------------------------------------------------------------
(* Raw tokens. *)
Named == {"SYMBOL", "DEFREF", "DEFREF_JOIN"}

RawGood(r) ==
  /\ GoodStack(r.lexs, LexState, "INITIAL")
  /\ r.paren \in Int /\ r.cmt \in BOOLEAN /\ r.pushed \in Pushes
  /\ r.tok \in Named => r.name \in Names

(* A token that the lexer returns either leaves its start state, changes   *)
(* it, or keeps it.                                                        *)
Tokened(r, toks, lexss) ==
  /\ r.tok \in toks /\ r.lexs \in lexss /\ r.paren \in Int
  /\ r.cmt = FALSE /\ r.pushed = "none"
  /\ r.tok \in Named => r.name \in Names

LEMMA RawTokened ==
  ASSUME NEW r, NEW t, NEW n, NEW l, NEW p \in Int, r = Raw(t, n, l, p),
         t \in Named => n \in Names,
         NEW toks, NEW lexss, t \in toks, l \in lexss
  PROVE  Tokened(r, toks, lexss)
<1>1. /\ r.tok = t /\ r.name = n /\ r.lexs = l /\ r.paren = p
      /\ r.cmt = FALSE /\ r.pushed = "none"
  BY DEF Raw
<1> QED
  BY <1>1 DEF Tokened

Starting == PushingDirectives \cup TextTokens \cup Named \cup
  {"ELSE", "ENDIF", "INCLUDE", "UNDEFINEALL", "LINE", "STRIFY", "BACKQUOTE",
   "COMMENT", "WHITE", "SYMBOL_JOIN", "EOF", "STRING"}

LEMMA InitialTyped ==
  ASSUME Typed, NEW r \in InitialTokens
  PROVE  Tokened(r, Starting, {lexs})
<1> DEFINE Unnamed == PushingDirectives \cup TextTokens \cup
     {"ELSE", "ENDIF", "INCLUDE", "UNDEFINEALL", "LINE", "STRIFY", "BACKQUOTE",
      "COMMENT", "WHITE", "SYMBOL_JOIN", "EOF"}
<1>1. Unnamed \subseteq Starting /\ Named \subseteq Starting /\ "STRING" \in Starting
      /\ Unnamed \cap Named = {} /\ "STRING" \notin Named
  BY DEF Starting, Named, PushingDirectives, TextTokens
<1>2. \/ \E t \in Unnamed : r = Plain(t)
      \/ \E t \in Named, n \in Names : r = Raw(t, n, lexs, parenLevel)
      \/ r = Plain("STRING")
  BY DEF InitialTokens, Named
<1> HIDE DEF Unnamed
<1>3. parenLevel \in Int
  BY DEF Typed
<1>4. ASSUME NEW t \in Unnamed, r = Plain(t)
      PROVE  Tokened(r, Starting, {lexs})
  <2>1. r = Raw(t, NoName, lexs, parenLevel) /\ t \notin Named /\ t \in Starting
    BY <1>1, <1>4 DEF Plain
  <2> QED
    BY <1>3, <2>1, RawTokened
<1>5. ASSUME NEW t \in Named, NEW n \in Names, r = Raw(t, n, lexs, parenLevel)
      PROVE  Tokened(r, Starting, {lexs})
  <2>1. t \in Starting
    BY <1>1
  <2> QED
    BY <1>3, <1>5, <2>1, RawTokened
<1>6. CASE r = Plain("STRING")
  <2>1. r = Raw("STRING", NoName, lexs, parenLevel)
    BY <1>6 DEF Plain
  <2> QED
    BY <1>1, <1>3, <2>1, RawTokened
<1> QED
  BY <1>2, <1>4, <1>5, <1>6

LEMMA ArgTyped ==
  ASSUME Typed, NEW r \in ArgTokens
  PROVE  \/ Tokened(r, {"COMMENT", "WHITE", "STRIFY", "STRING", "OPEN"}, {lexs})
         \/ Tokened(r, {"CLOSE", "COMMA"}, {Front(lexs)})
<1> DEFINE Swallow == {"COMMENT", "WHITE", "STRIFY", "STRING", "OPEN"}
<1>1. \A p \in ParenLevels : p \in Int
  BY StateTokenAssumption DEF ParenLevels
<1>2. \/ \E t \in Swallow, p \in Int : r = Raw(t, NoName, lexs, p)
      \/ \E t \in {"CLOSE", "COMMA"}, p \in Int : r = Raw(t, NoName, Front(lexs), p)
  BY <1>1 DEF ArgTokens
<1>3. ASSUME NEW t \in Swallow, NEW p \in Int, r = Raw(t, NoName, lexs, p)
      PROVE  Tokened(r, Swallow, {lexs})
  <2>1. t \notin Named
    BY DEF Named
  <2> QED
    BY <1>3, <2>1, RawTokened
<1>4. ASSUME NEW t \in {"CLOSE", "COMMA"}, NEW p \in Int, r = Raw(t, NoName, Front(lexs), p)
      PROVE  Tokened(r, {"CLOSE", "COMMA"}, {Front(lexs)})
  <2>1. t \notin Named
    BY DEF Named
  <2> QED
    BY <1>4, <2>1, RawTokened
<1> QED
  BY <1>2, <1>3, <1>4

LEMMA DefineTyped ==
  ASSUME Typed, mode \in {"DEFFPAR", "DEFFORM", "DEFVAL"}, NEW r \in DefineTokens
  PROVE  \/ Tokened(r, {IF mode = "DEFVAL" THEN "DEFVALUE" ELSE "DEFFORM"}, {Front(lexs)})
         \/ mode = "DEFFPAR" /\ Tokened(r, {"COMMENT"}, {Rebegun("DEFFORM")})
         \/ mode # "DEFFPAR" /\ Tokened(r, {"COMMENT", "WHITE"}, {lexs})
<1>1. parenLevel \in Int
  BY DEF Typed
<1>2. \A t \in {"COMMENT", "WHITE", "DEFVALUE", "DEFFORM"} : t \notin Named
  BY DEF Named
<1>3. CASE mode = "DEFFPAR"
  <2>1. \/ r = Raw("DEFFORM", NoName, Front(lexs), parenLevel)
        \/ r = Raw("COMMENT", NoName, Rebegun("DEFFORM"), parenLevel)
    BY <1>3 DEF DefineTokens
  <2> QED
    BY <1>1, <1>2, <1>3, <2>1, RawTokened
<1>4. CASE mode = "DEFFORM"
  <2>1. \/ r = Raw("DEFFORM", NoName, Front(lexs), parenLevel)
        \/ r = Raw("COMMENT", NoName, lexs, parenLevel)
        \/ r = Raw("WHITE", NoName, lexs, parenLevel)
    BY <1>4 DEF DefineTokens, Plain
  <2> QED
    BY <1>1, <1>2, <1>4, <2>1, RawTokened
<1>5. CASE mode = "DEFVAL"
  <2>1. \/ r = Raw("DEFVALUE", NoName, Front(lexs), parenLevel)
        \/ r = Raw("COMMENT", NoName, lexs, parenLevel)
        \/ r = Raw("WHITE", NoName, lexs, parenLevel)
    BY <1>5 DEF DefineTokens, Plain
  <2> QED
    BY <1>1, <1>2, <1>5, <2>1, RawTokened
<1> QED
  BY <1>3, <1>4, <1>5

(* A comment's blank, `line or text is returned in any state but DEFVALUE; *)
(* all else comes from the lexer, in its start state.                      *)
LEMMA RawCases ==
  ASSUME Typed, NEW r \in RawTokens
  PROVE  \/ /\ r.tok \in {"TEXT", "WHITE"} /\ cur # "DEFVALUE"
            /\ r.lexs = lexs /\ r.paren \in Int /\ r.cmt \in BOOLEAN
            /\ r.pushed = pushed
         \/ mode = "INITIAL" /\ Tokened(r, Starting, {lexs})
         \/ mode = "ARGMODE" /\
              \/ Tokened(r, {"COMMENT", "WHITE", "STRIFY", "STRING", "OPEN"}, {lexs})
              \/ Tokened(r, {"CLOSE", "COMMA"}, {Front(lexs)})
         \/ mode = "INCMODE" /\ Tokened(r, {"STRING"}, {Front(lexs)})
         \/ mode \in {"DEFFPAR", "DEFFORM"} /\
              \/ Tokened(r, {"DEFFORM"}, {Front(lexs)})
              \/ mode = "DEFFPAR" /\ Tokened(r, {"COMMENT"}, {Rebegun("DEFFORM")})
              \/ mode = "DEFFORM" /\ Tokened(r, {"COMMENT", "WHITE"}, {lexs})
         \/ mode = "DEFVAL" /\
              \/ Tokened(r, {"DEFVALUE"}, {Front(lexs)})
              \/ Tokened(r, {"COMMENT", "WHITE"}, {lexs})
         \/ errs /\ Tokened(r, {"EOF"}, {lexs})
<1>1. parenLevel \in Int /\ mode \in LexState
  BY TopOf DEF Typed, mode
<1>2. CASE OwesLineCmt
  <2>1. cur # "DEFVALUE"
    BY <1>2 DEF OwesLineCmt
  <2>2. \/ r = [Plain("TEXT") EXCEPT !.pushed = pushed]
        \/ r = [Plain("WHITE") EXCEPT !.cmt = TRUE, !.pushed = pushed]
    BY <1>2 DEF RawTokens
  <2>3. CASE r = [Plain("TEXT") EXCEPT !.pushed = pushed]
    <3>1. /\ r.tok = "TEXT" /\ r.lexs = lexs /\ r.paren = parenLevel
          /\ r.cmt = FALSE /\ r.pushed = pushed
      BY <2>3 DEF Plain, Raw
    <3> QED
      BY <1>1, <2>1, <3>1
  <2>4. CASE r = [Plain("WHITE") EXCEPT !.cmt = TRUE, !.pushed = pushed]
    <3>1. /\ r.tok = "WHITE" /\ r.lexs = lexs /\ r.paren = parenLevel
          /\ r.cmt = TRUE /\ r.pushed = pushed
      BY <2>4 DEF Plain, Raw
    <3> QED
      BY <1>1, <2>1, <3>1
  <2> QED
    BY <2>2, <2>3, <2>4
<1>3. CASE r \in Lexed
  <2>1. CASE mode = "INITIAL"
    BY <1>3, <2>1, InitialTyped DEF Lexed
  <2>2. CASE mode = "ARGMODE"
    BY <1>3, <2>2, ArgTyped DEF Lexed
  <2>3. CASE mode = "INCMODE"
    <3>1. r = Raw("STRING", NoName, Front(lexs), parenLevel)
      BY <1>3, <2>3 DEF Lexed
    <3>2. "STRING" \notin Named
      BY DEF Named
    <3>3. Tokened(r, {"STRING"}, {Front(lexs)})
      BY <1>1, <3>1, <3>2, RawTokened
    <3> QED
      BY <2>3, <3>3
  <2>4. CASE mode \in {"DEFFPAR", "DEFFORM", "DEFVAL"}
    <3>1. r \in DefineTokens
      BY <1>3, <2>4 DEF Lexed
    <3>2. \/ Tokened(r, {IF mode = "DEFVAL" THEN "DEFVALUE" ELSE "DEFFORM"}, {Front(lexs)})
          \/ mode = "DEFFPAR" /\ Tokened(r, {"COMMENT"}, {Rebegun("DEFFORM")})
          \/ mode # "DEFFPAR" /\ Tokened(r, {"COMMENT", "WHITE"}, {lexs})
      BY <2>4, <3>1, DefineTyped
    <3> QED
      BY <2>4, <3>2
  <2> QED
    BY <1>1, <2>1, <2>2, <2>3, <2>4 DEF LexState
<1>4. CASE errs /\ r = Plain("EOF")
  <2>1. r = Raw("EOF", NoName, lexs, parenLevel) /\ "EOF" \notin Named
    BY <1>4 DEF Plain, Named
  <2>2. Tokened(r, {"EOF"}, {lexs})
    BY <1>1, <2>1, RawTokened
  <2> QED
    BY <1>4, <2>2
<1>5. OwesLineCmt \/ r \in Lexed \/ (errs /\ r = Plain("EOF"))
  BY DEF RawTokens
<1> QED
  BY <1>2, <1>3, <1>4, <1>5

LEMMA RawTyped ==
  ASSUME Typed, NEW r \in RawTokens
  PROVE  RawGood(r)
<1> DEFINE Fits(l) == GoodStack(l, LexState, "INITIAL")
<1>1. Fits(lexs) /\ pushed \in Pushes /\ "none" \in Pushes
  BY DEF Typed, Pushes
<1>2. mode # "INITIAL" => Fits(Front(lexs)) /\ Fits(Rebegun("DEFFORM"))
  <2>1. "DEFFORM" \in LexState
    BY DEF LexState
  <2> QED
    BY <1>1, <2>1, PopKeeps, ChangeKeeps DEF mode, Rebegun
<1> HIDE DEF Fits
<1>3. ASSUME NEW toks, NEW lexss, Tokened(r, toks, lexss), \A l \in lexss : Fits(l)
      PROVE  RawGood(r)
  BY <1>1, <1>3 DEF Tokened, RawGood, Fits
<1>4. CASE /\ r.tok \in {"TEXT", "WHITE"}
           /\ r.lexs = lexs /\ r.paren \in Int /\ r.cmt \in BOOLEAN
           /\ r.pushed = pushed
  BY <1>1, <1>4 DEF RawGood, Fits, Named
<1> QED
  BY <1>1, <1>2, <1>3, <1>4, RawCases

-----------------------------------------------------------------------------
(* Types, in every state and with or without errors: what a handler does   *)
(* to the stacks, to the lexer, to the tables and to the outside.          *)
StatesMove ==
  \/ states' = states
  \/ cur # "TOP" /\ states' = Front(states)
  \/ cur # "TOP" /\ \E s \in ProcState : states' = Append(Front(states), s)
  \/ \E s \in ProcState : states' = Append(states, s)
LexTyped(r) ==
  /\ lexs' = r.lexs \/ \E m \in LexState : lexs' = Append(r.lexs, m)
  /\ parenLevel' \in Int /\ lineCmt' \in BOOLEAN /\ defPutJoin' \in BOOLEAN
  /\ pushed' \in Pushes
Outcome ==
  /\ errs' \in BOOLEAN /\ effect' \in Effects
  /\ status' \in {"run", "croaked", "fatal", "eof"}
Tables ==
  /\ defs' \in [Names -> Params] /\ lastSym' \in Names \cup {NoName}
  /\ defRefs' \in Seq(Int) /\ joins' \in Seq({"SYMBOL", "DEFREF"})
  /\ defDepth' \in Nat
Handled(r) == StatesMove /\ LexTyped(r) /\ Outcome /\ Tables

LEMMA HandledTyped ==
  ASSUME Typed, NEW r, RawGood(r), Handled(r)
  PROVE  Typed'
<1>1. GoodStack(states', ProcState, "TOP")
  <2>1. GoodStack(states, ProcState, "TOP")
    BY DEF Typed
  <2>2. CASE cur # "TOP" /\ states' = Front(states)
    BY <2>1, <2>2, PopKeeps DEF cur
  <2>3. ASSUME cur # "TOP", NEW s \in ProcState, states' = Append(Front(states), s)
        PROVE  GoodStack(states', ProcState, "TOP")
    BY <2>1, <2>3, ChangeKeeps DEF cur
  <2>4. ASSUME NEW s \in ProcState, states' = Append(states, s)
        PROVE  GoodStack(states', ProcState, "TOP")
    BY <2>1, <2>4, PushKeeps
  <2> QED
    BY <2>1, <2>2, <2>3, <2>4 DEF Handled, StatesMove
<1>2. GoodStack(lexs', LexState, "INITIAL")
  <2>1. GoodStack(r.lexs, LexState, "INITIAL")
    BY DEF RawGood
  <2>2. ASSUME NEW m \in LexState, lexs' = Append(r.lexs, m)
        PROVE  GoodStack(lexs', LexState, "INITIAL")
    BY <2>1, <2>2, PushKeeps
  <2>3. lexs' = r.lexs \/ \E m \in LexState : lexs' = Append(r.lexs, m)
    BY DEF Handled, LexTyped
  <2> QED
    BY <2>1, <2>2, <2>3
<1> QED
  BY <1>1, <1>2 DEF Typed, Handled, LexTyped, Outcome, Tables

LEMMA PutJoinTyped ==
  ASSUME Typed, NEW r, PutJoinKept(r)
  PROVE  defPutJoin' \in BOOLEAN
<1>1. JoinsAfter(r) \in BOOLEAN
  BY DEF JoinsAfter, Exists
<1> QED
  BY <1>1 DEF Typed, PutJoinKept, PutJoin, JoinsAfter, Exists

LEMMA TookTyped ==
  ASSUME Typed, NEW r, RawGood(r)
  PROVE  /\ Took(r) => LexTyped(r)
         /\ \A next \in Pushes : TookWith(r, next) => LexTyped(r)
         /\ \A m \in LexState, level \in Int : TookAndPushed(r, m, level) => LexTyped(r)
<1>1. PutJoinKept(r) => defPutJoin' \in BOOLEAN
  BY PutJoinTyped
<1>2. \A next \in Pushes : TookWith(r, next) => LexTyped(r)
  BY <1>1 DEF TookWith, TookLex, LexTyped, RawGood
<1>3. Took(r) => LexTyped(r)
  BY <1>2 DEF Took, RawGood
<1>4. \A m \in LexState, level \in Int : TookAndPushed(r, m, level) => LexTyped(r)
  BY <1>1 DEF TookAndPushed, LexTyped, RawGood
<1> QED
  BY <1>2, <1>3, <1>4

LEMMA OutcomeTyped ==
  ASSUME Typed
  PROVE  /\ \A e \in Effects : Fine(e) => Outcome
         /\ Complains => Outcome
         /\ FatalSrc => Outcome
         /\ \A e \in Effects : Emitted(e) \in Effects
<1>1. \A e \in Effects : Fine(e) => Outcome
  BY DEF Typed, Fine, Outcome
<1>2. Complains => Outcome
  BY DEF Typed, Complains, Outcome, Effects
<1>3. FatalSrc => Outcome
  BY DEF Typed, FatalSrc, Outcome, Effects
<1>4. \A e \in Effects : Emitted(e) \in Effects
  BY DEF Emitted, Effects
<1> QED
  BY <1>1, <1>2, <1>3, <1>4

LEMMA TablesKept ==
  ASSUME Typed, UNCHANGED macroVars
  PROVE  Tables
BY DEF Typed, Tables, macroVars

LEMMA EffectKinds ==
  /\ "none" \in Effects /\ "white" \in Effects /\ "text" \in Effects
  /\ "define" \in Effects /\ "undef" \in Effects /\ "include" \in Effects
  /\ "eof" \in Effects
BY DEF Effects

LEMMA CommonHandled ==
  ASSUME Typed, NEW r, RawGood(r), Common(r)
  PROVE  Handled(r)
<1>1. CASE White(r)
  BY <1>1, TookTyped, OutcomeTyped, EffectKinds, TablesKept
     DEF White, Handled, StatesMove
<1>2. CASE Comment(r) \/ Line(r)
  <2>1. LexTyped(r)
    <3>1. defPutJoin' \in BOOLEAN
      BY <1>2, PutJoinTyped DEF Comment, Line
    <3>2. lineCmt' \in BOOLEAN
      BY <1>2, StateTokenAssumption DEF Comment, Line, RawGood, Typed
    <3> QED
      BY <1>2, <3>1, <3>2 DEF Comment, Line, TookLex, LexTyped, RawGood
  <2>2. Outcome
    BY <1>2, OutcomeTyped, EffectKinds DEF Comment, Line
  <2> QED
    BY <1>2, <2>1, <2>2, TablesKept DEF Comment, Line, Handled, StatesMove
<1>3. CASE JoinLeft(r)
  <2>1. StatesMove
    BY <1>3 DEF JoinLeft, statePush, StatesMove, ProcState
  <2>2. Tables
    <3>1. joins' \in Seq({"SYMBOL", "DEFREF"})
      BY <1>3 DEF JoinLeft, Typed
    <3> QED
      BY <1>3, <3>1 DEF JoinLeft, Typed, Tables
  <2> QED
    BY <1>3, <2>1, <2>2, TookTyped, OutcomeTyped, EffectKinds DEF JoinLeft, Handled
<1> QED
  BY <1>1, <1>2, <1>3 DEF Common

LEMMA InDefineHandled ==
  ASSUME Typed, NEW r, RawGood(r), InDefine(r)
  PROVE  Handled(r)
<1>1. StatesMove
  BY DEF InDefine, IfName, ElsifName, UndefName, DefineName, NameText, NameError,
     Formals, Value, BadValue, statePop, stateChange, StatesMove, ProcState,
     IfNames, DefNames
<1>2. LexTyped(r)
  <2>1. "DEFFPAR" \in LexState /\ "DEFVAL" \in LexState /\ 0 \in Int
    BY DEF LexState
  <2>2. Took(r) \/ \E m \in LexState, level \in Int : TookAndPushed(r, m, level)
    BY <2>1 DEF InDefine, IfName, ElsifName, UndefName, DefineName, NameText,
       NameError, Formals, Value, BadValue
  <2> QED
    BY <2>2, TookTyped
<1>3. Outcome
  <2>1. \/ \E e \in Effects : Fine(e) \/ Fine(Emitted(e))
        \/ Complains \/ FatalSrc
    BY EffectKinds DEF InDefine, IfName, ElsifName, UndefName, DefineName, NameText,
       NameError, Formals, Value, BadValue
  <2> QED
    BY <2>1, OutcomeTyped
<1>4. Tables
  <2>1. CASE UNCHANGED macroVars
    BY <2>1, TablesKept
  <2>2. CASE IfName(r) \/ ElsifName(r) \/ DefineName(r)
    <3>1. lastSym' = r.name /\ r.name \in Names /\ UNCHANGED <<defs, defRefs, joins, defDepth>>
      BY <2>2 DEF IfName, ElsifName, DefineName, RawGood, Named
    <3> QED
      BY <3>1 DEF Tables, Typed
  <2>3. CASE UndefName(r)
    <3>1. /\ lastSym' = r.name /\ r.name \in Names /\ UNCHANGED <<defRefs, joins, defDepth>>
          /\ defs' = IF off = 0 THEN [defs EXCEPT ![r.name] = "none"] ELSE defs
      BY <2>3 DEF UndefName, RawGood, Named
    <3>2. defs' \in [Names -> Params]
      BY <3>1 DEF Typed, Params
    <3> QED
      BY <3>1, <3>2 DEF Tables, Typed
  <2>4. CASE Value(r)
    <3>1. /\ UNCHANGED <<lastSym, defRefs, joins, defDepth>>
          /\ \E params \in Params :
               defs' = IF off = 0 THEN [defs EXCEPT ![lastSym] = params] ELSE defs
      BY <2>4 DEF Value
    <3>2. defs' \in [Names -> Params]
      BY <3>1 DEF Typed
    <3> QED
      BY <3>1, <3>2 DEF Tables, Typed
  <2> QED
    BY <2>1, <2>2, <2>3, <2>4 DEF InDefine, NameText, NameError, Formals, BadValue
<1> QED
  BY <1>1, <1>2, <1>3, <1>4 DEF Handled

LEMMA InArgsHandled ==
  ASSUME Typed, NEW r, RawGood(r), InArgs(r)
  PROVE  Handled(r)
<1>1. StatesMove
  BY DEF InArgs, ParenOpen, ParenMissing, ArgWithoutRef, ArgComma, ArgClose, ArgText,
     statePop, stateChange, StatesMove, ProcState
<1>2. LexTyped(r)
  <2>1. CASE ArgClose(r)
    <3>1. defRefs \in Seq(Int) /\ defRefs # <<>> /\ defRefs' = Front(defRefs)
      BY <2>1 DEF ArgClose, Typed
    <3>2. defRefs' \in Seq(Int)
      BY <3>1, FrontLast
    <3>3. defRefs' # <<>> => Last(defRefs') \in Int
      BY <3>2, FrontLast
    <3>4. parenLevel' \in Int
      BY <2>1, <3>3 DEF ArgClose
    <3>5. defPutJoin' \in BOOLEAN
      BY <2>1, PutJoinTyped DEF ArgClose
    <3> QED
      BY <2>1, <3>4, <3>5 DEF ArgClose, LexTyped, RawGood
  <2>2. CASE ~ ArgClose(r)
    <3>1. "ARGMODE" \in LexState /\ 1 \in Int
      BY DEF LexState
    <3>2. Took(r) \/ \E m \in LexState, level \in Int : TookAndPushed(r, m, level)
      BY <2>2, <3>1 DEF InArgs, ParenOpen, ParenMissing, ArgWithoutRef, ArgComma, ArgText
    <3> QED
      BY <3>2, TookTyped
  <2> QED
    BY <2>1, <2>2
<1>3. Outcome
  <2>1. Fine("none") \/ Complains \/ FatalSrc
    BY DEF InArgs, ParenOpen, ParenMissing, ArgWithoutRef, ArgComma, ArgClose, ArgText
  <2> QED
    BY <2>1, OutcomeTyped, EffectKinds
<1>4. Tables
  <2>1. CASE ArgClose(r)
    <3>1. defRefs \in Seq(Int) /\ defRefs # <<>> /\ defRefs' = Front(defRefs)
          /\ UNCHANGED <<defs, lastSym, joins, defDepth>>
      BY <2>1 DEF ArgClose, Typed
    <3>2. defRefs' \in Seq(Int)
      BY <3>1, FrontLast
    <3> QED
      BY <3>1, <3>2 DEF Typed, Tables
  <2>2. CASE UNCHANGED macroVars
    BY <2>2, TablesKept
  <2> QED
    BY <2>1, <2>2 DEF InArgs, ParenOpen, ParenMissing, ArgWithoutRef, ArgComma, ArgText
<1> QED
  BY <1>1, <1>2, <1>3, <1>4 DEF Handled

LEMMA InNameHandled ==
  ASSUME Typed, status = "run", NEW r, RawGood(r), InName(r)
  PROVE  Handled(r)
<1>1. StatesMove
  BY DEF InName, IncString, IncAngle, IncError, ErrorName, JoinRight, JoinError,
     StrifyEnd, StrifyEof, StrifyText, statePop, stateChange, StatesMove, ProcState
<1>2. LexTyped(r)
  <2>1. CASE IncString(r)
    <3>1. defPutJoin' \in BOOLEAN
      BY <2>1, PutJoinTyped DEF IncString
    <3>2. lineCmt' \in BOOLEAN
      BY <2>1, StateTokenAssumption DEF IncString, RawGood
    <3> QED
      BY <2>1, <3>1, <3>2 DEF IncString, TookLex, LexTyped, RawGood
  <2>2. CASE JoinRight(r)
    <3>1. joins # <<>> => Last(joins) \in Pushes
      <4>1. joins \in Seq({"SYMBOL", "DEFREF"})
        BY DEF Typed
      <4>2. joins # <<>> => Last(joins) \in {"SYMBOL", "DEFREF"}
        BY <4>1, FrontLast
      <4> QED
        BY <4>2 DEF Pushes
    <3> QED
      BY <2>2, <3>1, TookTyped DEF JoinRight
  <2>3. CASE ~ IncString(r) /\ ~ JoinRight(r)
    <3>1. "INCMODE" \in LexState /\ "STRING" \in Pushes /\ r.paren \in Int
      BY DEF LexState, Pushes, RawGood
    <3>2. \/ Took(r)
          \/ \E m \in LexState, level \in Int : TookAndPushed(r, m, level)
          \/ \E next \in Pushes : TookWith(r, next)
      BY <2>3, <3>1 DEF InName, IncAngle, IncError, ErrorName, JoinError, StrifyEnd,
         StrifyEof, StrifyText
    <3> QED
      BY <3>2, TookTyped
  <2> QED
    BY <2>1, <2>2, <2>3
<1>3. Outcome
  <2>1. CASE StrifyEof(r)
    BY <2>1 DEF StrifyEof, Outcome, Effects
  <2>2. CASE ~ StrifyEof(r)
    <3>1. Fine("none") \/ Fine("include") \/ Complains \/ FatalSrc
      BY <2>2 DEF InName, IncString, IncAngle, IncError, ErrorName, JoinRight,
         JoinError, StrifyEnd, StrifyText
    <3> QED
      BY <3>1, OutcomeTyped, EffectKinds
  <2> QED
    BY <2>1, <2>2
<1>4. Tables
  <2>1. CASE JoinRight(r)
    <3>1. /\ UNCHANGED <<defs, lastSym, defRefs, defDepth>>
          /\ joins' = joins \/ (joins # <<>> /\ joins' = Front(joins))
      BY <2>1 DEF JoinRight
    <3>2. joins' \in Seq({"SYMBOL", "DEFREF"})
      BY <3>1, FrontLast DEF Typed
    <3> QED
      BY <3>1, <3>2 DEF Tables, Typed
  <2>2. CASE UNCHANGED macroVars
    BY <2>2, TablesKept
  <2> QED
    BY <2>1, <2>2 DEF InName, IncString, IncAngle, IncError, ErrorName, JoinError,
       StrifyEnd, StrifyEof, StrifyText
<1> QED
  BY <1>1, <1>2, <1>3, <1>4 DEF Handled

LEMMA TopLevelHandled ==
  ASSUME Typed, status = "run", NEW r, RawGood(r), TopLevel(r)
  PROVE  Handled(r)
<1> DEFINE Referral == RefTooDeep(r) \/ RefUndefined(r) \/ RefSimple(r) \/ RefParams(r)
           Other == Include(r) \/ Directive(r) \/ ElseOrEndif(r) \/ Eof(r)
                    \/ UndefineAll(r) \/ TopText(r) \/ Unexpected(r)
<1>1. StatesMove
  <2>1. CASE Directive(r)
    <3>1. StateOf(r.tok) \in ProcState
      BY <2>1 DEF Directive, StateOf, PushingDirectives, ProcState, DefNames, IfNames
    <3> QED
      BY <2>1, <3>1 DEF Directive, statePush, StatesMove
  <2>2. CASE Include(r) \/ RefParams(r)
    BY <2>2 DEF Include, RefParams, statePush, StatesMove, ProcState
  <2>3. CASE states' = states
    BY <2>3 DEF StatesMove
  <2> QED
    BY <2>1, <2>2, <2>3 DEF TopLevel, ElseOrEndif, RefTooDeep, RefUndefined, RefSimple,
       Eof, UndefineAll, TopText, Unexpected
<1>2. LexTyped(r)
  <2>1. CASE Referral
    <3>1. /\ defPutJoin' = FALSE /\ lineCmt' = r.cmt /\ pushed' = "none"
          /\ \/ lexs' = r.lexs /\ parenLevel' = r.paren
             \/ lexs' = Append(r.lexs, "ARGMODE") /\ parenLevel' = 0
      BY <2>1 DEF RefTooDeep, RefUndefined, RefSimple, RefParams, Referring, TookLex
    <3>2. "ARGMODE" \in LexState /\ "none" \in Pushes
      BY DEF LexState, Pushes
    <3>3. lexs' = r.lexs \/ \E m \in LexState : lexs' = Append(r.lexs, m)
      BY <3>1, <3>2
    <3>4. parenLevel' \in Int /\ lineCmt' \in BOOLEAN
      BY <3>1 DEF RawGood
    <3> QED
      BY <3>1, <3>2, <3>3, <3>4 DEF LexTyped
  <2>2. CASE Other
    <3>1. Took(r)
      BY <2>2 DEF Include, Directive, ElseOrEndif, Eof, UndefineAll, TopText, Unexpected
    <3> QED
      BY <3>1, TookTyped
  <2> QED
    BY <2>1, <2>2 DEF TopLevel
<1>3. Outcome
  <2>1. CASE Eof(r)
    BY <2>1 DEF Eof, Outcome, Typed, Effects
  <2>2. CASE ~ Eof(r)
    <3>1. \/ \E e \in Effects : Fine(e) \/ Fine(Emitted(e))
          \/ Complains \/ FatalSrc
      BY <2>2, EffectKinds DEF TopLevel, Include, Directive, ElseOrEndif, RefTooDeep,
         RefUndefined, RefSimple, RefParams, UndefineAll, TopText, Unexpected
    <3> QED
      BY <3>1, OutcomeTyped
  <2> QED
    BY <2>1, <2>2
<1>4. Tables
  <2>1. CASE UNCHANGED macroVars
    BY <2>1, TablesKept
  <2>2. CASE UndefineAll(r)
    <3>1. UNCHANGED <<lastSym, defRefs, joins, defDepth>>
      BY <2>2 DEF UndefineAll
    <3>2. PICK kept \in SUBSET Names :
            \/ defs' = [n \in Names |-> IF n \in kept THEN defs[n] ELSE "none"]
            \/ defs' = defs
      BY <2>2 DEF UndefineAll
    <3>3. defs \in [Names -> Params] /\ "none" \in Params
      BY DEF Typed, Params
    <3>4. defs' \in [Names -> Params]
      BY <3>2, <3>3
    <3> QED
      BY <3>1, <3>4 DEF Typed, Tables
  <2>3. CASE RefUndefined(r) \/ RefSimple(r) \/ TopText(r)
    <3>1. UNCHANGED <<defs, lastSym, defRefs, joins>> /\ defDepth' \in Nat
      BY <2>3 DEF RefUndefined, RefSimple, TopText, Deeper, Typed
    <3> QED
      BY <3>1 DEF Typed, Tables
  <2>4. CASE RefParams(r)
    <3>1. /\ UNCHANGED <<defs, lastSym, joins>> /\ defDepth' \in Nat
          /\ defRefs' = IF defRefs = <<>> THEN <<0>>
                        ELSE Append(Append(Front(defRefs), parenLevel), 0)
      BY <2>4 DEF RefParams, Deeper, Typed
    <3>2. defRefs \in Seq(Int) /\ parenLevel \in Int
      BY DEF Typed
    <3>3. defRefs # <<>> => Front(defRefs) \in Seq(Int)
      BY <3>2, FrontLast
    <3>4. defRefs' \in Seq(Int)
      <4>1. CASE defRefs = <<>>
        BY <3>1, <4>1
      <4>2. CASE defRefs # <<>>
        <5> DEFINE f == Front(defRefs)
        <5>1. f \in Seq(Int) /\ defRefs' = Append(Append(f, parenLevel), 0)
          BY <3>1, <3>3, <4>2
        <5> HIDE DEF f
        <5> QED
          BY <3>2, <5>1
      <4> QED
        BY <4>1, <4>2
    <3> QED
      BY <3>1, <3>4 DEF Typed, Tables
  <2> QED
    BY <2>1, <2>2, <2>3, <2>4 DEF TopLevel, Include, Directive, ElseOrEndif, RefTooDeep,
       Eof, Unexpected
<1> QED
  BY <1>1, <1>2, <1>3, <1>4 DEF Handled

LEMMA InitTyped == Init => Typed
<1> SUFFICES ASSUME Init PROVE Typed
  OBVIOUS
<1>1. states = <<"TOP">> /\ lexs = <<"INITIAL">> /\ defRefs = <<>> /\ joins = <<>>
  BY DEF Init
<1>2. GoodStack(states, ProcState, "TOP") /\ GoodStack(lexs, LexState, "INITIAL")
  BY <1>1 DEF GoodStack, ProcState, LexState
<1>3. defRefs \in Seq(Int) /\ joins \in Seq({"SYMBOL", "DEFREF"})
  BY <1>1
<1>4. /\ defs \in [Names -> Params] /\ lastSym \in Names \cup {NoName}
      /\ pushed \in Pushes /\ defDepth \in Nat /\ parenLevel \in Int
      /\ defPutJoin \in BOOLEAN /\ lineCmt \in BOOLEAN /\ errs \in BOOLEAN
      /\ status \in {"run", "croaked", "fatal", "eof"} /\ effect \in Effects
  <2>1. lineCmt \in BOOLEAN
    BY StateTokenAssumption DEF Init
  <2>2. effect \in Effects /\ pushed \in Pushes
    BY EffectKinds DEF Init, Pushes
  <2>3. defDepth = 0 /\ parenLevel = 0 /\ defPutJoin = FALSE /\ errs = FALSE
        /\ status = "run" /\ lastSym = NoName
    BY DEF Init
  <2>4. defs \in [Names -> Params]
    BY DEF Init
  <2>5. defDepth \in Nat /\ parenLevel \in Int /\ lastSym \in Names \cup {NoName}
        /\ status \in {"run", "croaked", "fatal", "eof"}
    BY <2>3
  <2>6. defPutJoin \in BOOLEAN /\ errs \in BOOLEAN
    BY <2>3
  <2> QED
    BY <2>1, <2>2, <2>4, <2>5, <2>6
<1> QED
  BY <1>2, <1>3, <1>4 DEF Typed

LEMMA NextTyped == Typed /\ [Next]_vars => Typed'
<1> SUFFICES ASSUME Typed, [Next]_vars PROVE Typed'
  OBVIOUS
<1>1. ASSUME NEW r \in RawTokens, status = "run",
             Common(r) \/ InDefine(r) \/ InArgs(r) \/ InName(r) \/ TopLevel(r)
      PROVE  Typed'
  <2>1. RawGood(r)
    BY RawTyped
  <2>2. Handled(r)
    BY <1>1, <2>1, CommonHandled, InDefineHandled, InArgsHandled, InNameHandled,
       TopLevelHandled
  <2> QED
    BY <2>1, <2>2, HandledTyped
<1>2. CASE LexError
  <2>1. GoodStack(lexs', LexState, "INITIAL")
    <3>1. GoodStack(lexs, LexState, "INITIAL") /\ "INITIAL" \in LexState
      BY DEF Typed, LexState
    <3>2. GoodStack(Append(lexs, "INITIAL"), LexState, "INITIAL")
      BY <3>1, PushKeeps
    <3>3. mode = "INCMODE" => GoodStack(Rebegun("INITIAL"), LexState, "INITIAL")
      BY <3>1, ChangeKeeps DEF mode, Rebegun
    <3> QED
      BY <1>2, <3>1, <3>2, <3>3 DEF LexError
  <2>2. Outcome
    BY <1>2, OutcomeTyped DEF LexError
  <2> QED
    BY <1>2, <2>1, <2>2 DEF LexError, Outcome, Typed, macroVars
<1>3. CASE AtEof
  <2>1. Outcome
    BY <1>3, EffectKinds DEF AtEof, Outcome, Typed
  <2> QED
    BY <1>3, <2>1 DEF AtEof, Outcome, Typed, macroVars, lexVars
<1>4. CASE UNCHANGED vars
  BY <1>4 DEF vars, macroVars, lexVars, Typed
<1> QED
  BY <1>1, <1>2, <1>3, <1>4 DEF Next

(* No state or start state leaves its set, no variable its type.           *)
LEMMA TypedAlways == Spec => []Typed
  BY InitTyped, NextTyped, PTL DEF Spec

-----------------------------------------------------------------------------
(* Counting the states of a stack. *)
Where(s, T) == {i \in 1 .. Len(s) : s[i] \in T}

LEMMA CountType ==
  ASSUME NEW S, NEW s \in Seq(S), NEW T
  PROVE  /\ IsFiniteSet(Where(s, T)) /\ CountIn(s, T) \in Nat
         /\ CountIn(s, T) = Cardinality(Where(s, T))
<1>1. IsFiniteSet(1 .. Len(s))
  BY FS_Interval
<1>2. Where(s, T) \in SUBSET (1 .. Len(s))
  BY DEF Where
<1>3. IsFiniteSet(Where(s, T)) /\ Cardinality(Where(s, T)) \in Nat
  BY <1>1, <1>2, FS_Subset, FS_CardinalityType
<1> QED
  BY <1>3 DEF CountIn, Where

LEMMA CountPush ==
  ASSUME NEW S, NEW s \in Seq(S), NEW x \in S, NEW T
  PROVE  CountIn(Append(s, x), T) = CountIn(s, T) + (IF x \in T THEN 1 ELSE 0)
<1> DEFINE t == Append(s, x)
<1>1. t \in Seq(S) /\ Len(t) = Len(s) + 1 /\ t[Len(s) + 1] = x
      /\ \A i \in 1 .. Len(s) : t[i] = s[i]
  OBVIOUS
<1> HIDE DEF t
<1>2. /\ IsFiniteSet(Where(s, T)) /\ CountIn(s, T) \in Nat
      /\ CountIn(s, T) = Cardinality(Where(s, T)) /\ CountIn(t, T) = Cardinality(Where(t, T))
  BY <1>1, CountType
<1>3. CASE x \notin T
  <2>1. Where(t, T) = Where(s, T)
    BY <1>1, <1>3 DEF Where
  <2> QED
    BY <1>2, <1>3, <2>1 DEF t
<1>4. CASE x \in T
  <2>1. Where(t, T) = Where(s, T) \cup {Len(s) + 1}
    BY <1>1, <1>4 DEF Where
  <2>2. Len(s) + 1 \notin Where(s, T)
    BY DEF Where
  <2>3. Cardinality(Where(t, T)) = Cardinality(Where(s, T)) + 1
    BY <1>2, <2>1, <2>2, FS_AddElement
  <2> QED
    BY <1>2, <1>4, <2>3 DEF t
<1> QED
  BY <1>3, <1>4

LEMMA CountPop ==
  ASSUME NEW S, NEW s \in Seq(S), s # <<>>, NEW T
  PROVE  CountIn(s, T) = CountIn(Front(s), T) + (IF Last(s) \in T THEN 1 ELSE 0)
<1> DEFINE f == Front(s)
           l == Last(s)
<1>1. f \in Seq(S) /\ l \in S /\ s = Append(f, l)
  BY FrontLast, FrontAppendLast
<1> HIDE DEF f, l
<1>2. CountIn(Append(f, l), T) = CountIn(f, T) + (IF l \in T THEN 1 ELSE 0)
  BY <1>1, CountPush
<1>3. CountIn(s, T) = CountIn(Append(f, l), T)
  BY <1>1
<1> QED
  BY <1>2, <1>3 DEF f, l

(* Joins wait only on the states that stand for them.                      *)
JoinStates == CountIn(states, {"JOIN"})

LEMMA JoinsMove ==
  ASSUME Typed
  PROVE  /\ JoinStates \in Nat
         /\ cur = "JOIN" => JoinStates >= 1
         /\ cur # "TOP" /\ states' = Front(states) =>
              JoinStates' = JoinStates - Joins(cur)
         /\ \A s \in ProcState : states' = Append(states, s) =>
              JoinStates' = JoinStates + Joins(s)
         /\ \A s \in ProcState : cur # "TOP" /\ states' = Append(Front(states), s) =>
              JoinStates' = JoinStates - Joins(cur) + Joins(s)
<1>1. states \in Seq(ProcState) /\ states # <<>> /\ cur = Last(states)
  BY DEF Typed, GoodStack, cur
<1>2. /\ JoinStates \in Nat /\ CountIn(Front(states), {"JOIN"}) \in Nat
      /\ Front(states) \in Seq(ProcState)
  BY <1>1, FrontLast, CountType DEF JoinStates
<1>3. JoinStates = CountIn(Front(states), {"JOIN"}) + Joins(cur)
  BY <1>1, CountPop DEF JoinStates, Joins
<1>4. Joins(cur) \in {0, 1} /\ (cur = "JOIN" => Joins(cur) = 1)
  BY DEF Joins
<1>5. cur # "TOP" /\ states' = Front(states) => JoinStates' = JoinStates - Joins(cur)
  BY <1>2, <1>3, <1>4 DEF JoinStates
<1>6. ASSUME NEW s \in ProcState, states' = Append(states, s)
      PROVE  JoinStates' = JoinStates + Joins(s)
  BY <1>1, <1>6, CountPush DEF JoinStates, Joins
<1>7. ASSUME NEW s \in ProcState, states' = Append(Front(states), s)
      PROVE  JoinStates' = JoinStates - Joins(cur) + Joins(s)
  <2>1. JoinStates' = CountIn(Front(states), {"JOIN"}) + Joins(s)
    BY <1>2, <1>7, CountPush DEF JoinStates, Joins
  <2>2. Joins(s) \in {0, 1}
    BY DEF Joins
  <2> QED
    BY <1>2, <1>3, <1>4, <2>1, <2>2
<1> QED
  BY <1>2, <1>3, <1>4, <1>5, <1>6, <1>7

-----------------------------------------------------------------------------
(* What the lexer returns, state by state, while all is in step.           *)
LEMMA TokenShape ==
  ASSUME Typed, ~ errs, Shape, NEW r \in RawTokens
  PROVE  /\ cur \in ArgStates =>
              \/ /\ r.tok \in {"COMMENT", "WHITE", "STRIFY", "STRING", "OPEN", "TEXT"}
                 /\ r.lexs = Over("ARGMODE")
              \/ r.tok \in {"CLOSE", "COMMA"} /\ r.lexs = Bare
         /\ cur = "DEFFORM" =>
              \/ r.tok \in {"COMMENT", "WHITE", "TEXT"} /\ r.lexs \in LexsFor("DEFFORM")
              \/ r.tok = "DEFFORM" /\ r.lexs = Bare
         /\ cur = "DEFVALUE" =>
              \/ r.tok \in {"COMMENT", "WHITE"} /\ r.lexs = Over("DEFVAL")
              \/ r.tok = "DEFVALUE" /\ r.lexs = Bare
         /\ cur \notin ModeStates =>
              \/ r.tok \in Starting /\ r.lexs = Bare
              \/ /\ cur = "INCNAME" /\ r.tok \in {"TEXT", "WHITE"}
                 /\ r.lexs = Over("INCMODE")
<1>1. lexs \in LexsFor(cur)
  BY DEF Shape
<1>2. "TEXT" \in Starting /\ "WHITE" \in Starting /\ "STRING" \in Starting
  BY DEF Starting, TextTokens
<1>3. CASE cur \in ArgStates
  <2>1. lexs = Over("ARGMODE")
    BY <1>1, <1>3 DEF LexsFor, ArgStates
  <2>2. mode = "ARGMODE" /\ Front(lexs) = Bare
    BY <2>1, Pairs DEF mode, LexState
  <2>3. cur # "DEFFORM" /\ cur # "DEFVALUE" /\ cur \in ModeStates
    BY <1>3 DEF ArgStates, ModeStates
  <2> QED
    BY <2>1, <2>2, <2>3, RawCases DEF Tokened
<1>4. CASE cur = "DEFFORM"
  <2>1. lexs = Over("DEFFPAR") \/ lexs = Over("DEFFORM")
    BY <1>1, <1>4 DEF LexsFor, ArgStates
  <2>2. cur \notin ArgStates /\ cur \in ModeStates
    BY <1>4 DEF ArgStates, ModeStates
  <2>3. LexsFor("DEFFORM") = {Over("DEFFPAR"), Over("DEFFORM")}
    BY DEF LexsFor, ArgStates
  <2>4. "DEFFPAR" \in LexState /\ "DEFFORM" \in LexState
    BY DEF LexState
  <2>5. /\ mode = "DEFFPAR" \/ mode = "DEFFORM"
        /\ Front(lexs) = Bare /\ Rebegun("DEFFORM") = Over("DEFFORM")
    BY <2>1, <2>4, Pairs DEF mode, Rebegun
  <2> QED
    BY <1>4, <2>1, <2>2, <2>3, <2>5, RawCases DEF Tokened
<1>5. CASE cur = "DEFVALUE"
  <2>1. lexs = Over("DEFVAL")
    BY <1>1, <1>5 DEF LexsFor, ArgStates
  <2>2. mode = "DEFVAL" /\ Front(lexs) = Bare
    BY <2>1, Pairs DEF mode, LexState
  <2>3. cur \notin ArgStates /\ cur \in ModeStates
    BY <1>5 DEF ArgStates, ModeStates
  <2> QED
    BY <1>5, <2>1, <2>2, <2>3, RawCases DEF Tokened
<1>6. CASE cur \notin ModeStates
  <2>1. cur \notin ArgStates /\ cur # "DEFFORM" /\ cur # "DEFVALUE"
    BY <1>6 DEF ArgStates, ModeStates
  <2>2. lexs = Bare \/ (cur = "INCNAME" /\ lexs = Over("INCMODE"))
    BY <1>1, <2>1 DEF LexsFor
  <2>3. CASE lexs = Bare
    <3>1. mode = "INITIAL"
      BY <2>3, Pairs DEF mode, LexState
    <3> QED
      BY <1>2, <2>1, <2>3, <3>1, RawCases DEF Tokened
  <2>4. CASE cur = "INCNAME" /\ lexs = Over("INCMODE")
    <3>1. mode = "INCMODE" /\ Front(lexs) = Bare
      BY <2>4, Pairs DEF mode, LexState
    <3> QED
      BY <1>2, <2>1, <2>4, <3>1, RawCases DEF Tokened
  <2> QED
    BY <2>2, <2>3, <2>4
<1> QED
  BY <1>3, <1>4, <1>5, <1>6 DEF ModeStates

(* How the shape is kept: by what becomes of the state on top.             *)
LEMMA KeptShape ==
  ASSUME Typed, Shape, states' = states, lexs' \in LexsFor(cur),
         defRefs' = defRefs, joins' = joins
  PROVE  Shape'
BY DEF Shape, cur

LEMMA PushedShape ==
  ASSUME Typed, Shape, NEW s \in ProcState, cur \notin ModeStates,
         states' = Append(states, s), lexs' \in LexsFor(s),
         Len(defRefs') = Refs(s), Len(joins') = Len(joins) + Joins(s)
  PROVE  Shape'
<1>1. /\ Len(states') = Len(states) + 1 /\ cur' = s
      /\ \A i \in 1 .. Len(states) : states'[i] = states[i]
  BY PushKeeps DEF Typed, cur
<1>2. Len(states) \in Nat /\ cur = states[Len(states)]
  BY TopOf DEF Typed, cur
<1>3. \A i \in 1 .. Len(states') - 1 : states'[i] \notin ModeStates
  <2>1. \A i \in 1 .. Len(states) : states[i] \notin ModeStates
    BY <1>2 DEF Shape
  <2>2. Len(states') - 1 = Len(states)
    BY <1>1, <1>2
  <2> QED
    BY <1>1, <2>1, <2>2
<1>4. JoinStates' = JoinStates + Joins(s)
  BY JoinsMove
<1> QED
  BY <1>1, <1>3, <1>4 DEF Shape, JoinStates

LEMMA PoppedShape ==
  ASSUME Typed, Shape, cur # "TOP", states' = Front(states),
         lexs' = Bare, defRefs' = <<>>, Len(joins') = Len(joins) - Joins(cur)
  PROVE  Shape'
<1>1. /\ Len(states') = Len(states) - 1
      /\ \A i \in 1 .. Len(states) - 1 : states'[i] = states[i]
      /\ cur' = states[Len(states) - 1] /\ Len(states) - 1 \in 1 .. Len(states) - 1
  <2>1. GoodStack(states, ProcState, "TOP") /\ Last(states) # "TOP"
    BY DEF Typed, cur
  <2> DEFINE f == Front(states)
  <2>2. /\ Len(f) = Len(states) - 1 /\ Last(f) = states[Len(states) - 1]
        /\ Len(states) - 1 \in 1 .. Len(states) - 1
    BY <2>1, PopKeeps
  <2>3. states' = f /\ \A i \in 1 .. Len(states) - 1 : f[i] = states[i]
    BY <2>1, FrontLast DEF GoodStack
  <2> HIDE DEF f
  <2>4. cur' = Last(f) /\ Len(states') = Len(f)
    BY <2>3 DEF cur
  <2> QED
    BY <2>2, <2>3, <2>4
<1>2. Len(states) \in Nat
  BY TopOf DEF Typed
<1>3. cur' \notin ModeStates
  BY <1>1 DEF Shape
<1>4. Bare \in LexsFor(cur') /\ Refs(cur') = 0
  BY <1>3 DEF LexsFor, Refs, ModeStates
<1>5. \A i \in 1 .. Len(states') - 1 : states'[i] \notin ModeStates
  BY <1>1, <1>2 DEF Shape
<1>6. JoinStates' = JoinStates - Joins(cur)
  BY JoinsMove
<1> QED
  BY <1>4, <1>5, <1>6 DEF Shape, JoinStates

LEMMA ChangedShape ==
  ASSUME Typed, Shape, NEW s \in ProcState, cur # "TOP", Joins(cur) = 0, Joins(s) = 0,
         states' = Append(Front(states), s), lexs' \in LexsFor(s),
         Len(defRefs') = Refs(s), joins' = joins
  PROVE  Shape'
<1>1. /\ Len(states') = Len(states) /\ cur' = s
      /\ \A i \in 1 .. Len(states) - 1 : states'[i] = states[i]
  BY ChangeKeeps DEF Typed, cur
<1>2. \A i \in 1 .. Len(states') - 1 : states'[i] \notin ModeStates
  BY <1>1 DEF Shape
<1>3. JoinStates' = JoinStates /\ JoinStates \in Nat
  BY JoinsMove
<1> QED
  BY <1>1, <1>2, <1>3 DEF Shape, JoinStates

-----------------------------------------------------------------------------
(* Each handler keeps the shape, or an error is reported.                  *)
Leaving == {"CLOSE", "COMMA", "DEFFORM", "DEFVALUE"}
InStep  == Typed /\ ~ errs /\ Shape /\ status = "run"
Kept    == (~ errs' => Shape') /\ FatalOnlyAfterError'

LEMMA StartKept ==
  ASSUME InStep, NEW r \in RawTokens
  PROVE  /\ r.tok \notin Leaving => r.lexs \in LexsFor(cur)
         /\ r.tok \in {"CLOSE", "COMMA"} => cur \in ArgStates /\ r.lexs = Bare
         /\ r.tok = "DEFFORM"  => cur = "DEFFORM" /\ r.lexs = Bare
         /\ r.tok = "DEFVALUE" => cur = "DEFVALUE" /\ r.lexs = Bare
         /\ cur \notin ModeStates /\ r.tok \notin {"TEXT", "WHITE"} => r.lexs = Bare
         /\ cur \notin ModeStates \cup {"INCNAME"} => r.lexs = Bare
<1>1. Typed /\ ~ errs /\ Shape
  BY DEF InStep
<1>2. \A t \in Leaving : t \notin Starting
  BY DEF Leaving, Starting, PushingDirectives, TextTokens, Named
<1>3. CASE cur \in ArgStates
  <2>1. cur \in ModeStates /\ cur # "DEFFORM" /\ cur # "DEFVALUE"
    BY <1>3 DEF ModeStates, ArgStates
  <2>2. LexsFor(cur) = {Over("ARGMODE")}
    BY <1>3 DEF LexsFor, ArgStates
  <2>3. \/ /\ r.tok \in {"COMMENT", "WHITE", "STRIFY", "STRING", "OPEN", "TEXT"}
           /\ r.lexs = Over("ARGMODE")
        \/ r.tok \in {"CLOSE", "COMMA"} /\ r.lexs = Bare
    BY <1>1, <1>3, TokenShape
  <2> QED
    BY <1>3, <2>1, <2>2, <2>3 DEF Leaving
<1>4. CASE cur = "DEFFORM"
  <2>1. \/ r.tok \in {"COMMENT", "WHITE", "TEXT"} /\ r.lexs \in LexsFor("DEFFORM")
        \/ r.tok = "DEFFORM" /\ r.lexs = Bare
    BY <1>1, <1>4, TokenShape
  <2> QED
    BY <1>4, <2>1 DEF Leaving, ModeStates
<1>5. CASE cur = "DEFVALUE"
  <2>1. \/ r.tok \in {"COMMENT", "WHITE"} /\ r.lexs = Over("DEFVAL")
        \/ r.tok = "DEFVALUE" /\ r.lexs = Bare
    BY <1>1, <1>5, TokenShape
  <2>2. LexsFor(cur) = {Over("DEFVAL")}
    BY <1>5 DEF LexsFor, ArgStates
  <2> QED
    BY <1>5, <2>1, <2>2 DEF Leaving, ModeStates
<1>6. CASE cur \notin ModeStates
  <2>1. \/ r.tok \in Starting /\ r.lexs = Bare
        \/ /\ cur = "INCNAME" /\ r.tok \in {"TEXT", "WHITE"}
           /\ r.lexs = Over("INCMODE")
    BY <1>1, <1>6, TokenShape
  <2>2. Bare \in LexsFor(cur) /\ (cur = "INCNAME" => Over("INCMODE") \in LexsFor(cur))
    BY <1>6 DEF LexsFor, ModeStates, ArgStates
  <2> QED
    BY <1>2, <1>6, <2>1, <2>2 DEF Leaving
<1> QED
  BY <1>3, <1>4, <1>5, <1>6 DEF ModeStates

LEMMA StaysKept ==
  ASSUME InStep, NEW r \in RawTokens, r.tok \notin Leaving, lexs' = r.lexs,
         states' = states, defRefs' = defRefs, joins' = joins,
         status' = "fatal" => errs'
  PROVE  Kept
<1>1. lexs' \in LexsFor(cur)
  BY StartKept
<1> QED
  BY <1>1, KeptShape DEF InStep, Kept, FatalOnlyAfterError

(* A state that has neither reference nor start state is entered and left. *)
LEMMA PlainLexs ==
  ASSUME NEW s, s \notin ModeStates
  PROVE  Bare \in LexsFor(s) /\ Refs(s) = 0
BY DEF LexsFor, Refs, ModeStates, ArgStates

LEMMA EntersKept ==
  ASSUME InStep, NEW s \in ProcState \ ModeStates, cur \notin ModeStates,
         states' = Append(states, s), lexs' = Bare, defRefs' = defRefs,
         Len(joins') = Len(joins) + Joins(s), status' # "fatal"
  PROVE  Kept
<1>1. lexs' \in LexsFor(s) /\ Refs(s) = 0 /\ Refs(cur) = 0
  BY PlainLexs
<1>2. Len(defRefs') = Refs(s)
  BY <1>1 DEF InStep, Shape
<1> QED
  BY <1>1, <1>2, PushedShape DEF InStep, Kept, FatalOnlyAfterError

LEMMA LeavesKept ==
  ASSUME InStep, cur # "TOP", states' = Front(states), lexs' = Bare, defRefs' = <<>>,
         Len(joins') = Len(joins) - Joins(cur), status' # "fatal"
  PROVE  Kept
BY PoppedShape DEF InStep, Kept, FatalOnlyAfterError

LEMMA ChangesKept ==
  ASSUME InStep, NEW s \in ProcState \ {"JOIN"}, cur \notin {"TOP", "JOIN"},
         states' = Append(Front(states), s), lexs' \in LexsFor(s),
         Refs(s) = Refs(cur), defRefs' = defRefs, joins' = joins, status' # "fatal"
  PROVE  Kept
<1>1. Joins(cur) = 0 /\ Joins(s) = 0
  BY DEF Joins
<1>2. Len(defRefs') = Refs(s)
  BY DEF InStep, Shape
<1> QED
  BY <1>1, <1>2, ChangedShape DEF InStep, Kept, FatalOnlyAfterError

(* References wait exactly under the states of ArgStates. *)
LEMMA Waiting ==
  ASSUME InStep
  PROVE  /\ cur \in ArgStates => Len(defRefs) = 1 /\ defRefs # <<>> /\ Front(defRefs) = <<>>
         /\ cur \notin ArgStates => defRefs = <<>>
<1>1. defRefs \in Seq(Int) /\ Len(defRefs) = Refs(cur)
  BY DEF InStep, Typed, Shape
<1>2. CASE cur \in ArgStates
  <2>1. Len(defRefs) = 1
    BY <1>1, <1>2 DEF Refs
  <2>2. defRefs # <<>>
    <3>1. Len(<<>>) = 0
      OBVIOUS
    <3> QED
      BY <2>1, <3>1
  <2>3. Front(defRefs) \in Seq(Int) /\ Len(Front(defRefs)) = Len(defRefs) - 1
    BY <1>1, <2>2, FrontLast
  <2> DEFINE f == Front(defRefs)
  <2>4. f \in Seq(Int) /\ Len(f) = 0
    BY <2>1, <2>3
  <2> HIDE DEF f
  <2>5. f = <<>>
    BY <2>4
  <2> QED
    BY <1>2, <2>1, <2>2, <2>5 DEF f
<1>3. CASE cur \notin ArgStates
  <2>1. Len(defRefs) = 0
    BY <1>1, <1>3 DEF Refs
  <2> QED
    BY <1>1, <1>3, <2>1
<1> QED
  BY <1>2, <1>3

LEMMA CommonKept ==
  ASSUME InStep, NEW r \in RawTokens, Common(r)
  PROVE  Kept
<1>1. status = "run"
  BY DEF InStep
<1>2. CASE White(r) \/ Comment(r) \/ Line(r)
  <2>1. r.tok \notin Leaving /\ lexs' = r.lexs /\ states' = states /\ status' = status
    BY <1>2 DEF White, Comment, Line, Took, TookWith, TookLex, Fine, Leaving
  <2>2. defRefs' = defRefs /\ joins' = joins
    BY <1>2 DEF White, Comment, Line, macroVars
  <2> QED
    BY <1>1, <2>1, <2>2, StaysKept
<1>3. CASE JoinLeft(r)
  <2>1. /\ r.tok \in {"SYMBOL_JOIN", "DEFREF_JOIN"} /\ lexs' = r.lexs
        /\ states' = Append(states, "JOIN") /\ defRefs' = defRefs
        /\ status' = status
    BY <1>3 DEF JoinLeft, IsJoin, statePush, Took, TookWith, TookLex, Fine
  <2>2. Len(joins') = Len(joins) + 1
    <3>1. joins \in Seq({"SYMBOL", "DEFREF"})
      BY DEF InStep, Typed
    <3>2. PICK j \in {"SYMBOL", "DEFREF"} : joins' = Append(joins, j)
      BY <1>3 DEF JoinLeft
    <3> QED
      BY <3>1, <3>2
  <2>3. cur \notin ModeStates
    BY <2>1, TokenShape DEF InStep, ModeStates
  <2>4. lexs' = Bare
    BY <2>1, <2>3, StartKept
  <2>5. "JOIN" \in ProcState \ ModeStates /\ Joins("JOIN") = 1
    BY DEF ProcState, ModeStates, ArgStates, Joins
  <2> QED
    BY <1>1, <2>1, <2>2, <2>3, <2>4, <2>5, EntersKept
<1> QED
  BY <1>2, <1>3 DEF Common

LEMMA Reported ==
  ASSUME errs' = TRUE
  PROVE  Kept
BY DEF Kept, FatalOnlyAfterError

(* A state without start state, reference or join is left. *)
LEMMA NameKept ==
  ASSUME InStep, NEW r \in RawTokens, cur \in DefNames \cup {"ERRORNAME", "STRIFY"},
         states' = Front(states), lexs' = r.lexs, defRefs' = defRefs,
         joins' = joins, status' # "fatal"
  PROVE  Kept
<1>1. cur \notin ModeStates \cup {"INCNAME"} /\ cur \notin ArgStates
      /\ cur # "TOP" /\ cur # "JOIN"
  BY DEF DefNames, IfNames, ModeStates, ArgStates
<1>2. lexs' = Bare /\ defRefs' = <<>>
  BY <1>1, StartKept, Waiting
<1>3. Len(joins') = Len(joins) - Joins(cur)
  <2>1. Joins(cur) = 0 /\ Len(joins) \in Nat
    BY <1>1 DEF Joins, InStep, Typed
  <2> QED
    BY <2>1
<1> QED
  BY <1>1, <1>2, <1>3, LeavesKept

LEMMA InDefineKept ==
  ASSUME InStep, NEW r \in RawTokens, InDefine(r)
  PROVE  Kept
<1>1. status = "run"
  BY DEF InStep
<1>2. CASE IfName(r) \/ ElsifName(r) \/ UndefName(r)
  <2>1. /\ cur \in DefNames /\ states' = Front(states) /\ lexs' = r.lexs
        /\ defRefs' = defRefs /\ joins' = joins
    BY <1>2 DEF IfName, ElsifName, UndefName, statePop, Took, TookWith, TookLex,
      DefNames
  <2>2. status' # "fatal"
    BY <1>1, <1>2 DEF IfName, ElsifName, UndefName, Fine, Complains
  <2> QED
    BY <2>1, <2>2, NameKept
<1>3. CASE DefineName(r)
  <2>1. /\ cur = "DEFNAME_DEFINE" /\ states' = Append(Front(states), "DEFFORM")
        /\ lexs' = Append(r.lexs, "DEFFPAR")
        /\ defRefs' = defRefs /\ joins' = joins /\ status' = status
    BY <1>3 DEF DefineName, stateChange, TookAndPushed, Fine
  <2>2. r.lexs = Bare
    BY <2>1, StartKept DEF ModeStates, ArgStates
  <2>3. "DEFFPAR" \in LexState /\ Over("DEFFPAR") \in LexsFor("DEFFORM")
    BY DEF LexState, LexsFor, ArgStates
  <2>4. lexs' \in LexsFor("DEFFORM")
    BY <2>1, <2>2, <2>3, Pairs
  <2>5. Refs("DEFFORM") = 0 /\ Refs(cur) = 0 /\ cur \notin {"TOP", "JOIN"}
    BY <2>1 DEF Refs, ArgStates
  <2>6. "DEFFORM" \in ProcState \ {"JOIN"}
    BY DEF ProcState
  <2> QED
    BY <1>1, <2>1, <2>4, <2>5, <2>6, ChangesKept
<1>4. CASE NameText(r)
  <2>1. r.tok \notin Leaving
    BY <1>4 DEF NameText, IsText, TextTokens, Leaving
  <2>2. lexs' = r.lexs /\ states' = states /\ status' = status
    BY <1>4 DEF NameText, Took, TookWith, TookLex, Fine
  <2>3. defRefs' = defRefs /\ joins' = joins
    BY <1>4 DEF NameText, macroVars
  <2> QED
    BY <1>1, <2>1, <2>2, <2>3, StaysKept
<1>5. CASE NameError(r)
  BY <1>5, Reported DEF NameError, Complains
<1>6. CASE Formals(r)
  <2>1. /\ cur = "DEFFORM" /\ states' = Append(Front(states), "DEFVALUE")
        /\ lexs' = Append(r.lexs, "DEFVAL") /\ r.tok = "DEFFORM"
    BY <1>6 DEF Formals, stateChange, TookAndPushed
  <2>2. defRefs' = defRefs /\ joins' = joins
    BY <1>6 DEF Formals, macroVars
  <2>3. status' # "fatal"
    BY <1>1, <1>6 DEF Formals, Fine, Complains
  <2>4. r.lexs = Bare
    BY <2>1, StartKept
  <2>5. "DEFVAL" \in LexState /\ Over("DEFVAL") \in LexsFor("DEFVALUE")
    BY DEF LexState, LexsFor, ArgStates
  <2>6. lexs' \in LexsFor("DEFVALUE")
    BY <2>1, <2>4, <2>5, Pairs
  <2>7. Refs("DEFVALUE") = 0 /\ Refs(cur) = 0 /\ cur \notin {"TOP", "JOIN"}
    BY <2>1 DEF Refs, ArgStates
  <2>8. "DEFVALUE" \in ProcState \ {"JOIN"}
    BY DEF ProcState
  <2> QED
    BY <2>1, <2>2, <2>3, <2>6, <2>7, <2>8, ChangesKept
<1>7. CASE Value(r)
  <2>1. /\ cur = "DEFVALUE" /\ r.tok = "DEFVALUE" /\ states' = Front(states)
        /\ lexs' = r.lexs /\ status' = status
        /\ defRefs' = defRefs /\ joins' = joins
    BY <1>7 DEF Value, statePop, Took, TookWith, TookLex, Fine
  <2>2. lexs' = Bare /\ defRefs' = <<>>
    BY <2>1, StartKept, Waiting DEF ArgStates
  <2>3. Len(joins') = Len(joins) - Joins(cur)
    <3>1. Joins(cur) = 0 /\ Len(joins) \in Nat
      BY <2>1 DEF Joins, InStep, Typed
    <3> QED
      BY <2>1, <3>1
  <2> QED
    BY <1>1, <2>1, <2>2, <2>3, LeavesKept
<1>8. CASE BadValue(r)
  <2>1. cur = "DEFVALUE" /\ r.tok # "DEFVALUE" /\ r.tok \notin {"COMMENT", "WHITE"}
    BY <1>8 DEF BadValue, IsCommon
  <2> QED
    BY <2>1, TokenShape DEF InStep
<1> QED
  BY <1>2, <1>3, <1>4, <1>5, <1>6, <1>7, <1>8 DEF InDefine

LEMMA InArgsKept ==
  ASSUME InStep, NEW r \in RawTokens, InArgs(r)
  PROVE  Kept
<1>1. status = "run"
  BY DEF InStep
<1>2. /\ \A c \in ArgStates : c \in ProcState \ {"JOIN"} /\ c \notin {"TOP", "JOIN"}
      /\ \A c \in ArgStates : LexsFor(c) = {Over("ARGMODE")} /\ Refs(c) = 1
      /\ "DEFARG" \in ArgStates /\ "DEFPAREN" \in ArgStates
      /\ "ARGMODE" \in LexState
  BY DEF ArgStates, ProcState, LexsFor, Refs, LexState
<1>3. CASE ParenOpen(r)
  <2>1. /\ cur = "DEFPAREN" /\ r.tok = "OPEN" /\ lexs' = r.lexs
        /\ states' = Append(Front(states), "DEFARG") /\ status' = status
    BY <1>3 DEF ParenOpen, stateChange, Took, TookWith, TookLex, Fine
  <2>2. defRefs' = defRefs /\ joins' = joins
    BY <1>3 DEF ParenOpen, macroVars
  <2>3. lexs' \in LexsFor(cur)
    BY <2>1, StartKept DEF Leaving
  <2>4. lexs' \in LexsFor("DEFARG") /\ Refs("DEFARG") = Refs(cur)
    BY <1>2, <2>1, <2>3
  <2> QED
    BY <1>1, <1>2, <2>1, <2>2, <2>4, ChangesKept
<1>4. CASE ParenMissing(r)
  <2>1. cur \in ArgStates
    BY <1>4 DEF ParenMissing, ArgStates
  <2>2. defRefs # <<>>
    BY <2>1, Waiting
  <2> QED
    BY <1>4, <2>2, Reported DEF ParenMissing, Complains
<1>5. CASE ArgWithoutRef(r)
  BY <1>2, <1>5, Waiting DEF ArgWithoutRef
<1>6. CASE ArgComma(r)
  <2>1. /\ cur = "DEFARG" /\ r.tok = "COMMA" /\ lexs' = Append(r.lexs, "ARGMODE")
        /\ states' = Append(Front(states), "DEFARG") /\ status' = status
    BY <1>6 DEF ArgComma, stateChange, TookAndPushed, Fine
  <2>2. defRefs' = defRefs /\ joins' = joins
    BY <1>6 DEF ArgComma, macroVars
  <2>3. r.lexs = Bare
    BY <2>1, StartKept
  <2>4. lexs' \in LexsFor("DEFARG") /\ Refs("DEFARG") = Refs(cur)
    BY <1>2, <2>1, <2>3, Pairs
  <2> QED
    BY <1>1, <1>2, <2>1, <2>2, <2>4, ChangesKept
<1>7. CASE ArgClose(r)
  <2>1. /\ cur = "DEFARG" /\ r.tok = "CLOSE" /\ lexs' = r.lexs
        /\ states' = Front(states) /\ defRefs' = Front(defRefs) /\ joins' = joins
    BY <1>7 DEF ArgClose, statePop
  <2>2. status' # "fatal"
    BY <1>1, <1>7 DEF ArgClose, Fine, Complains
  <2>3. lexs' = Bare
    BY <2>1, StartKept
  <2>4. defRefs' = <<>>
    BY <1>2, <2>1, Waiting
  <2>5. Len(joins') = Len(joins) - Joins(cur)
    <3>1. Joins(cur) = 0 /\ Len(joins) \in Nat
      BY <2>1 DEF Joins, InStep, Typed
    <3> QED
      BY <2>1, <3>1
  <2>6. cur # "TOP"
    BY <2>1
  <2> QED
    BY <2>1, <2>2, <2>3, <2>4, <2>5, <2>6, LeavesKept
<1>8. CASE ArgText(r)
  <2>1. /\ cur = "DEFARG" /\ r.tok \notin {"COMMA", "CLOSE"} /\ lexs' = r.lexs
        /\ states' = states /\ status' = status
    BY <1>8 DEF ArgText, Took, TookWith, TookLex, Fine
  <2>2. defRefs' = defRefs /\ joins' = joins
    BY <1>8 DEF ArgText, macroVars
  <2>3. r.tok \notin Leaving
    BY <2>1, StartKept DEF Leaving
  <2> QED
    BY <1>1, <2>1, <2>2, <2>3, StaysKept
<1> QED
  BY <1>3, <1>4, <1>5, <1>6, <1>7, <1>8 DEF InArgs

LEMMA InNameKept ==
  ASSUME InStep, NEW r \in RawTokens, InName(r)
  PROVE  Kept
<1>1. status = "run"
  BY DEF InStep
<1>2. "INCNAME" \notin ModeStates /\ "JOIN" \notin ModeStates \cup {"INCNAME"}
      /\ "INCNAME" \notin ArgStates /\ "JOIN" \notin ArgStates
  BY DEF ModeStates, ArgStates
<1>3. Len(joins) \in Nat /\ joins \in Seq({"SYMBOL", "DEFREF"})
  BY DEF InStep, Typed
<1>4. CASE IncString(r)
  <2>1. /\ cur = "INCNAME" /\ r.tok = "STRING" /\ lexs' = r.lexs
        /\ states' = Front(states)
    BY <1>4 DEF IncString, statePop, TookLex
  <2>2. defRefs' = defRefs /\ joins' = joins
    BY <1>4 DEF IncString, macroVars
  <2>3. status' # "fatal"
    BY <1>1, <1>4 DEF IncString, Fine, Complains
  <2>4. lexs' = Bare /\ defRefs' = <<>>
    BY <1>2, <2>1, <2>2, StartKept, Waiting
  <2>5. Len(joins') = Len(joins) - Joins(cur)
    <3>1. Joins(cur) = 0
      BY <2>1 DEF Joins
    <3> QED
      BY <1>3, <2>2, <3>1
  <2>6. cur # "TOP"
    BY <2>1
  <2> QED
    BY <2>1, <2>3, <2>4, <2>5, <2>6, LeavesKept
<1>5. CASE IncAngle(r)
  <2>1. /\ cur = "INCNAME" /\ r.tok = "LESS" /\ lexs' = Append(r.lexs, "INCMODE")
        /\ states' = Append(Front(states), "INCNAME") /\ status' = status
    BY <1>5 DEF IncAngle, stateChange, TookAndPushed, Fine
  <2>2. defRefs' = defRefs /\ joins' = joins
    BY <1>5 DEF IncAngle, macroVars
  <2>3. r.lexs = Bare
    BY <1>2, <2>1, StartKept
  <2>4. "INCMODE" \in LexState /\ Over("INCMODE") \in LexsFor("INCNAME")
    BY DEF LexState, LexsFor, ArgStates
  <2>5. lexs' \in LexsFor("INCNAME")
    BY <2>1, <2>3, <2>4, Pairs
  <2>6. "INCNAME" \in ProcState \ {"JOIN"} /\ cur \notin {"TOP", "JOIN"}
        /\ Refs("INCNAME") = Refs(cur)
    BY <2>1 DEF ProcState
  <2> QED
    BY <1>1, <2>1, <2>2, <2>5, <2>6, ChangesKept
<1>6. CASE IncError(r) \/ JoinError(r) \/ StrifyEof(r)
  BY <1>6, Reported DEF IncError, JoinError, StrifyEof, Complains
<1>7. CASE ErrorName(r) \/ StrifyEnd(r)
  <2>1. /\ cur \in {"ERRORNAME", "STRIFY"} /\ states' = Front(states) /\ lexs' = r.lexs
    BY <1>7 DEF ErrorName, StrifyEnd, statePop, Took, TookWith, TookLex
  <2>2. defRefs' = defRefs /\ joins' = joins
    BY <1>7 DEF ErrorName, StrifyEnd, macroVars
  <2>3. status' # "fatal"
    BY <1>1, <1>7 DEF ErrorName, StrifyEnd, Fine, Complains
  <2> QED
    BY <2>1, <2>2, <2>3, NameKept
<1>8. CASE JoinRight(r)
  <2>1. cur = "JOIN"
    BY <1>8 DEF JoinRight
  <2>2. Len(joins) >= 1
    BY <2>1, JoinsMove DEF InStep, Shape, JoinStates
  <2>3. joins # <<>>
    <3>1. Len(<<>>) = 0
      OBVIOUS
    <3> QED
      BY <2>2, <3>1
  <2>4. /\ joins' = Front(joins) /\ lexs' = r.lexs /\ states' = Front(states)
        /\ defRefs' = defRefs /\ status' = status
    BY <1>8, <2>3 DEF JoinRight, statePop, TookWith, TookLex, Fine
  <2>5. Len(Front(joins)) = Len(joins) - 1
    BY <1>3, <2>3, FrontLast
  <2>6. lexs' = Bare /\ defRefs' = <<>>
    BY <1>2, <2>1, <2>4, StartKept, Waiting
  <2>7. Len(joins') = Len(joins) - Joins(cur)
    BY <2>1, <2>4, <2>5 DEF Joins
  <2>8. cur # "TOP"
    BY <2>1
  <2> QED
    BY <1>1, <2>4, <2>6, <2>7, <2>8, LeavesKept
<1>9. CASE StrifyText(r)
  <2>1. /\ cur = "STRIFY" /\ lexs' = r.lexs /\ states' = states /\ status' = status
    BY <1>9 DEF StrifyText, Took, TookWith, TookLex, Fine
  <2>2. defRefs' = defRefs /\ joins' = joins
    BY <1>9 DEF StrifyText, macroVars
  <2>3. r.tok \notin Leaving
    BY <2>1, StartKept DEF Leaving, ArgStates
  <2> QED
    BY <1>1, <2>1, <2>2, <2>3, StaysKept
<1> QED
  BY <1>4, <1>5, <1>6, <1>7, <1>8, <1>9 DEF InName

(* The second switch is not reached from a start state of its own. *)
LEMMA ExpandingTop ==
  ASSUME InStep, NEW r \in RawTokens, Expanding(r)
  PROVE  /\ cur \notin ModeStates /\ r.tok \notin Leaving /\ defRefs = <<>>
         /\ r.tok \notin {"TEXT", "WHITE"} => r.lexs = Bare
<1>1. IsDefref(r) => r.tok \in {"DEFREF", "DEFREF_JOIN"}
  BY DEF IsDefref, JoinsAfter
<1>2. cur \notin ModeStates
  <2>1. cur \notin {"DEFPAREN", "DEFFORM", "DEFVALUE"}
    BY DEF Expanding, DefNames, IfNames
  <2>2. ASSUME cur = "DEFARG" PROVE FALSE
    <3>1. r.tok \in {"DEFREF", "DEFREF_JOIN"} /\ cur \in ArgStates
      BY <1>1, <2>2 DEF Expanding, DefNames, IfNames, ArgStates
    <3> QED
      BY <3>1, TokenShape DEF InStep
  <2> QED
    BY <2>1, <2>2 DEF ModeStates, ArgStates
<1>3. cur \notin ArgStates
  BY <1>2 DEF ModeStates
<1>4. r.tok \notin Leaving
  BY <1>2, StartKept DEF Leaving, ModeStates, ArgStates
<1> QED
  BY <1>2, <1>3, <1>4, StartKept, Waiting

LEMMA TopLevelKept ==
  ASSUME InStep, NEW r \in RawTokens, TopLevel(r)
  PROVE  Kept
<1>1. status = "run" /\ Len(joins) \in Nat
  BY DEF InStep, Typed
<1>2. Expanding(r)
  BY DEF TopLevel, Include, Directive, ElseOrEndif, RefTooDeep, RefUndefined,
    RefSimple, RefParams, Referring, Eof, UndefineAll, TopText, Unexpected
<1>3. /\ cur \notin ModeStates /\ r.tok \notin Leaving /\ defRefs = <<>>
      /\ r.tok \notin {"TEXT", "WHITE"} => r.lexs = Bare
  BY <1>2, ExpandingTop
<1>4. CASE ElseOrEndif(r) \/ Eof(r) \/ UndefineAll(r) \/ TopText(r)
  <2>1. lexs' = r.lexs /\ states' = states
    BY <1>4 DEF ElseOrEndif, Eof, UndefineAll, TopText, Took, TookWith, TookLex
  <2>2. defRefs' = defRefs /\ joins' = joins
    BY <1>4 DEF ElseOrEndif, Eof, UndefineAll, TopText, macroVars
  <2>3. status' # "fatal"
    BY <1>1, <1>4 DEF ElseOrEndif, Eof, UndefineAll, TopText, Fine, Complains
  <2> QED
    BY <1>3, <2>1, <2>2, <2>3, StaysKept
<1>5. CASE RefUndefined(r) \/ RefSimple(r)
  <2>1. /\ lexs' = r.lexs /\ states' = states /\ defRefs' = defRefs
        /\ joins' = joins /\ status' = status
    BY <1>5 DEF RefUndefined, RefSimple, TookLex, Fine
  <2> QED
    BY <1>1, <1>3, <2>1, StaysKept
<1>6. CASE RefTooDeep(r)
  BY <1>6, Reported DEF RefTooDeep, Complains
<1>7. CASE Include(r)
  <2>1. /\ r.tok = "INCLUDE" /\ lexs' = r.lexs /\ status' = status
        /\ states' = states \/ states' = Append(states, "INCNAME")
    BY <1>7 DEF Include, statePush, Took, TookWith, TookLex, Fine
  <2>2. defRefs' = defRefs /\ joins' = joins
    BY <1>7 DEF Include, macroVars
  <2>3. lexs' = Bare
    BY <1>3, <2>1
  <2>4. "INCNAME" \in ProcState \ ModeStates /\ Joins("INCNAME") = 0
    BY DEF ProcState, ModeStates, ArgStates, Joins
  <2>5. Len(joins') = Len(joins) + Joins("INCNAME")
    BY <1>1, <2>2, <2>4
  <2>6. CASE states' = states
    BY <1>1, <1>3, <2>1, <2>2, <2>6, StaysKept
  <2>7. CASE states' = Append(states, "INCNAME")
    BY <1>1, <1>3, <2>1, <2>2, <2>3, <2>4, <2>5, <2>7, EntersKept
  <2> QED
    BY <2>1, <2>6, <2>7
<1>8. CASE Directive(r)
  <2> DEFINE s == StateOf(r.tok)
  <2>1. /\ r.tok \in PushingDirectives \cup {"STRIFY"} /\ lexs' = r.lexs
        /\ status' = status /\ states' = Append(states, s)
    BY <1>8 DEF Directive, statePush, Took, TookWith, TookLex, Fine
  <2>2. defRefs' = defRefs /\ joins' = joins
    BY <1>8 DEF Directive, macroVars
  <2>3. s \in DefNames \cup {"ERRORNAME", "STRIFY"}
    BY <2>1 DEF StateOf, PushingDirectives, DefNames, IfNames
  <2>4. s \in ProcState \ ModeStates /\ s # "JOIN"
    BY <2>3 DEF ProcState, ModeStates, ArgStates, DefNames, IfNames
  <2>5. lexs' = Bare
    BY <1>3, <2>1 DEF PushingDirectives
  <2> HIDE DEF s
  <2>6. Len(joins') = Len(joins) + Joins(s)
    <3>1. Joins(s) = 0
      BY <2>4 DEF Joins
    <3> QED
      BY <1>1, <2>2, <3>1
  <2> QED
    BY <1>1, <1>3, <2>1, <2>2, <2>4, <2>5, <2>6, EntersKept
<1>9. CASE RefParams(r)
  <2>1. /\ IsDefref(r) /\ lexs' = Append(r.lexs, "ARGMODE") /\ status' = status
        /\ states' = Append(states, "DEFPAREN") /\ joins' = joins
    BY <1>9 DEF RefParams, Referring, statePush, Fine
  <2>2. defRefs' = <<0>>
    BY <1>3, <1>9 DEF RefParams
  <2>3. r.lexs = Bare
    BY <1>3, <2>1 DEF IsDefref, JoinsAfter
  <2>4. "ARGMODE" \in LexState /\ Over("ARGMODE") \in LexsFor("DEFPAREN")
        /\ Refs("DEFPAREN") = 1 /\ Joins("DEFPAREN") = 0 /\ "DEFPAREN" \in ProcState
    BY DEF LexState, LexsFor, ArgStates, Refs, Joins, ProcState
  <2>5. lexs' \in LexsFor("DEFPAREN")
    BY <2>1, <2>3, <2>4, Pairs
  <2>6. Len(defRefs') = Refs("DEFPAREN")
    BY <2>2, <2>4
  <2>7. Len(joins') = Len(joins) + Joins("DEFPAREN")
    BY <1>1, <2>1, <2>4
  <2>8. Shape'
    BY <1>3, <2>1, <2>4, <2>5, <2>6, <2>7, PushedShape DEF InStep
  <2> QED
    BY <1>1, <2>1, <2>8 DEF Kept, FatalOnlyAfterError
<1>10. CASE Unexpected(r)
  BY <1>3, <1>10 DEF Unexpected, Leaving
<1> QED
  BY <1>4, <1>5, <1>6, <1>7, <1>8, <1>9, <1>10 DEF TopLevel

-----------------------------------------------------------------------------
(* The invariant, and what it says of the code.                            *)
LEMMA InitStack == Init => StackInv
<1> SUFFICES ASSUME Init PROVE StackInv
  OBVIOUS
<1>1. Typed
  BY InitTyped
<1>2. states = <<"TOP">> /\ lexs = Bare /\ defRefs = <<>> /\ joins = <<>>
      /\ status = "run"
  BY DEF Init, Bare
<1>3. cur = "TOP"
  BY <1>2 DEF cur, Last
<1>4. Where(states, {"JOIN"}) = {}
  BY <1>2 DEF Where
<1>5. CountIn(states, {"JOIN"}) = 0
  BY <1>4, FS_EmptySet DEF CountIn, Where
<1>6. lexs \in LexsFor(cur) /\ Refs(cur) = 0
  BY <1>2, <1>3 DEF LexsFor, Refs, ArgStates
<1>7. Shape
  BY <1>2, <1>5, <1>6 DEF Shape
<1> QED
  BY <1>1, <1>2, <1>7 DEF StackInv, FatalOnlyAfterError

LEMMA StackStep == StackInv /\ [Next]_vars => StackInv'
<1> SUFFICES ASSUME StackInv, [Next]_vars PROVE StackInv'
  OBVIOUS
<1>1. Typed'
  BY NextTyped DEF StackInv
<1>2. Kept
  <2>1. CASE UNCHANGED vars
    <3>1. /\ errs' = errs /\ status' = status /\ states' = states /\ lexs' = lexs
          /\ defRefs' = defRefs /\ joins' = joins
      BY <2>1 DEF vars, macroVars, lexVars
    <3> QED
      BY <3>1 DEF StackInv, Kept, Shape, FatalOnlyAfterError, cur
  <2>2. CASE Next /\ ~ errs
    <3>1. InStep
      BY <2>2 DEF Next, InStep, StackInv
    <3>2. ASSUME NEW r \in RawTokens,
                 Common(r) \/ InDefine(r) \/ InArgs(r) \/ InName(r) \/ TopLevel(r)
          PROVE  Kept
      BY <3>1, <3>2, CommonKept, InDefineKept, InArgsKept, InNameKept, TopLevelKept
    <3>3. CASE LexError
      BY <3>3, Reported DEF LexError, Complains
    <3> QED
      BY <2>2, <3>2, <3>3 DEF Next, AtEof
  <2>3. CASE Next /\ errs
    <3>1. errs' = TRUE
      <4>1. ASSUME NEW r, Common(r) \/ InDefine(r) \/ InArgs(r) PROVE errs' = TRUE
        BY <2>3, <4>1 DEF Common, White, Comment, Line, JoinLeft, InDefine, IfName,
          ElsifName, UndefName, DefineName, NameText, NameError, Formals, Value,
          BadValue, InArgs, ParenOpen, ParenMissing, ArgWithoutRef, ArgComma,
          ArgClose, ArgText, Fine, FatalSrc, Complains
      <4>2. ASSUME NEW r, InName(r) PROVE errs' = TRUE
        BY <2>3, <4>2 DEF InName, IncString, IncAngle, IncError, ErrorName,
          JoinRight, JoinError, StrifyEnd, StrifyEof, StrifyText, Fine, FatalSrc,
          Complains
      <4>3. ASSUME NEW r, TopLevel(r) PROVE errs' = TRUE
        BY <2>3, <4>3 DEF TopLevel, Include, Directive, ElseOrEndif, RefTooDeep,
          RefUndefined, RefSimple, RefParams, Eof, UndefineAll, TopText,
          Unexpected, Fine, FatalSrc, Complains
      <4>4. LexError \/ AtEof => errs' = TRUE
        BY <2>3 DEF LexError, AtEof, Complains
      <4> QED
        BY <2>3, <4>1, <4>2, <4>3, <4>4 DEF Next
    <3> QED
      BY <3>1, Reported
  <2> QED
    BY <2>1, <2>2, <2>3
<1> QED
  BY <1>1, <1>2 DEF StackInv, Kept

LEMMA StackInvariance == Spec => []StackInv
  BY InitStack, StackStep, PTL DEF Spec

(* At most one state of the lexer's own is open, and it is the top one. *)
LEMMA OpenModes ==
  ASSUME Typed, Shape
  PROVE  \A T \in SUBSET ModeStates : CountIn(states, T) = IF cur \in T THEN 1 ELSE 0
<1> SUFFICES ASSUME NEW T \in SUBSET ModeStates
             PROVE  CountIn(states, T) = IF cur \in T THEN 1 ELSE 0
  OBVIOUS
<1>1. Len(states) \in Nat \ {0} /\ cur = states[Len(states)]
  BY TopOf DEF Typed, cur
<1>2. \A i \in 1 .. Len(states) - 1 : states[i] \notin T
  BY DEF Shape
<1>3. CountIn(states, T) = Cardinality(Where(states, T))
  BY DEF CountIn, Where
<1>4. CASE cur \in T
  <2>1. Where(states, T) = {Len(states)}
    BY <1>1, <1>2, <1>4 DEF Where
  <2>2. Cardinality({Len(states)}) = 1
    BY FS_Singleton
  <2> QED
    BY <1>3, <1>4, <2>1, <2>2
<1>5. CASE cur \notin T
  <2>1. Where(states, T) = {}
    BY <1>1, <1>2, <1>5 DEF Where
  <2> QED
    BY <1>3, <1>5, <2>1, FS_EmptySet
<1> QED
  BY <1>4, <1>5

(* The variables keep their types, whatever the text is and whether or not *)
(* errors were reported: neither m_states nor the lexer's stack is ever    *)
(* emptied by statePop or yy_pop_state.                                    *)
THEOREM StateTyped == Spec => []TypeOK
<1>1. Typed /\ Inv => TypeOK
  <2> SUFFICES ASSUME Typed, Inv PROVE TypeOK
    OBVIOUS
  <2>1. IfTypeOK
    BY DEF Inv, IfInv
  <2>2. states \in Seq(ProcState) /\ lexs \in Seq(LexState)
        /\ states # <<>> /\ lexs # <<>>
    BY DEF Typed, GoodStack
  <2> QED
    BY <2>1, <2>2 DEF Typed, TypeOK, Pushes
<1> QED
  BY <1>1, TypedAlways, Invariance, PTL

(* Until an error is reported the lexer is in the start state that         *)
(* m_states.top() calls for: the pushes of pushStateDefArg and its         *)
(* siblings are matched by the yy_pop_state of VPreLex.l.                  *)
THEOREM StacksKept == Spec => []StacksInStep
<1>1. StackInv => StacksInStep
  <2> SUFFICES ASSUME StackInv, ~ errs PROVE StacksInStep
    BY DEF StacksInStep, StackInv
  <2>1. Typed /\ Shape
    BY DEF StackInv
  <2>2. lexs \in LexsFor(cur)
    BY <2>1 DEF Shape
  <2> DEFINE T == {"DEFPAREN", "DEFARG", "DEFFORM", "DEFVALUE"}
  <2>3. T = ModeStates /\ T \in SUBSET ModeStates
    BY DEF ModeStates, ArgStates
  <2>4. CountIn(states, T) = IF cur \in ModeStates THEN 1 ELSE 0
    BY <2>1, <2>3, OpenModes
  <2> HIDE DEF T
  <2>5. CASE cur \in ArgStates
    <3>1. lexs = Over("ARGMODE")
      BY <2>2, <2>5 DEF LexsFor, ArgStates
    <3>2. mode = "ARGMODE" /\ Len(lexs) = 2
      BY <3>1, Pairs DEF mode, LexState, Over
    <3>3. CountIn(states, T) = 1
      BY <2>4, <2>5 DEF ModeStates
    <3> QED
      BY <2>5, <3>2, <3>3 DEF StacksInStep, ArgStates, T
  <2>6. CASE cur = "DEFFORM"
    <3>1. lexs = Over("DEFFPAR") \/ lexs = Over("DEFFORM")
      BY <2>2, <2>6 DEF LexsFor, ArgStates
    <3>2. mode \in {"DEFFPAR", "DEFFORM"} /\ Len(lexs) = 2
      BY <3>1, Pairs DEF mode, LexState, Over
    <3>3. CountIn(states, T) = 1
      BY <2>4, <2>6 DEF ModeStates
    <3> QED
      BY <2>6, <3>2, <3>3 DEF StacksInStep, T
  <2>7. CASE cur = "DEFVALUE"
    <3>1. lexs = Over("DEFVAL")
      BY <2>2, <2>7 DEF LexsFor, ArgStates
    <3>2. mode = "DEFVAL" /\ Len(lexs) = 2
      BY <3>1, Pairs DEF mode, LexState, Over
    <3>3. CountIn(states, T) = 1
      BY <2>4, <2>7 DEF ModeStates
    <3> QED
      BY <2>7, <3>2, <3>3 DEF StacksInStep, T
  <2>8. CASE cur \notin ModeStates
    <3>1. lexs = Bare \/ (cur = "INCNAME" /\ lexs = Over("INCMODE"))
      BY <2>2, <2>8 DEF LexsFor, ArgStates, ModeStates
    <3>2. \/ mode = "INITIAL" /\ Len(lexs) = 1
          \/ cur = "INCNAME" /\ mode = "INCMODE" /\ Len(lexs) = 2
      BY <3>1, Pairs DEF mode, LexState, Over, Bare
    <3>3. CountIn(states, T) = 0
      BY <2>4, <2>8
    <3>4. cur \notin {"DEFPAREN", "DEFARG", "DEFFORM", "DEFVALUE"}
      BY <2>8 DEF ModeStates, ArgStates
    <3>5. cur # "DEFFORM" /\ cur # "DEFVALUE"
      BY <3>4
    <3>6. CASE mode = "INITIAL" /\ Len(lexs) = 1
      BY <3>3, <3>4, <3>5, <3>6 DEF StacksInStep, T
    <3>7. CASE cur = "INCNAME" /\ mode = "INCMODE" /\ Len(lexs) = 2
      BY <3>3, <3>4, <3>5, <3>7 DEF StacksInStep, T
    <3> QED
      BY <3>2, <3>6, <3>7
  <2> QED
    BY <2>5, <2>6, <2>7, <2>8 DEF ModeStates
<1> QED
  BY <1>1, StackInvariance, PTL

(* m_defRefs holds one entry per open reference and m_joinStack one per    *)
(* open ``, and a macro reference never waits on another one's arguments   *)
(* (ARGMODE swallows the ` of an inner one), until an error is reported.   *)
THEOREM PendingKept == Spec => []PendingMatchesStates
<1>1. StackInv => PendingMatchesStates
  <2> SUFFICES ASSUME StackInv, ~ errs PROVE PendingMatchesStates
    BY DEF PendingMatchesStates
  <2>1. Typed /\ Shape
    BY DEF StackInv
  <2>2. ArgStates \in SUBSET ModeStates
    BY DEF ModeStates
  <2>3. CountIn(states, ArgStates) = IF cur \in ArgStates THEN 1 ELSE 0
    BY <2>1, <2>2, OpenModes
  <2>4. Len(defRefs) = Refs(cur) /\ Len(joins) = CountIn(states, {"JOIN"})
    BY <2>1 DEF Shape
  <2>5. Len(defRefs) = CountIn(states, ArgStates) /\ Len(defRefs) <= 1
    BY <2>3, <2>4 DEF Refs
  <2> QED
    BY <2>4, <2>5 DEF PendingMatchesStates, ArgStates
<1> QED
  BY <1>1, StackInvariance, PTL

(* No fatalSrc of getStateToken ("Bad define text", "Shouldn't be in       *)
(* DEFARG w/o active defref", "`` join stack empty", "Unexpected token")   *)
(* is reached by text for which no error was reported first.               *)
THEOREM NoInternalCheckFires == Spec => []FatalOnlyAfterError
<1>1. StackInv => FatalOnlyAfterError
  BY DEF StackInv
<1> QED
  BY <1>1, StackInvariance, PTL
=============================================================================
