----------------------------- MODULE StateToken -----------------------------
(***************************************************************************)
(* VPreProcImp::getStateToken (Preproc/VPreProc.cpp): the state machine    *)
(* that turns raw lexer tokens into preprocessed ones.  One step is one    *)
(* turn of its `while (1)' loop: a raw token is taken (getRawToken) and    *)
(* the handler chosen by m_states.top() and the token runs to its          *)
(* `goto next_tok' or `return'.                                            *)
(*                                                                         *)
(* The parser's stack of states and flex's stack of start states are two   *)
(* stacks kept in step by hand: pushStateDefArg and its siblings push the  *)
(* lexer, rules of VPreLex.l pop it, statePush / statePop move the parser. *)
(* The text is abstract: any token that the lexer can return in its        *)
(* present start state may come next.  Macro bodies, once pushed back, are *)
(* such text again; how they are pushed back is module Streams.            *)
(***************************************************************************)
EXTENDS IfdefStack

CONSTANTS
  Names,          \* identifiers that the text uses as macro names
  NoName,         \* the empty string
  KeepComments,   \* keep_comments is 1 (FALSE: 0 or 'sub', comments go)
  LineDirectives, \* line_directives: `line comments are inserted
  ErrorReturns,   \* error() is overridden and returns; else it croaks
  DefineMax,      \* DEFINE_RECURSION_LEVEL_MAX
  MaxStates,      \* bound: depth of the parser's and lexer's stacks
  MaxRefs,        \* bound: macro references pending at once
  MaxParen        \* bound: level of brackets inside macro arguments

ASSUME StateTokenAssumption ==
  /\ NoName \notin Names
  /\ {KeepComments, LineDirectives, ErrorReturns} \subseteq BOOLEAN
  /\ {DefineMax, MaxStates, MaxRefs, MaxParen} \subseteq Nat

VARIABLES
  states,      \* m_states, top last
  defs,        \* what def_params answers for each name (Getopt's table)
  lastSym,     \* m_lastSym
  defRefs,     \* m_defRefs: the saved parenLevel of each pending reference
  joins,       \* m_joinStack: what each left-hand side is, top last
  defDepth,    \* m_defDepth, saturated just above DefineMax + 1
  defPutJoin,  \* m_defPutJoin
  lexs,        \* flex's start states, the current one last
  parenLevel,  \* m_lexp->m_parenLevel
  lineCmt,     \* m_lineCmt is not empty
  pushed,      \* what text just pushed back by `` or `" begins with
  status,      \* "run", or how the run ended
  errs,        \* error() was called at some time
  effect       \* what the last step did to the outside

macroVars == <<defs, lastSym, defRefs, joins, defDepth>>
lexVars   == <<lexs, parenLevel, lineCmt, pushed, defPutJoin>>
vars == <<ifVars, states, macroVars, lexVars, status, errs, effect>>

IfNames  == {"DEFNAME_IFDEF", "DEFNAME_IFNDEF"}
DefNames == IfNames \cup {"DEFNAME_UNDEF", "DEFNAME_DEFINE", "DEFNAME_ELSIF"}
ProcState ==
  DefNames \cup {"TOP", "DEFFORM", "DEFVALUE", "DEFPAREN", "DEFARG",
                 "INCNAME", "ERRORNAME", "JOIN", "STRIFY"}
LexState == {"INITIAL", "ARGMODE", "DEFFPAR", "DEFFORM", "DEFVAL", "INCMODE"}
Params   == {"none", "0", "params"}
Effects  == {"none", "white", "text", "define", "undef", "include", "eof"}

ParenLevels == -1 .. MaxParen

cur  == Last(states)
mode == Last(lexs)
Exists(n) == defs[n] # "none"
-----------------------------------------------------------------------------
(* Raw tokens: the lexer's rules, by start state.  A record holds the      *)
(* token and the lexer as the rule leaves it.                              *)

Raw(t, n, lx, pl) ==
  [tok |-> t, name |-> n, lexs |-> lx, paren |-> pl,
   cmt |-> FALSE, pushed |-> "none"]
Plain(t) == Raw(t, NoName, lexs, parenLevel)

(* "OPEN" and "LESS" are the VP_TEXT tokens ( and <; "COMMA" and "CLOSE"   *)
(* are VP_DEFARG.                                                          *)
TextTokens == {"TEXT", "OPEN", "LESS"}
PushingDirectives == {"UNDEF", "DEFINE", "IFDEF", "IFNDEF", "ELSIF", "ERROR"}

(* A string in quotes is swallowed into m_defValue while m_parenLevel is   *)
(* not zero, but `__FILE__ is a string too.                                *)
InitialTokens ==
  {Plain(t) : t \in PushingDirectives \cup TextTokens \cup
     {"ELSE", "ENDIF", "INCLUDE", "UNDEFINEALL", "LINE", "STRIFY",
      "BACKQUOTE", "COMMENT", "WHITE", "SYMBOL_JOIN", "STRING", "EOF"}}
  \cup {Raw(t, n, lexs, parenLevel) :
          t \in {"SYMBOL", "DEFREF", "DEFREF_JOIN"}, n \in Names}

(* Brackets and text go to m_defValue inside lex(): before the token that  *)
(* is returned the level may have come to any p.                           *)
ArgTokens ==
  LET Swallowed(t, p) == Raw(t, NoName, lexs, p)
      Leaving(t, p)   == Raw(t, NoName, Front(lexs), p)
  IN  {Swallowed(t, p) : t \in {"COMMENT", "WHITE", "STRIFY"}, p \in ParenLevels}
      \cup {Swallowed("STRING", 0)}
      \cup {Swallowed("OPEN", p + 1)  : p \in {q \in ParenLevels : q + 1 <= 1}}
      \cup {Leaving("CLOSE", p - 1)   : p \in {q \in ParenLevels : q - 1 <= 0}}
      \cup {Leaving("COMMA", p)       : p \in {q \in ParenLevels : q <= 1}}

Rebegun(m) == Append(Front(lexs), m)   \* BEGIN(m)

DefineTokens ==
  CASE mode = "DEFFPAR" -> {Raw("DEFFORM", NoName, Front(lexs), parenLevel),
                            Raw("COMMENT", NoName, Rebegun("DEFFORM"), parenLevel)}
    [] mode = "DEFFORM" -> {Raw("DEFFORM", NoName, Front(lexs), parenLevel),
                            Plain("COMMENT"), Plain("WHITE")}
    [] mode = "DEFVAL"  -> {Raw("DEFVALUE", NoName, Front(lexs), parenLevel),
                            Plain("COMMENT"), Plain("WHITE")}

Lexed ==
  CASE mode = "INITIAL" -> InitialTokens
    [] mode = "ARGMODE" -> ArgTokens
    [] mode = "INCMODE" -> {Raw("STRING", NoName, Front(lexs), parenLevel)}
    [] OTHER            -> DefineTokens

(* Text pushed back by `` or `" is what the lexer reads next.  A joined     *)
(* `name may turn out to be a directive.                                   *)
Begins(t) ==
  CASE pushed = "none"   -> TRUE
    [] pushed = "STRING" -> t = "STRING"
    [] pushed = "SYMBOL" -> t \in {"SYMBOL", "SYMBOL_JOIN"}
    [] pushed = "DEFREF" -> t \in PushingDirectives \cup
         {"ELSE", "ENDIF", "INCLUDE", "UNDEFINEALL", "DEFREF", "DEFREF_JOIN"}

(* getRawToken: newlines owed from a comment first, then m_lineCmt as      *)
(* VP_TEXT (appended to the value while a `define's value is read), then   *)
(* the lexer.  In a start state other than INITIAL the end of the input is *)
(* an error of the lexer before it is a VP_EOF.                            *)
OwesLineCmt == lineCmt /\ cur # "DEFVALUE"
RawTokens ==
  IF OwesLineCmt
  THEN {[Plain("TEXT") EXCEPT !.pushed = pushed],
        [Plain("WHITE") EXCEPT !.cmt = TRUE, !.pushed = pushed]}
  ELSE {r \in Lexed : Begins(r.tok)} \cup (IF errs THEN {Plain("EOF")} ELSE {})

(* VP_DEFREF_JOIN of a defined name is VP_DEFREF with m_defPutJoin set, of *)
(* another one a VP_SYMBOL_JOIN.  A ` outside stringification is text.     *)
JoinsAfter(r) == r.tok = "DEFREF_JOIN" /\ Exists(r.name)
IsDefref(r) == r.tok = "DEFREF" \/ JoinsAfter(r)
IsJoin(r)   == r.tok \in {"SYMBOL_JOIN", "DEFREF_JOIN"} /\ ~ JoinsAfter(r)
IsText(r)   == r.tok \in TextTokens \/ (r.tok = "BACKQUOTE" /\ cur # "STRIFY")
PutJoin(r)  == defPutJoin \/ JoinsAfter(r)

(* Tokens that every state treats alike, before the switch on the state.   *)
IsCommon(r) ==
  \/ r.tok \in {"COMMENT", "LINE"}
  \/ r.tok = "WHITE" /\ cur # "STRIFY"
  \/ IsJoin(r)
-----------------------------------------------------------------------------
(* Frames and small steps. *)

TookLex(r) == lexs' = r.lexs /\ parenLevel' = r.paren
PutJoinKept(r) == defPutJoin' = PutJoin(r)
TookWith(r, next) ==
  TookLex(r) /\ lineCmt' = r.cmt /\ pushed' = next /\ PutJoinKept(r)
Took(r)  == TookWith(r, r.pushed)
TookAndPushed(r, m, level) ==
  /\ Len(r.lexs) < MaxStates
  /\ lexs' = Append(r.lexs, m)
  /\ parenLevel' = level
  /\ lineCmt' = r.cmt /\ pushed' = r.pushed
  /\ PutJoinKept(r)

statePush(s)   == Len(states) < MaxStates /\ states' = Append(states, s)
statePop       == states' = Front(states)
stateChange(s) == states' = Append(Front(states), s)

Fine(e)    == effect' = e /\ UNCHANGED <<errs, status>>
FatalSrc   == status' = "fatal" /\ effect' = "none" /\ UNCHANGED errs
(* error(): the handler croaks, unless it is overridden and returns. *)
Complains  ==
  /\ errs' = TRUE
  /\ effect' = "none"
  /\ status' = IF ErrorReturns THEN status ELSE "croaked"

MutEmitted(e) == e   \* mutant: m_off is not asked
Emitted(e) == IF off = 0 THEN e ELSE "none"   \* if (!m_off) ... return tok
-----------------------------------------------------------------------------
(* Common tokens. *)

White(r) ==
  /\ r.tok = "WHITE" /\ cur # "STRIFY"
  /\ Took(r) /\ Fine("white")
  /\ UNCHANGED <<ifVars, states, macroVars>>

(* A dropped comment leaves a blank, to be returned as text of its own. *)
Comment(r) ==
  /\ r.tok = "COMMENT"
  /\ TookLex(r) /\ PutJoinKept(r) /\ pushed' = r.pushed
  /\ lineCmt' = (r.cmt \/ (off = 0 /\ ~ KeepComments))
  /\ Fine(IF KeepComments THEN Emitted("text") ELSE "none")
  /\ UNCHANGED <<ifVars, states, macroVars>>

Line(r) ==
  /\ r.tok = "LINE"
  /\ TookLex(r) /\ PutJoinKept(r) /\ pushed' = r.pushed
  /\ lineCmt' = LineDirectives
  /\ Fine("none")
  /\ UNCHANGED <<ifVars, states, macroVars>>

JoinLeft(r) ==
  /\ IsJoin(r)
  /\ statePush("JOIN")
  /\ Len(joins) < MaxStates
  /\ joins' = Append(joins, IF r.tok = "SYMBOL_JOIN" THEN "SYMBOL" ELSE "DEFREF")
  /\ Took(r) /\ Fine("none")
  /\ UNCHANGED <<ifVars, defs, lastSym, defRefs, defDepth>>
-----------------------------------------------------------------------------
(* ps_DEFNAME_*, ps_DEFFORM, ps_DEFVALUE. *)

IfName(r) ==
  /\ cur \in IfNames /\ r.tok = "SYMBOL"
  /\ lastSym' = r.name
  /\ OpenIf(IF cur = "DEFNAME_IFDEF" THEN Exists(r.name) ELSE ~ Exists(r.name))
  /\ statePop
  /\ Took(r) /\ Fine("none")
  /\ UNCHANGED <<defs, defRefs, joins, defDepth>>

ElsifName(r) ==
  /\ cur = "DEFNAME_ELSIF" /\ r.tok = "SYMBOL"
  /\ lastSym' = r.name
  /\ \/ ElsifIf(Exists(r.name)) /\ Fine("none")
     \/ ifdefStack = <<>> /\ Complains /\ UNCHANGED ifVars
  /\ statePop
  /\ Took(r)
  /\ UNCHANGED <<defs, defRefs, joins, defDepth>>

UndefName(r) ==
  /\ cur = "DEFNAME_UNDEF" /\ r.tok = "SYMBOL"
  /\ lastSym' = r.name
  /\ defs' = IF off = 0 THEN [defs EXCEPT ![r.name] = "none"] ELSE defs
  /\ statePop
  /\ Took(r) /\ Fine(Emitted("undef"))
  /\ UNCHANGED <<ifVars, defRefs, joins, defDepth>>

DefineName(r) ==
  /\ cur = "DEFNAME_DEFINE" /\ r.tok = "SYMBOL"
  /\ lastSym' = r.name
  /\ stateChange("DEFFORM")
  /\ TookAndPushed(r, "DEFFPAR", 0) /\ Fine("none")
  /\ UNCHANGED <<ifVars, defs, defRefs, joins, defDepth>>

(* Text between the directive and its name, or within formals. *)
NameText(r) ==
  /\ cur \in DefNames \cup {"DEFFORM"} /\ IsText(r)
  /\ Took(r) /\ Fine(Emitted("text"))
  /\ UNCHANGED <<ifVars, states, macroVars>>

(* Anything else is an error and is skipped: the state stays. *)
NameError(r) ==
  /\ cur \in DefNames \cup {"DEFFORM"} /\ ~ IsText(r) /\ ~ IsCommon(r)
  /\ cur \in DefNames => r.tok # "SYMBOL" /\ ~ IsDefref(r)
  /\ cur = "DEFFORM" => r.tok # "DEFFORM"
  /\ Took(r) /\ Complains
  /\ UNCHANGED <<ifVars, states, macroVars>>

(* Mutant of Formals: pushStateDefValue is forgotten. *)
MutFormals(r) ==
  /\ cur = "DEFFORM" /\ r.tok = "DEFFORM"
  /\ stateChange("DEFVALUE")
  /\ Took(r)
  /\ Fine("none") \/ Complains
  /\ UNCHANGED <<ifVars, macroVars>>

(* Formals cut off by the end of the file are reported, then used. *)
Formals(r) ==
  /\ cur = "DEFFORM" /\ r.tok = "DEFFORM"
  /\ stateChange("DEFVALUE")
  /\ TookAndPushed(r, "DEFVAL", 0)
  /\ Fine("none") \/ Complains
  /\ UNCHANGED <<ifVars, macroVars>>

(* The definition, and the newline that ended it, which is returned. *)
Value(r) ==
  /\ cur = "DEFVALUE" /\ r.tok = "DEFVALUE"
  /\ \E params \in Params \ {"none"} :
       defs' = IF off = 0 THEN [defs EXCEPT ![lastSym] = params] ELSE defs
  /\ statePop
  /\ Took(r) /\ Fine(IF off = 0 THEN "define" ELSE "white")
  /\ UNCHANGED <<ifVars, lastSym, defRefs, joins, defDepth>>

BadValue(r) ==
  /\ cur = "DEFVALUE" /\ r.tok # "DEFVALUE" /\ ~ IsCommon(r)
  /\ Took(r) /\ FatalSrc
  /\ UNCHANGED <<ifVars, states, macroVars>>
-----------------------------------------------------------------------------
(* ps_DEFPAREN, ps_DEFARG: the arguments of a macro reference. *)

ParenOpen(r) ==
  /\ cur = "DEFPAREN" /\ r.tok = "OPEN"
  /\ stateChange("DEFARG")
  /\ Took(r) /\ Fine("none")
  /\ UNCHANGED <<ifVars, macroVars>>

(* The pending reference and the lexer's ARGMODE are left as they are. *)
ParenMissing(r) ==
  /\ cur = "DEFPAREN" /\ r.tok # "OPEN" /\ ~ IsCommon(r)
  /\ Took(r)
  /\ \/ defRefs = <<>> /\ FatalSrc /\ UNCHANGED states
     \/ defRefs # <<>> /\ Complains /\ statePop
  /\ UNCHANGED <<ifVars, macroVars>>

ArgWithoutRef(r) ==
  /\ cur = "DEFARG" /\ defRefs = <<>> /\ ~ IsCommon(r)
  /\ Took(r) /\ FatalSrc
  /\ UNCHANGED <<ifVars, states, macroVars>>

(* Mutant: the next argument is read without pushStateDefArg. *)
MutArgComma(r) ==
  /\ cur = "DEFARG" /\ defRefs # <<>> /\ r.tok = "COMMA"
  /\ stateChange("DEFARG")
  /\ Took(r) /\ Fine("none")
  /\ UNCHANGED <<ifVars, macroVars>>

ArgComma(r) ==
  /\ cur = "DEFARG" /\ defRefs # <<>> /\ r.tok = "COMMA"
  /\ stateChange("DEFARG")
  /\ TookAndPushed(r, "ARGMODE", 1) /\ Fine("none")
  /\ UNCHANGED <<ifVars, macroVars>>

(* The reference is complete.  defineSubst, called when not m_off, may     *)
(* find too few or too many arguments.  Under another reference the text   *)
(* becomes part of that one's argument, else it is pushed back.            *)
ArgClose(r) ==
  /\ cur = "DEFARG" /\ defRefs # <<>> /\ r.tok = "CLOSE"
  /\ defRefs' = Front(defRefs)
  /\ statePop
  /\ lexs' = r.lexs /\ lineCmt' = r.cmt /\ pushed' = r.pushed /\ PutJoinKept(r)
  /\ parenLevel' = IF defRefs' = <<>> THEN 0 ELSE Last(defRefs')
  /\ Fine("none") \/ (off = 0 /\ Complains)
  /\ UNCHANGED <<ifVars, defs, lastSym, joins, defDepth>>

(* `tok == VP_SYMBOL || tok == VP_STRING || VP_TEXT || ...' takes anything. *)
ArgText(r) ==
  /\ cur = "DEFARG" /\ defRefs # <<>> /\ ~ IsCommon(r) /\ ~ IsDefref(r)
  /\ r.tok \notin {"COMMA", "CLOSE"}
  /\ Took(r) /\ Fine("none")
  /\ UNCHANGED <<ifVars, states, macroVars>>
-----------------------------------------------------------------------------
(* ps_INCNAME, ps_ERRORNAME, ps_JOIN, ps_STRIFY. *)

(* include(): the file is opened, with a `line comment, or it is not, and  *)
(* that is an error unless include_open_nonfatal.                          *)
IncString(r) ==
  /\ cur = "INCNAME" /\ r.tok = "STRING"
  /\ statePop
  /\ TookLex(r) /\ PutJoinKept(r) /\ pushed' = r.pushed
  /\ \/ Fine("include") /\ lineCmt' = (r.cmt \/ LineDirectives)
     \/ (Complains \/ Fine("none")) /\ lineCmt' = r.cmt
  /\ UNCHANGED <<ifVars, macroVars>>

IncAngle(r) ==
  /\ cur = "INCNAME" /\ r.tok = "LESS"
  /\ stateChange("INCNAME")
  /\ TookAndPushed(r, "INCMODE", r.paren) /\ Fine("none")
  /\ UNCHANGED <<ifVars, macroVars>>

IncError(r) ==
  /\ cur = "INCNAME" /\ ~ IsCommon(r) /\ ~ IsDefref(r)
  /\ r.tok \notin {"STRING", "LESS", "STRIFY"}
  /\ statePop
  /\ Took(r) /\ Complains
  /\ UNCHANGED <<ifVars, macroVars>>

ErrorName(r) ==
  /\ cur = "ERRORNAME" /\ ~ IsCommon(r)
  /\ statePop
  /\ Took(r)
  /\ IF r.tok = "STRING" /\ off # 0 THEN Fine("none") ELSE Complains
  /\ UNCHANGED <<ifVars, macroVars>>

(* Mutant: the left-hand side is read but not popped. *)
MutJoinRight(r) ==
  /\ cur = "JOIN" /\ (r.tok = "SYMBOL" \/ IsText(r))
  /\ \/ joins = <<>> /\ Took(r) /\ FatalSrc /\ UNCHANGED states
     \/ /\ joins # <<>>
        /\ TookWith(r, Last(joins))
        /\ statePop /\ Fine("none")
  /\ UNCHANGED <<ifVars, macroVars>>

JoinRight(r) ==
  /\ cur = "JOIN" /\ (r.tok = "SYMBOL" \/ IsText(r))
  /\ \/ joins = <<>> /\ Took(r) /\ FatalSrc /\ UNCHANGED <<states, joins>>
     \/ /\ joins # <<>> /\ joins' = Front(joins)
        /\ TookWith(r, Last(joins))   \* lhs then rhs
        /\ statePop /\ Fine("none")
  /\ UNCHANGED <<ifVars, defs, lastSym, defRefs, defDepth>>

(* The left-hand side stays on m_joinStack. *)
JoinError(r) ==
  /\ cur = "JOIN" /\ r.tok \in {"EOF", "STRING"}
  /\ statePop
  /\ Took(r) /\ Complains
  /\ UNCHANGED <<ifVars, macroVars>>

StrifyEnd(r) ==
  /\ cur = "STRIFY" /\ r.tok = "STRIFY"
  /\ statePop
  /\ TookWith(r, "STRING") /\ Fine("none")
  /\ UNCHANGED <<ifVars, macroVars>>

(* error(), and if that returns the switch falls into its default: fatalSrc. *)
StrifyEof(r) ==
  /\ cur = "STRIFY" /\ r.tok = "EOF"
  /\ Took(r)
  /\ errs' = TRUE /\ effect' = "none"
  /\ status' = IF ErrorReturns THEN "fatal" ELSE "croaked"
  /\ UNCHANGED <<ifVars, states, macroVars>>

StrifyText(r) ==
  /\ cur = "STRIFY" /\ ~ IsCommon(r) /\ ~ IsDefref(r)
  /\ r.tok \notin {"STRIFY", "EOF"}
  /\ Took(r) /\ Fine("none")
  /\ UNCHANGED <<ifVars, states, macroVars>>
-----------------------------------------------------------------------------
(* The second switch, "top level expansion of some tokens", is reached     *)
(* from ps_TOP and, for tokens that have to be expanded first, from below. *)
Expanding(r) ==
  /\ ~ IsCommon(r)
  /\ \/ cur = "TOP"
     \/ cur \in DefNames \cup {"STRIFY"} /\ IsDefref(r)
     \/ cur = "DEFARG" /\ defRefs # <<>> /\ IsDefref(r)
     \/ cur = "INCNAME" /\ (IsDefref(r) \/ r.tok = "STRIFY")
     \/ cur = "JOIN" /\ ~ IsText(r) /\ r.tok \notin {"SYMBOL", "STRING", "EOF"}

Include(r) ==
  /\ Expanding(r) /\ r.tok = "INCLUDE"
  /\ IF off = 0 THEN statePush("INCNAME") ELSE UNCHANGED states
  /\ Took(r) /\ Fine("none")
  /\ UNCHANGED <<ifVars, macroVars>>

(* Pushed whether or not m_off: `ifdef NEVER `define FOO(`endif) works. *)
StateOf(t) ==
  CASE t = "UNDEF"  -> "DEFNAME_UNDEF"
    [] t = "DEFINE" -> "DEFNAME_DEFINE"
    [] t = "IFDEF"  -> "DEFNAME_IFDEF"
    [] t = "IFNDEF" -> "DEFNAME_IFNDEF"
    [] t = "ELSIF"  -> "DEFNAME_ELSIF"
    [] t = "ERROR"  -> "ERRORNAME"
    [] t = "STRIFY" -> "STRIFY"
Directive(r) ==
  /\ Expanding(r) /\ r.tok \in PushingDirectives \cup {"STRIFY"}
  /\ statePush(StateOf(r.tok))
  /\ Took(r) /\ Fine("none")
  /\ UNCHANGED <<ifVars, macroVars>>

ElseOrEndif(r) ==
  /\ Expanding(r)
  /\ \/ r.tok = "ELSE"  /\ ElseIf /\ Fine("none")
     \/ r.tok = "ENDIF" /\ EndIf  /\ Fine("none")
     \/ r.tok \in {"ELSE", "ENDIF"} /\ ifdefStack = <<>> /\ Complains /\ UNCHANGED ifVars
  /\ Took(r)
  /\ UNCHANGED <<states, macroVars>>

(* A macro reference; defPutJoin is spent on pushing the `` back.  The     *)
(* depth is compared before it is incremented.                             *)
TooDeep == defDepth > DefineMax
Deeper  == IF TooDeep THEN defDepth ELSE defDepth + 1
Referring(r) ==
  /\ Expanding(r) /\ IsDefref(r)
  /\ defPutJoin' = FALSE /\ lineCmt' = r.cmt /\ pushed' = "none"

RefTooDeep(r) ==
  /\ Referring(r) /\ TooDeep
  /\ TookLex(r) /\ Complains
  /\ UNCHANGED <<ifVars, states, macroVars>>

RefUndefined(r) ==
  /\ Referring(r) /\ ~ TooDeep /\ defs[r.name] = "none"
  /\ defDepth' = 0
  /\ TookLex(r) /\ Fine(Emitted("text"))
  /\ UNCHANGED <<ifVars, states, defs, lastSym, defRefs, joins>>

RefSimple(r) ==
  /\ Referring(r) /\ ~ TooDeep /\ defs[r.name] = "0"
  /\ defDepth' = Deeper
  /\ TookLex(r) /\ Fine("none")
  /\ UNCHANGED <<ifVars, states, defs, lastSym, defRefs, joins>>

RefParams(r) ==
  /\ Referring(r) /\ ~ TooDeep /\ defs[r.name] = "params"
  /\ Len(defRefs) < MaxRefs
  /\ defDepth' = Deeper
  /\ defRefs' = IF defRefs = <<>> THEN <<0>>
                ELSE Append(Append(Front(defRefs), parenLevel), 0)
  /\ statePush("DEFPAREN")
  /\ Len(r.lexs) < MaxStates
  /\ lexs' = Append(r.lexs, "ARGMODE") /\ parenLevel' = 0
  /\ Fine("none")
  /\ UNCHANGED <<ifVars, defs, lastSym, joins>>

(* Mutant: m_ifdefStack is not looked at. *)
MutEof(r) ==
  /\ Expanding(r) /\ r.tok = "EOF"
  /\ Took(r)
  /\ status' = "eof" /\ effect' = "eof"
  /\ UNCHANGED <<ifVars, states, macroVars, errs>>

Eof(r) ==
  /\ Expanding(r) /\ r.tok = "EOF"
  /\ Took(r)
  /\ IF ifdefStack # <<>> THEN errs' = TRUE ELSE UNCHANGED errs
  /\ IF ifdefStack # <<>> /\ ~ ErrorReturns
     THEN status' = "croaked" /\ effect' = "none"
     ELSE status' = "eof" /\ effect' = "eof"
  /\ UNCHANGED <<ifVars, states, macroVars>>

(* Mutant: no m_off check. *)
MutUndefineAll(r) ==
  /\ Expanding(r) /\ r.tok = "UNDEFINEALL"
  /\ defs' = [n \in Names |-> "none"]
  /\ Took(r) /\ Fine(Emitted("undef"))
  /\ UNCHANGED <<ifVars, states, lastSym, defRefs, joins, defDepth>>

(* Getopt keeps the macros that the command line defined last. *)
UndefineAll(r) ==
  /\ Expanding(r) /\ r.tok = "UNDEFINEALL"
  /\ \E kept \in SUBSET Names :
       defs' = IF off = 0 THEN [n \in Names |-> IF n \in kept THEN defs[n] ELSE "none"]
               ELSE defs
  /\ Took(r) /\ Fine(Emitted("undef"))
  /\ UNCHANGED <<ifVars, states, lastSym, defRefs, joins, defDepth>>

TopText(r) ==
  /\ Expanding(r) /\ (r.tok \in {"SYMBOL", "STRING"} \/ IsText(r))
  /\ defDepth' = 0
  /\ Took(r) /\ Fine(Emitted("text"))
  /\ UNCHANGED <<ifVars, states, defs, lastSym, defRefs, joins>>

Unexpected(r) ==
  /\ Expanding(r) /\ r.tok \in {"DEFFORM", "DEFVALUE", "COMMA", "CLOSE"}
  /\ Took(r) /\ FatalSrc
  /\ UNCHANGED <<ifVars, states, macroVars>>
-----------------------------------------------------------------------------
(* Errors raised inside lex() with no token returned: the end of a file in *)
(* an argument list or a comment, which leaves the start state, and an     *)
(* unterminated string or <name>, whose BEGIN(INITIAL) replaces the start  *)
(* state that was pushed for it.                                           *)
LexError ==
  /\ ~ OwesLineCmt /\ Len(lexs) < MaxStates
  /\ lexs' \in {lexs, IF mode = "INCMODE" THEN Rebegun("INITIAL")
                                          ELSE Append(lexs, "INITIAL")}
  /\ Complains
  /\ UNCHANGED <<ifVars, states, macroVars, parenLevel, lineCmt, pushed, defPutJoin>>

(* The loop's own test for the end of the input.  It sees one only when    *)
(* the VP_EOF before it was taken as an error and skipped.                 *)
AtEof ==
  /\ errs
  /\ status' = "eof" /\ effect' = "eof"
  /\ UNCHANGED <<ifVars, states, macroVars, lexVars, errs>>

Init ==
  /\ IfInit
  /\ states = <<"TOP">> /\ lexs = <<"INITIAL">>
  /\ defs \in [Names -> Params]   \* the command line may have defined some
  /\ lastSym = NoName
  /\ defRefs = <<>> /\ joins = <<>>
  /\ defDepth = 0 /\ defPutJoin = FALSE
  /\ parenLevel = 0 /\ lineCmt = LineDirectives /\ pushed = "none"
  /\ status = "run" /\ errs = FALSE /\ effect = "none"

Common(r)   == White(r) \/ Comment(r) \/ Line(r) \/ JoinLeft(r)
InDefine(r) ==
  IfName(r) \/ ElsifName(r) \/ UndefName(r) \/ DefineName(r) \/ NameText(r)
  \/ NameError(r) \/ Formals(r) \/ Value(r) \/ BadValue(r)
InArgs(r)   ==
  ParenOpen(r) \/ ParenMissing(r) \/ ArgWithoutRef(r) \/ ArgComma(r)
  \/ ArgClose(r) \/ ArgText(r)
InName(r)   ==
  IncString(r) \/ IncAngle(r) \/ IncError(r) \/ ErrorName(r) \/ JoinRight(r)
  \/ JoinError(r) \/ StrifyEnd(r) \/ StrifyEof(r) \/ StrifyText(r)
TopLevel(r) ==
  Include(r) \/ Directive(r) \/ ElseOrEndif(r) \/ RefTooDeep(r)
  \/ RefUndefined(r) \/ RefSimple(r) \/ RefParams(r) \/ Eof(r)
  \/ UndefineAll(r) \/ TopText(r) \/ Unexpected(r)

Next ==
  /\ status = "run"
  /\ \/ \E r \in RawTokens :
          Common(r) \/ InDefine(r) \/ InArgs(r) \/ InName(r) \/ TopLevel(r)
     \/ LexError
     \/ AtEof

Spec == Init /\ [][Next]_vars
-----------------------------------------------------------------------------
TypeOK ==
  /\ IfTypeOK
  /\ states \in Seq(ProcState) /\ lexs \in Seq(LexState)
  /\ states # <<>> /\ lexs # <<>>
  /\ defs \in [Names -> Params] /\ lastSym \in Names \cup {NoName}
  /\ defRefs \in Seq(Int) /\ joins \in Seq({"SYMBOL", "DEFREF"})
  /\ pushed \in {"none", "SYMBOL", "DEFREF", "STRING"}
  /\ defDepth \in Nat /\ parenLevel \in Int
  /\ {defPutJoin, lineCmt, errs} \subseteq BOOLEAN
  /\ status \in {"run", "croaked", "fatal", "eof"} /\ effect \in Effects

CountIn(s, S) == Cardinality({i \in 1 .. Len(s) : s[i] \in S})

(* Until an error is reported, the lexer is in the start state that the    *)
(* parser's state calls for, with no more start states below it than the   *)
(* parser has states that push one.                                        *)
StacksInStep ==
  errs \/ status # "run" \/
  /\ mode = "ARGMODE" <=> cur \in {"DEFPAREN", "DEFARG"}
  /\ mode \in {"DEFFPAR", "DEFFORM"} <=> cur = "DEFFORM"
  /\ mode = "DEFVAL" <=> cur = "DEFVALUE"
  /\ mode = "INCMODE" => cur = "INCNAME"
  /\ Len(lexs) = 1 + CountIn(states, {"DEFPAREN", "DEFARG", "DEFFORM", "DEFVALUE"})
                   + (IF mode = "INCMODE" THEN 1 ELSE 0)

(* The stacks that the states stand for have one entry per state, and a    *)
(* reference never waits on another one's arguments.                       *)
PendingMatchesStates ==
  errs \/
  /\ Len(defRefs) = CountIn(states, {"DEFPAREN", "DEFARG"})
  /\ Len(joins) = CountIn(states, {"JOIN"})
  /\ Len(defRefs) <= 1

(* None of the internal checks (fatalSrc) fires before an error was        *)
(* reported for the input.                                                 *)
FatalOnlyAfterError == status = "fatal" => errs

(* Text and comments are returned, and macros defined or removed, only     *)
(* where every enclosing conditional is in its first true branch.          *)
EffectsOnlyWherePassing ==
  effect \in {"text", "define", "undef"} => Abs!AllTaken(chains)

(* The table of macros does not change under a disabled conditional.       *)
DefsKeptWhereOff == [][~ Abs!AllTaken(chains) => defs' = defs]_vars

(* The end of the input with an open `ifdef is reported. *)
EndsClosedOrReported == status = "eof" => errs \/ ifdefStack = <<>>
=============================================================================
