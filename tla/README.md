# A TLA+ model of Verilog-Perl

Verilog-Perl reads Verilog: a preprocessor in C++ (`Preproc/`), a parser in
C++ (`Parser/`), Perl bindings of both, and Perl libraries on top of them
(options in `Getopt.pm`, netlists in `Netlist*`). This directory models the
parts whose correctness depends on sequences of operations, checks the models
with TLC on small instances, and proves what it can for all instances.

## Inventory

**Conditional compilation** (`VPreProc.cpp`). State: `m_ifdefStack`, a stack
of entries (`on`, `everOn`), and `m_off`, the number of entries that are not
on. `` `ifdef``, `` `ifndef``, `` `elsif``, `` `else``, `` `endif`` move both; everything else asks `m_off`
only. Correct when text passes exactly where every open chain is in its first
true branch. Hard: `` `elsif`` and `` `else`` replace an entry and its share of the
counter in separate steps; the end of the text may come at any point.

**Token state machine** (`VPreProcImp::getStateToken`). State: the stack of
parser states, pending macro references, pending `` `` `` joins, several flags.
Operations: one handler per (state, token). It calls the program back for
definitions, includes, comments and errors; the program may override `error()`
so that it returns, and then the loop goes on. Correct when the stacks stay in
step with each other and with the lexer's start states, and when nothing takes
effect in disabled text.

**Lexer of the preprocessor** (`VPreLex.l`). State: flex's stack of start
states, `m_parenLevel`, flex's buffer. The rules pop start states that the
token state machine pushed; the two stacks live in two files.

**Stream stack** (`VPreLex.l`, `VPreLex.h`, `openFile`). State: a stack of
texts, a count of them, and what flex has read ahead. Operations: refill,
insert a macro body, open a file, end a file in phases. Correct when the text
is read in the order of plain textual insertion and its end is reached. Hard:
flex may read ahead across the end of a stream; two limits on nesting.

**Macro expansion** (`getStateToken`, `defineSubst`). State: `m_defDepth`, the
macro table. Correct when a recursive macro is reported and any other is
expanded to its end.

**Lines** (`getRawToken`, `getFinalToken`, `lineDirective`, `VFileLine`). State:
the position of every stream, the position that the output has, newlines owed
by comments, a token held ahead. Correct when a reader of the output, who has
only its newlines and `` `line`` directives, gives each line the place that it
came from. Hard: newlines are paid later than they were read, in another state;
disabled text moves the input and not the output.

**Options** (`Getopt.pm`). State: define table, with marks for command-line
definitions, directories, a cache of file lookups, a half-read option. Correct
when a cached lookup is what the lists now say, and when the parameters written
from one object make another that is like it.

**Netlist** (`Netlist.pm`, `Netlist/*.pm`). State: modules, cells, pins, ports,
nets, the list of objects to link, use counts. Linking a cell may read files,
which add modules to the list being linked. Correct when links and counts agree
whatever the order of reading, linking and deleting.

**Parser** (`VParse*`, `VSymTable*`, `VAst*`, `VParseBison.y`). State: a heap of
symbol tables with counted references downwards and weak ones upwards, a stack
of scopes of bare pointers, the token that bison has read ahead, a one-shot
table for the next identifier (`m_symTableNextId`). The lexer resolves an
identifier when it is read; grammar actions, which run later, push and pop
scopes, declare and import. Correct when the stack mirrors the source, no table
in use has been freed, and what the lexer found is found again by the action.

**The rest**: `Language.pm`, `Std.pm`, `EditFiles.pm`, the tools `vhier`,
`vpassert`, `vppreproc`, `vrename`, `vsplitmodule`, the build helpers and the
generated sources transform text or are data; they are listed in
`PROJECT.json` with the reason each is left out.

The library is sequential and runs in one thread; what interleaves is the
text with the state (any token in any state), flex's and bison's read-ahead with
the actions, and the program's calls and callbacks with both. Nothing is stored,
so there is no crash recovery. The hazards, each at its line, are in
`PROJECT.json`.

## Modules

| module | models | over |
|---|---|---|
| `CondCompile` | abstract: text passes in the first true branch of every chain | histories of conditions |
| `IfdefStack` | `m_ifdefStack`, `m_off` | implements `CondCompile` |
| `StateToken` | every handler of `getStateToken`, the tokens that `getRawToken` inserts, the start states of the lexer | extends `IfdefStack` |
| `TextItems` | pieces of text and the ending a file brings | |
| `PendingText` | abstract: one text still to be read, with insertion at the place reached | `TextItems` |
| `Streams` | `m_streampStack`, `m_streamDepth`, `YY_INPUT`, phases of a file's end, both limits | implements `PendingText` |
| `MacroExpand` | `m_defDepth` and simple references over the streams | extends `Streams` |
| `OutputLines` | positions of the streams, newlines owed, `` `line`` in and out, `getFinalToken`, and a reader of the output | |
| `Getopt` | `Verilog::Getopt`: options, define table, directories, `file_path` and its cache, `get_parameters` | |
| `SymTable` | the heap of `VAstEnt`, `replaceInsert`, imports, lookups, `VSymStack` | |
| `ParseScopes` | what `lexToken` and the grammar do with it | extends `SymTable` |
| `NetLink` | `Netlist::link` down to pins, reading of files, new and deleted cells and modules | |
| `IfdefStackProofs`, `StateTokenProofs`, `StreamsProofs`, `OutputLinesProofs`, `GetoptProofs`, `ParseScopesProofs`, `NetLinkProofs`, `SequenceLemmas` | the theorems and their lemmas | |
| `MCStreams`, `MCMacroExpand`, `MCGetopt`, `MCParseScopes`, `MCNetLink` | texts, macro bodies, command lines, names and files for TLC | |

### How state and actions correspond to the code

`IfdefStack`: `off` is `m_off`, `ifdefStack` is `m_ifdefStack` with the top
last; `chains` is a history variable, the conditions of the branches of each
open chain, which no other variable depends on. `OpenIf`, `ElsifIf`, `ElseIf`
and `EndIf` are the four directives once their guards passed.

`StateToken`: one step is one turn of the loop of `getStateToken`: a raw token
is taken and its handler runs to `goto next_tok` or `return`. Handlers are
actions of their own, named for what the code does (`IfName`, `ArgClose`,
`JoinRight`). The input is any token that the lexer can return in its present
start state, so the runs cover every token sequence rather than given texts.
Abstracted: the text of names, values and arguments, and line numbers. A macro
has no parameters, an empty list or some (`Params`), since the handler
distinguishes these. `error()` is `Complains`: it ends the run with the default
handler (`Preproc.pm` croaks) and returns when `ErrorReturns`. `effect` says
what the last step did to the outside: text, white space, a definition, ...

`Streams`: characters are items; a file's ending is a newline, the end-of-file
event, the `` `line`` that leaves it and the one that resumes the file around it.
`Fill*` are the branches of `inputToLex` and `endOfStream`, `Scan` matches a
character, `Unput` and `OpenFile` push a stream. `unread` is flex's buffer.

`MacroExpand` adds when a token can be matched: only once its end is known, so
flex has read one character past it, which may pop the stream it came from.

`OutputLines`: the source is any text, one piece at a time: words, white space,
comments of one or two lines, definitions, macros whose body has a newline or
not, includes, `` `line`` of the user, conditionals. A stream is the position it
keeps. `FinLine`, `FinAdjust` and `FinToken` are the branches of
`getFinalToken`. `reader` is a history variable: file and line as the output
states them. `hidden` facts are remembered only so that the property can say
when the output may be wrong.

`Getopt`: `self` is the object's hash, and a method an operator from one state
of it to the next, so that `ParametersCarry` and `ParametersReproduce` can have a new
object `Read` all words of `GetParameters`, one by one. `Parse` takes one word, or one definition of a `+define`; `ParseFile` is
the word after `-f` or `-F` and pushes the words of that file, or the program
dies if there is none. `taken` counts the words of a call. The
source's `` `define``, `` `undef`` and `` `undefineall`` arrive through `Preproc.pm`. `wanted`
is a history variable. The files on disk do not change. A redefinition with warnings
enabled sets `died`: its message calls `len()`, which Perl lacks
(`Getopt.pm:549`), so the program dies where a warning was meant.

`SymTable` and `ParseScopes`: `ent` is the heap, an entry per identity with its
type, its weak parent and what is filed in it; an entry is freed, with all that
only it refers to, when its count of references comes to zero. `stack` and
`current` are `VSymStack`. A step of `ParseScopes` is a statement, or the
beginning or end of a construct: its identifiers are lexed, which resolves each
at once, then its actions run; the grammar lets nothing come between, so that
`NoInternalError` is about a forced table, and about lookups that go by parents
where the stack would say something else, and not about a declaration in
between. The exceptions are the optional label of an end keyword, and that of
`begin` and `fork`, for which bison reads one token more before the scope is left
or pushed: `held`. An item that begins with a package or a type uses it. A block with a
label is filed under its keyword, as the code does (`VParseBison.y:2098`).
`function new` is filed under "new" without an identifier being lexed, and so is an
anonymous scope under its number: `reused` remembers that such a scope took
another's place. `leftover` counts the scopes of extern interfaces (`:889`). Modules,
interfaces, functions and blocks stand for programs, tasks, forks, structs and
clocking blocks, which push and pop as they do. A syntax error drops constructs
(`open`, a history variable) and leaves scopes.

`NetLink`: `mods` are the module objects ever created, a reference is an index.
`LinkCell` is `Cell::_link` with all that it reads, `PopModule`, `StartPass` and
`PassModule` the two loops of `link()`, the others what the program does between
calls. Hashes have no order, so cells, and the modules of the second loop, are
linked in any. A cell has one pin, a module one net for the pins of its cells.

## Runs

| run | shows | bounds |
|---|---|---|
| `state_token_croak` | with the default `error()`: types, stacks in step, one pending reference or join per state, no internal check fires first; the counter and the stack of conditionals implement first-true-branch selection | 2 chains of 3 branches, 1 name, stacks of 3 (381,860 states) |
| `state_token_handler` | with an `error()` that returns: nothing comes out of disabled text, the table of macros is left alone there, no `` `ifdef`` left open in silence | 1 chain of 2 branches, stacks of 2 (183,928 states) |
| `streams` | order of the text, ends of files, count of streams, progress | 2 files, 3 bodies, refills of 2 items, limits 2 and 3 |
| `macro_expand` | every definition of up to three pieces is expanded or refused, and the end is reached | limit of 3, one file of nine pieces |
| `output_lines` | lines of the output are where it says, unless disabled text hid a `` `line`` or hid lines before the output caught up; directives start lines; catching up ends | 2 files, 4 lines, 3 streams (321,838 states) |
| `getopt` | cached lookups are current, found files are dependencies, `` `undefineall`` keeps what the command line defined last, the parameters of `get_parameters` give the same lookups and, but for formal parameters and origin, the same macros | 1 macro, 1 file in 3 places, 11 command lines, 3 entries in each list (390,910 states) |
| `parse_scopes` | the stack mirrors the source but for extern interfaces, no table in use is freed, an import takes what its token named | one name of each kind, 4 entries, depth 3 (537,068 states) |
| `net_link` | cells of known modules are linked, uses counted once, missing modules tried once | 2 modules in 2 files and a library, 24 disks, 2 cells (214,757 states) |
| `parameters_lost` | *violation*: `get_parameters` loses a value of 0, or after a + | 2 macros |
| `recursion_hang` | *violation*: text and a final reference to itself is expanded for ever | as `macro_expand` |
| `output_sync` | *violation*: after a hidden `` `line`` the output claims the wrong file | as `output_lines` |
| `net_waiting` | *violation*: `link()` returns with a module not linked | as `net_link` |

Why the bounds suffice. A chain's future depends on its last entry and `everOn`,
so a third branch shows every case; the state machine never pushes more than two
states before it returns to the top without an error, and the third level
shows the pushes from inside arguments. Of `DefineMax` only "below or above"
matters, and of the stream limits that each can be reached, in either order.
`MaxText` bounds text handed to a stream that stopped at the limit.
The text of `macro_expand` has at most `RecursionMax` + 1 references in a row,
since a longer row of uses of an empty macro is taken for recursion (below);
definitions that the code expands for ever are left to `recursion_hang`.
In `output_lines` the output is compared with lines at most four ahead or
behind, past the one (`NEWLINES_VS_TICKLINE`, here 1) where newlines give way
to `` `line``; a user's `` `line`` stands at the start of a line and in a file, a
macro's text has one newline at most. Four entries let `parse_scopes` have a
netlist, two scopes in it, one in the other, and the entry that replaces one of
them, so that a class can have a second constructor while a type of the first is
forced; a name of
each kind is enough for hiding, since an inner scope may declare it again. In
`net_link` two names give self-reference, cycles, a file that defines another
module than its name, both, or none, and each of the ways that `Cell::_link`
tries. Bounds are constants of the modules and in the `.cfg` files.

Deadlock is not checked where the program stops: an error that ends the run,
the end of the text.

Fairness. `Streams` assumes `WF(Reading)` and `MacroExpand` `WF(Turn)`:
`getRawToken` loops over `yylex()` and `getline()` over tokens until there is a
line, so reading goes on for as long as the program asks. `OutputLines` assumes
`WF` of `getFinalToken`'s branches, which `getparseline` calls again until it has
its line. No fairness is assumed of the program opening files, nor of any
particular token.

Every property of a passing run has a mutant in `PROJECT.json`: a definition
changed as a bug in that code would change it, which TLC finds. Mutants stand
before the definition they replace, with the prefix `Mut`.

## What the violations say

* `recursion_hang` (`VPreProc.cpp:1223`): `m_defDepth` is reset by each token of
  text. With `` `define A x `A``, each expansion yields text, and by the time the
  inner reference is matched flex has popped the exhausted stream, so neither
  guard is ever reached. Running the preprocessor on this text does not end.
* `output_sync` (`VPreProc.cpp:1267`): a `` `line`` in disabled text, or the one at
  the end of an included file that ends inside an `` `ifdef``, moves the lexer and
  is dropped with the text; afterwards only line numbers are compared, so the
  output may go on under the wrong file name.
* `parameters_lost` (`Getopt.pm:297`): "0" is false in Perl and becomes an empty
  value; and a misspelt key makes the style always `+define+`, in which a value
  cannot hold a plus sign. Nor are the formal parameters of a macro ever written
  (`Getopt.pm:296`): `A(x)` comes back as `A`, which is not "the same state" either.
  `ParametersCarry` says what is carried over: libraries, the places of names, and
  of every macro whose value is one part and not "0" just this value. All that
  come back are definitions of the command line.
* `net_waiting` (`Netlist.pm:80`): the second loop of `link()` may read files too,
  and the modules these define are put on a list that only the first loop
  empties. The next `link()` would take them.

### Cases noted while modelling that no run isolates

Preprocessor. White space after `` `` `` is returned before the state is looked
at, so the message for it cannot be reached (`VPreProc.cpp:733` against `:1051`).
`m_defDepth` is not reset by the end of an expansion, so more than a thousand
uses of an empty macro in a row are "Recursive" (`:1148`). The blank for a
stripped comment is a token of text: `` `include /*c*/ "f"`` is an error with
comments stripped only (`:751`). "Expecting ( to begin argument list" leaves its
pending reference behind when `error()` returns (`:937`), which is why
`PendingMatchesStates` is stated for the time before an error. `` `error`` reports
its message in disabled text only when the message is not a string. An end of
file faked at the limit of nesting loses whatever was still buffered. With
`keep_whitespace=0` the position of the output moves with newlines that are not
put out.

Options. The cache of `file_path` is keyed by the name alone (`Getopt.pm:402`), so
a lookup of a module (`Netlist/File.pm:427`) may be answered with a file that only
an include directory has, when the preprocessor, which looks in all of them, has
asked for that name before: with two types in `LookupTypes` TLC finds
`CachedAnswersCurrent` violated, so the run looks files up as `all`. A macro of the command line that the source defines again,
even with the same value, is no longer the command line's (`:553`).
`remove_defines` sets a name to its definition and then compares the two, so it
follows one definition only (`:583`); `_parameter_next` survives into the next call.

Parser. `extern interface i;` pushes the scope of the interface and nothing pops it,
with no error (`VParseBison.y:889`, against `:721` and `:961`): what follows at that
level is filed in the interface, and callbacks that give an `objof` give "interface".
`ScopesMirrorSource` counts these scopes (`leftover`). The next identifier after an end keyword is resolved in the scope that
is being closed. `typedef class c;` after the class replaces it by an empty
entry (`VParseBison.y:1575`). `import p::*` where p holds an entry p frees the
table being walked (`VAst.cpp:183`), and an import into the package itself makes
a cycle that is never freed; `ImportStar` files all names at once, and drops what
was replaced once, where the code walks the table. An entry imported
elsewhere outlives its parent, and lookups from it end there. After a syntax
error, declaring an out-of-block method again frees a scope that is on the
stack; so `ScopesStayAlive` is stated for the time before an error. After
`scope::keyword` the one-shot table stays set, and a second `function new` in the
same class frees the first, with the table that the lexer was told to look at if
that is one of its types (`VParseBison.y:2663`): an error was reported before, so
`TokenTablesLive` has this as its exception. `implements A, B` imports A only.

Netlist. `is_top` stays 0 after the last cell of a module is deleted
(`Module.pm:383`). The third try of a missing cell reads its file again, so what
the file defines is created twice (`Cell.pm:103`). Deleting a pin that was
connected by order removes the wrong key (`Pin.pm:93`). A missing module is
never looked for again, also when its file has come; `_relink` is never set;
`level` is memoized, also in a cycle (`Module.pm:237`); deleting a module that
was replaced removes the new one from the table.

## Proofs

`IfdefStackProofs` proves, for every nesting and length of chains, that `m_off`
never underflows (`NoUnderflow`), that it counts the disabled levels
(`CounterCorrect`), that each entry tells its chain's history
(`EntriesCorrect`), and that the whole implements `CondCompile`
(`StackImplementsSelection`). None is inductive alone: `m_off` does not
underflow because it counts levels, popping keeps the count only if the entries
are what they claim, so the invariant `IfInv` is the conjunction of the three.
The lemmas on stacks (`PushGood`, `PopGood`) do the work once for all four
directives, since `` `elsif`` and `` `else`` are a pop and a push.

`StateTokenProofs` carries these to the whole state machine, for any set of
names, any options and either kind of error handler. Each handler is shown to
be `Disciplined`: on the conditional state it is a step of `IfdefStack`, and it
has an effect on the outside, or on the table, only when `m_off` is zero. With
`IfInv` this gives `CounterKept`, `NothingFromDisabledText`,
`OpenIfdefReported` and `TableKeptWhereDisabled`.

Its second part is about the other stacks of the state machine. `Typed`
needs, and keeps, that the bottoms of both stacks stay (`TOP` and `INITIAL`),
whatever errors came: this is `StateTyped`. The three properties that hold until
an error is reported need more: `Shape` says that only the state on top can have
a start state of its own (so nothing is pushed on arguments, formals or values),
that the lexer's whole stack is a function of the state on top, that one
reference waits under exactly two of the states, and that joins are as many as
the `ps_JOIN`s. With it `TokenShape` lists the tokens that the lexer can return in
each state, and every handler either keeps `Shape` or reports an error. From
`StackInv` follow `StacksKept`, `PendingKept` and `NoInternalCheckFires`, for
stacks of any depth and any set of names.

`StreamsProofs` is about the stack of streams, for any texts, sizes of refills and
limits. It proves the types (`StackTyped`), that the EOF stream stays at the
bottom (`EofKept`), that the depth counts the streams (`DepthKept`), and that
nothing is left unread at the end of file unless an error was reported
(`AllTextRead`). For the last, `LeftInv` says where text can be until a stream is
stopped ("Fake it to stop recursion"): a file that has begun to end holds its
last newline or nothing, a waiting one what flex gave back, and the top one
nothing once its end was announced.

`ReadsPendingText` is the refinement of `PendingText`. What a stack holds is a
recursive function over it, from the bottom (`HeldFrom`), and spent streams add
nothing to it, so a refill that pops them and hands over part of a text leaves
`Rest` as it is. Pushing a stream puts its text in front, wherever the unread
text that is saved came from. When a file ends, the first "resume after" in what
lies below must name the file that the code resumes, that of the stream below,
which may be a macro's: hence `FileKept`, that a macro's stream has the file of
the one below it, and `TopStops`, that only the stream on top was ever stopped.
So each step is one of `PendingText` or none.

Of `MacroExpand` it proves that `m_defDepth` exceeds its limit by one at most
(`ExpandTyped`), that expansion, whatever macros refer to, implements
`PendingText` too (`ExpansionReadsPendingText`), and that a macro that does not
refer to itself is never refused (`OnlyRecursionReported`). The last has two
hypotheses. A macro may be put on a file (`RecursionMax` of 2; in the code it is
1000). And no text returns to the caller after more references in a row than may
be substituted: the places of each file can be numbered so that the number grows
at a reference and falls at text only. `PlainInv` carries such a numbering for the
text still to be read, above `m_defDepth`, and knows that at most one macro lies
on the file. `MCMacroExpand` checks that its text fulfils the hypotheses.

`OutputLinesProofs` is about the lines of the output, for any files, lengths of
files, depth of includes and macros, and `NEWLINES_VS_TICKLINE`. At any time
either nothing is told of another position, or a directive for the position of
the lexer waits to be read, or it is held (`Undirected`, `DirectiveUnread`,
`DirectiveHeld`); a macro's text is where the macro was used, and what ends a
line in the lexer ends one of the output, except while a directive waits
(`LinesInv`). `DirectivesAreRead` follows, with or without white space kept.
`PositionsAreKnown` needs to know where the reader is. Either its position is
the one that `getFinalToken` keeps (`Same`); or a file was entered, whose first
directive is for the place left and is the one `getFinalToken` follows, and the
reader is at no later a line than that, and the newlines owed and held would
bring it to the lexer (`Beside`). In the second case the output is never behind,
so newlines are put out to catch up in the first only, where the count is right,
and a text that begins a line while `getFinalToken` believes that it does is held
between the two inequalities. Its hypothesis is `keep_whitespace`, the default:
without it `getFinalToken` counts newlines that it does not put out.

`GetoptProofs` is about the options, for any words, parameter files, directories
and files on disk. Each method is shown to do one of three things to what lookups
depend on (`Looks`): nothing, or it flushes the cache, and only `file_path()`
adds to it. With this `AnswersNoted` and `CacheIsCurrent` follow; the second has
the hypothesis that all lookups are of one type, as the preprocessor's are,
because the key of the cache does not hold the type (see the
cases noted above). `CommandLineStays` needs `Marked`: an entry is
marked as the command line's if and only if the command line defined the name
last, through a `+define` of several definitions and nested parameter files.
`OptionTypes` also bounds the words that `parameter()` returns by those it parsed.

`ParametersCarryOver` is `ParametersCarry` for any number of names, directories and
postfixes, any values and any formal parameters. Its one hypothesis is the VCS
style, in which `get_parameters` always writes; the property itself speaks of the
states where no value is "0" or has a plus sign, since `parameters_lost` shows
that these are lost. `Reading` lists the states of
an object that parses words one by one, so that reading two lists is reading one,
then the other (`ReadJoined`), and each part of what `get_parameters` returns is
an induction over its words: a definition enters a table that does not have the
name, since a name is written once or with the same value, so that nothing fails
(`WholeDefine`); the directories are appended, those after `-y` in pairs. The new
object ends with the lists of the old one behind the "." and ".v" that every
object starts with (`ParametersRead`). These are there twice then, and
`FoundInFront` says why no lookup can tell: a second occurrence behind the first
does not change which place is the first to have the file (`RepeatsSame`), also
where the two lists of directories are searched one after the other. The old
object's lists do start so (`StartsInv`).

`ParseScopesProofs` has two parts. Of the stack alone: the netlist stays at its
bottom and each open construct's scope is on it where it was pushed
(`ScopesKept`), with or without errors; and before the first error no table is
forced when an import is lexed, so that it takes the package of its token
(`ImportsResolve`). Of the heap: `Freed` is a least fixed point, so
a set of entries that holds an owner of each of its members is spared
(`FreedSpares`), and what has an owner that stays, stays (`FreedOwners`). From
these each operation that files something leaves a heap without dangling names or
parents (`HeapOK`), changes one table only, and spares such a set (`Grown`), which
gives `ParseTypes`, with or without errors. `TokenTablesStay` follows
since filing a scope frees nothing unless it replaces another
(`AddedFreesNothing`), and whatever may replace one, but for anonymous scopes and
constructors, begins with an identifier, after which the lexer is told nothing and
bison holds nothing. Before the first error, `Mirror` says why the scopes on the
stack live: they are those of a list of constructs, the open ones with
the interfaces left behind among them (`Standing`), and each has a name in
the table it was filed under, and that is the scope below it or, for a body
outside its class, a class with a name in some scope below. What is being filed
goes into the innermost scope, which keeps nobody on the stack alive, or under a
qualified name, which keeps nobody alive either while no function is open
(`Unhit`). From `MirrorInv` follow `ScopesAreSources`, `ScopesAlive` and
`ObjectsFound`.

`NetLinkProofs` is about the netlist, for any files and libraries, any number of
modules and cells and any order of linking, reading, adding and deleting:
references lead to modules of the name asked for (`ReferencesGood`), a net's
count is the number of linked pins on it (`CountsKept`), and files are read for a
name once (`ReadOnce`). None is inductive alone, since a cell is linked while
files are read into the list that is gone over. The invariant `NetInv` joins
`Good`, of the netlist as one value (every reference is in range and of the right
name, each module's count is that of its ports), with where `link()` is, and with
"tried once means in the table or missing". Linking a cell is a sequence of up to
five changes of that value; for each a lemma says that it keeps `Good` and that
the netlist only `Grows` (no module goes, no cell changes its name, no name leaves
the table), so that they compose. `LinkingComplete` needs more: a name that was
never replaced is that of one module, which the table has (`Only`), a linked
cell's module has left the top (`Down`), and a change that leaves the list empty
created no module (`Keeps`); so while the list is empty the pass's table does not
grow under it, and the modules that the pass is done with stay done (`LinkInv`).

`SequenceLemmas` has the facts about sequences that several of these use, and
about numbers: a set that is not empty has a least element, hence induction in
the form of a set that has 0 and each successor, hence that a function defined by
recursion exists. This is how the chain of a scope's parents and the reading of
words, recursive functions, are reasoned about without an induction rule over
predicates.

Assumptions: only those named in the modules (bounds are natural numbers, the
empty name is not a name, the kinds of names are disjoint, a text is a sequence of
characters, letters are not the marks that files leave, a file of the netlist is a
sequence of definitions, names and values of the options are strings and sequences
of strings).

Only model-checked: liveness and progress, which the prover does not do: `Drains`
of `Streams`, `EndReached` and `SelfReferenceReported` of `MacroExpand`,
`HeldIsDelivered` of `OutputLines`. Every safety invariant that a passing run
checks, and both refinements, have a theorem.

## Not modelled

* Argument substitution (`defineSubst`) and `trimWhitespace`: functions of
  strings, without state between calls.
* `getparseline`'s splitting into lines, and `line_directives=0`.
* `level`, `lint` and printing of netlists, more than one pin of a cell, pin
  names. Interfaces are linked as modules are.
* `Getopt`: lists given by reference, `map_directories`, `filename_expansion`,
  environment variables in names.
* The grammar beyond scopes, and all callbacks of the parser: outputs. Constructs
  whose scopes are pushed and popped as those of a modelled one are not told apart
  from it (programs, tasks, forks, structs, covergroups, clocking blocks).
* The Perl bindings' marshalling, `Language.pm`, `EditFiles.pm`, the tools, the
  build helpers, the generated sources: see `PROJECT.json`.

## What is left

1. `getparseline` over `OutputLines`, with the end of file faked at the limit.
2. Pins by order and by name in `NetLink`, and `level` as a function of the links.
3. `defineSubst` as a function over pieces of text.
