------------------------------- MODULE Getopt -------------------------------
(***************************************************************************)
(* Verilog::Getopt (Getopt.pm): the options that the preprocessor and the  *)
(* netlist share.  They hold the table of defines, the directories that    *)
(* files are looked for in, and a cache of such lookups.  `self' is the    *)
(* object's hash; a method is an operator from one state of it to the next.*)
(*                                                                         *)
(* A word of the command line is [opt, arg].  A value is the sequence of   *)
(* its parts between + signs, a directory that of its components.  A       *)
(* definition is a name and the value; +define has several.  Names of      *)
(* files are relative and substituted already.                             *)
(***************************************************************************)
EXTENDS Naturals, SequencesExt

CONSTANTS
  SortedNames,     \* the names that may be defined, sorted
  Values, Params,  \* what the source defines them as
  FileNames, Disk, \* names looked up; the <<dir, name, postfix>> that exist
  LookupTypes,     \* the lookup types that the program uses
  Commands,        \* what it gives to parameter()
  ParamFiles,      \* the words of the files that -f and -F name
  GccStyle, VcsStyle, DefineWarnings, \* options of new()
  NoPath,
  MaxDirs          \* bound: directories and postfixes in each list

Names == Range(SortedNames)
Definitions == {d \in Seq(STRING) : d # <<>> /\ Head(d) \in Names}
Words ==
  [opt : {"-D", "-U"}, arg : Definitions]
  \cup [opt : {"+define"}, arg : Seq(Definitions) \ {<<>>}]
  \cup [opt : {"-f", "-F", "-v", "-y", "+incdir", "-I", "+libext", "word"},
        arg : Seq(STRING)]
Word(opt, arg) == [opt |-> opt, arg |-> arg]

ASSUME GetoptAssumption ==
  /\ MaxDirs \in Nat /\ {GccStyle, VcsStyle, DefineWarnings} \subseteq BOOLEAN
  /\ NoPath \notin Disk
  /\ SortedNames \in Seq(STRING) /\ Values \subseteq Seq(STRING)
  /\ \A ws \in Commands : ws \in Seq(Words)
  /\ \A f \in DOMAIN ParamFiles : ParamFiles[f] \in Seq(Words)

VARIABLES
  self,     \* the Verilog::Getopt
  args,     \* the lists of words being parsed, the innermost last
  wanted,   \* history: names last defined on the command line
  taken     \* history: how many words of the call were parsed

vars == <<self, args, wanted, taken>>

(* An entry of the table.  A plain value stands for FALSE and no parameters. *)
(* Mutant: "if ($params || $cmdline)" forgets the second.                    *)
Undefined == [there |-> FALSE, value |-> <<>>, params |-> "", cmdline |-> FALSE]
MutEntry(v, ps, cmdline) ==
  [there |-> TRUE, value |-> v, params |-> ps, cmdline |-> cmdline /\ ps # ""]
Entry(v, ps, cmdline) ==
  [there |-> TRUE, value |-> v, params |-> ps, cmdline |-> cmdline]

New == [defines |-> [n \in Names |-> Undefined],
        incdir |-> << <<>> >>, module_dir |-> << <<>> >>, libext |-> <<".v">>,
        library |-> <<>>, cache |-> [f \in FileNames |-> NoPath],
        depend |-> {}, next |-> "none", unparsed |-> <<>>, died |-> FALSE]

Flushed(s) == [s EXCEPT !.cache = [f \in FileNames |-> NoPath]]
-----------------------------------------------------------------------------
(* The warning of a redefinition calls len(), which does not exist. *)
Define(s, n, v, ps, cmdline) ==
  LET old == s.defines[n]
      new == Entry(v, ps, cmdline)
  IN  IF old.there /\ <<old.value, old.params>> # <<v, ps>> /\ DefineWarnings
      THEN [s EXCEPT !.died = TRUE]
      ELSE [s EXCEPT !.defines[n] = new]

Undef(s, n) == [s EXCEPT !.defines[n] = Undefined]

Undefineall(s) ==
  [s EXCEPT !.defines = [n \in Names |-> IF @[n].cmdline THEN @[n] ELSE Undefined]]

(* incdir(), module_dir(), library(), libext() with an argument. *)
(* Mutant: the cache outlives a new postfix.                     *)
Incdir(s, d)    == Flushed([s EXCEPT !.incdir = Append(@, d)])
ModuleDir(s, d) == Flushed([s EXCEPT !.module_dir = Append(@, d)])
Library(s, f)   == [s EXCEPT !.library = Append(@, f)]
MutLibext(s, postfixes) == [s EXCEPT !.libext = @ \o postfixes]
Libext(s, postfixes) == Flushed([s EXCEPT !.libext = @ \o postfixes])

(* A definition of the command line.  Mutant: the pattern that splits at = *)
(* matches no value.                                                       *)
MutCmdline(s, def) == Define(s, Head(def), <<>>, "", TRUE)
Cmdline(s, def) == Define(s, Head(def), Tail(def), "", TRUE)
-----------------------------------------------------------------------------
Gcc(w, opt) == GccStyle /\ w.opt = opt
Vcs(w, opt) == VcsStyle /\ w.opt = opt

TakesNext(w) == w.opt \in {"-f", "-F"} \/ Vcs(w, "-v") \/ Vcs(w, "-y")

(* A word with a meaning of its own, even where -f and the like expect *)
(* another.                                                            *)
IsOption(w) ==
  \/ TakesNext(w)
  \/ \E o \in {"+define", "+incdir", "+libext"} : Vcs(w, o)
  \/ \E o \in {"-D", "-U", "-I"} : Gcc(w, o)

(* _parameter_parse for one word, but for the file that -f or -F read; for *)
(* +define, the first of its definitions, and it goes on with the others.  *)
Parsed(s, dir, w) ==
  LET path == dir \o w.arg
  IN CASE TakesNext(w)       -> [s EXCEPT !.next = w.opt]
       [] Vcs(w, "+define")  -> Cmdline(s, Head(w.arg))
       [] Gcc(w, "-D")       -> Cmdline(s, w.arg)
       [] Gcc(w, "-U")       -> Undef(s, Head(w.arg))
       [] Vcs(w, "+incdir") \/ Gcc(w, "-I") -> Incdir(s, path)
       [] Vcs(w, "+libext")  -> Libext(s, w.arg)
       [] ~ IsOption(w) /\ s.next = "-v" -> Library([s EXCEPT !.next = "none"], path)
       [] ~ IsOption(w) /\ s.next = "-y" -> ModuleDir([s EXCEPT !.next = "none"], path)
       [] OTHER              -> [s EXCEPT !.unparsed = Append(@, w)]

Remaining(w) ==
  IF Vcs(w, "+define") /\ Len(w.arg) > 1 THEN <<Word(w.opt, Tail(w.arg))>> ELSE <<>>

(* A word as a whole, which names no file: +define with all definitions. *)
Whole(s, w) ==
  LET upto[k \in 0 .. Len(w.arg)] ==
        IF k = 0 THEN s ELSE Cmdline(upto[k - 1], w.arg[k])
  IN  IF Vcs(w, "+define") THEN upto[Len(w.arg)] ELSE Parsed(s, <<>>, w)

(* The states of an object that parses these words, first to last. *)
Reading(s, ws) ==
  LET after[k \in 0 .. Len(ws)] ==
        IF k = 0 THEN s ELSE Whole(after[k - 1], ws[k])
  IN  after
Read(s, ws) == Reading(s, ws)[Len(ws)]
-----------------------------------------------------------------------------
(* get_parameters: a word for each name that is defined.  The style is     *)
(* read from a key that is misspelt where it is set, so it is never gcc's; *)
(* and "0" is empty to Perl's ||.  What follows a + in a value is read as  *)
(* the next definition.                                                    *)
DefineWord(n, value) ==
  LET v == IF value = <<"0">> THEN <<>> ELSE value
  IN  Word("+define",
           IF v = <<>> THEN << <<n>> >>
           ELSE << <<n, Head(v)>> >> \o [i \in DOMAIN Tail(v) |-> <<Tail(v)[i]>>])

(* Those of the first i names. *)
DefineWords(s) ==
  LET words[i \in 0 .. Len(SortedNames)] ==
        IF i = 0 THEN <<>>
        ELSE IF s.defines[SortedNames[i]].there
        THEN Append(words[i - 1],
                    DefineWord(SortedNames[i], s.defines[SortedNames[i]].value))
        ELSE words[i - 1]
  IN  words

Each(opt, dirs) == [i \in 1 .. Len(dirs) |-> Word(opt, dirs[i])]
Pairs(opt, dirs) ==
  [i \in 1 .. 2 * Len(dirs) |->
     IF i % 2 = 1 THEN Word(opt, <<>>) ELSE Word("word", dirs[i \div 2])]

GetParameters(s) ==
  DefineWords(s)[Len(SortedNames)]
    \o ((IF s.libext = <<>> THEN <<>> ELSE <<Word("+libext", s.libext)>>)
          \o (Each("+incdir", s.incdir)
                \o (Pairs("-y", s.module_dir) \o Pairs("-v", s.library))))
-----------------------------------------------------------------------------
Dirs(s, type) ==
  CASE type = "module"  -> s.module_dir
    [] type = "include" -> s.incdir
    [] OTHER            -> s.incdir \o s.module_dir

(* The first path to exist: the name itself, then in each directory with   *)
(* no postfix and with each one.                                           *)
Found(s, f, type) ==
  LET dirs      == Dirs(s, type)
      postfixes == <<"">> \o s.libext
      there(d)  == {j \in DOMAIN postfixes : <<d, f, postfixes[j]>> \in Disk}
      having    == {i \in DOMAIN dirs : there(dirs[i]) # {}}
      dir       == dirs[Min(having)]
  IN  IF << <<>>, f, "" >> \in Disk THEN << <<>>, f, "" >>
      ELSE IF having = {} THEN NoPath
      ELSE <<dir, f, postfixes[Min(there(dir))]>>

(* file_path: a name not found is not remembered. *)
(* Mutant: what is found is not noted.            *)
MutFilePath(s, f, type) ==
  IF s.cache[f] # NoPath \/ Found(s, f, type) = NoPath THEN s
  ELSE [s EXCEPT !.cache[f] = Found(s, f, type)]
FilePath(s, f, type) ==
  IF s.cache[f] # NoPath \/ Found(s, f, type) = NoPath THEN s
  ELSE [s EXCEPT !.cache[f] = Found(s, f, type),
                 !.depend = @ \cup {Found(s, f, type)}]
-----------------------------------------------------------------------------
Init == self = New /\ args = <<>> /\ wanted = {} /\ taken = 0

Idle == args = <<>> /\ ~ self.died

(* parameter().  Mutant: the words left over stay from the call before. *)
MutParameter(ws) ==
  /\ Idle
  /\ args' = << [dir |-> <<>>, words |-> ws] >>
  /\ UNCHANGED <<self, wanted, taken>>
Parameter(ws) ==
  /\ Idle
  /\ args' = << [dir |-> <<>>, words |-> ws] >>
  /\ self' = [self EXCEPT !.unparsed = <<>>]
  /\ UNCHANGED <<wanted, taken>>

Fits(s) == Len(s.incdir) <= MaxDirs /\ Len(s.module_dir) <= MaxDirs
           /\ Len(s.libext) <= MaxDirs /\ Len(s.library) <= MaxDirs

(* The word that is next in the innermost list, and that list without it.  *)
NextWord == Head(Last(args).words)
Rest(ws) == Append(Front(args), [Last(args) EXCEPT !.words = ws \o Tail(@)])
Parsing ==
  args # <<>> /\ ~ self.died /\ Last(args).words # <<>> /\ taken' = taken + 1
NamesFile(w) == ~ IsOption(w) /\ self.next \in {"-f", "-F"}

(* parameter_file; -F also moves to the file's directory.  The program     *)
(* dies if the file is not there.                                          *)
ParseFile ==
  /\ Parsing /\ NamesFile(NextWord)
  /\ LET file  == Last(NextWord.arg)
         there == file \in DOMAIN ParamFiles
         path  == Last(args).dir \o NextWord.arg
     IN  /\ self' = [self EXCEPT !.next = "none", !.died = ~ there]
         /\ args' = IF there
                    THEN Append(Rest(<<>>),
                           [dir |-> IF self.next = "-F" THEN Front(path) ELSE <<>>,
                            words |-> ParamFiles[file]])
                    ELSE Rest(<<>>)
  /\ UNCHANGED wanted

Parse ==
  /\ Parsing /\ ~ NamesFile(NextWord)
  /\ LET w == NextWord
     IN  /\ self' = Parsed(self, Last(args).dir, w)
         /\ args' = Rest(Remaining(w))
         /\ wanted' = CASE Vcs(w, "+define") -> wanted \cup {Head(Head(w.arg))}
                        [] Gcc(w, "-D") -> wanted \cup {Head(w.arg)}
                        [] Gcc(w, "-U") -> wanted \ {Head(w.arg)}
                        [] OTHER -> wanted
  /\ Fits(self')

EndOfWords ==
  /\ args # <<>> /\ ~ self.died /\ Last(args).words = <<>>
  /\ args' = Front(args)
  /\ taken' = IF Len(args) = 1 THEN 0 ELSE taken
  /\ UNCHANGED <<self, wanted>>

(* `define, `undef and `undefineall of the source. *)
SourceDefine ==
  /\ Idle
  /\ \E n \in Names, v \in Values, ps \in Params :
       /\ self' = Define(self, n, v, ps, FALSE)
       /\ wanted' = wanted \ {n}
  /\ UNCHANGED <<args, taken>>
SourceUndef ==
  /\ Idle
  /\ \E n \in Names : self' = Undef(self, n) /\ wanted' = wanted \ {n}
  /\ UNCHANGED <<args, taken>>
SourceUndefineall == Idle /\ self' = Undefineall(self) /\ UNCHANGED <<args, wanted, taken>>

Look ==
  /\ Idle
  /\ \E f \in FileNames, t \in LookupTypes : self' = FilePath(self, f, t)
  /\ UNCHANGED <<args, wanted, taken>>

Next ==
  \/ \E ws \in Commands : Parameter(ws)
  \/ ParseFile \/ Parse \/ EndOfWords
  \/ SourceDefine \/ SourceUndef \/ SourceUndefineall
  \/ Look

Spec == Init /\ [][Next]_vars
-----------------------------------------------------------------------------
(* Types.  The words returned are words of this call. *)
GetoptTypeOK ==
  /\ \A n \in Names : self.defines[n].params \in Params \cup {""}
  /\ self.next \in {"none", "-f", "-F", "-v", "-y"}
  /\ \A f \in FileNames : self.cache[f] \in Disk \cup {NoPath}
  /\ args # <<>> => Len(self.unparsed) <= taken

(* A cached answer is the one that the directories, in their present       *)
(* order, and the postfixes give: whatever may change it flushes the cache.*)
CachedAnswersCurrent ==
  \A f \in FileNames, t \in LookupTypes :
    self.cache[f] # NoPath => self.cache[f] = Found(self, f, t)

(* A file that a lookup found is in the list of dependencies. *)
AnswersAreDependencies ==
  \A f \in FileNames : self.cache[f] \in self.depend \cup {NoPath}

(* `undefineall leaves the definitions that the command line made last,    *)
(* and these only: an entry remembers where it came from.                  *)
UndefineallKeepsWanted ==
  LET left == Undefineall(self)
  IN  ~ self.died => {n \in Names : left.defines[n].there} = wanted

(* The state of a new object that is given the parameters of this one. *)
Again == Read(New, GetParameters(self))
SameFound ==
  \A f \in FileNames, t \in LookupTypes : Found(Again, f, t) = Found(self, f, t)

(* What get_parameters makes of the macros: as long as every value is one  *)
(* part, and not "0", a new object that is given the parameters does not   *)
(* die, has the same macros with the same values, all without parameters   *)
(* and as definitions of the command line, and finds every name where this *)
(* one does.                                                               *)
Carried(v) == Len(v) <= 1 /\ v # <<"0">>
ParametersCarry ==
  (\A n \in Names : Carried(self.defines[n].value)) =>
    /\ ~ Again.died
    /\ Again.library = self.library /\ SameFound
    /\ \A n \in Names :
         Again.defines[n] = IF self.defines[n].there
                            THEN Entry(self.defines[n].value, "", TRUE) ELSE Undefined

(* "Returns a list of parameters that when passed through                  *)
(* $self->parameter() should result in the same state": the macros are     *)
(* the same, their values and their parameters, and so are the places of   *)
(* names.  It is not so.  (The mark of the command line is left aside:     *)
(* given back as options, every macro has it.)                             *)
ParametersReproduce ==
  /\ ~ Again.died
  /\ Again.library = self.library /\ SameFound
  /\ \A n \in Names : [Again.defines[n] EXCEPT !.cmdline = TRUE]
                        = [self.defines[n] EXCEPT !.cmdline = TRUE]
=============================================================================
