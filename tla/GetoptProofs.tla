---------------------------- MODULE GetoptProofs ----------------------------
(***************************************************************************)
(* TLAPS proofs about Getopt, for any command lines, parameter files,      *)
(* definitions, directories and files on disk, and every style.            *)
(***************************************************************************)
EXTENDS Getopt, SequenceLemmas, TLAPS

(* What the object's hash holds.  That the literals are strings is not     *)
(* known to the provers.                                                   *)
Part == STRING \cup {"", ".v"} \cup Definitions
Text == Seq(Part)
EntryType ==
  [there : BOOLEAN, value : Values \cup Text, params : Params \cup {""}, cmdline : BOOLEAN]
OptionsType ==
  [defines : [Names -> EntryType], incdir : Seq(Text), module_dir : Seq(Text),
   libext : Text, library : Seq(Text), cache : [FileNames -> Disk \cup {NoPath}],
   depend : SUBSET Disk, next : {"none", "-f", "-F", "-v", "-y"},
   unparsed : Seq(Words), died : BOOLEAN]
Lists(W) == [dir : Text, words : Seq(W)]
ListType == Lists(Words)

(* A sequence over a set is one over a larger set. *)
LEMMA Wider ==
  ASSUME NEW S, NEW T, S \subseteq T, NEW s \in Seq(S)
  PROVE  s \in Seq(T)
OBVIOUS

(* The places of a sequence are numbers.                                   *)
LEMMA Places ==
  ASSUME NEW S, NEW s \in Seq(S)
  PROVE  DOMAIN s \subseteq Nat
OBVIOUS

(* The first and last elements of a sequence, and what remains without.    *)
LEMMA Remainder ==
  ASSUME NEW S, NEW s \in Seq(S)
  PROVE  /\ s # <<>> => Head(s) \in S /\ Last(s) \in S /\ Tail(s) \in Seq(S)
         /\ Front(s) \in Seq(S)
<1>1. CASE s = <<>>
  <2>1. Front(s) = <<>>
    BY <1>1 DEF Front
  <2> QED
    BY <1>1, <2>1
<1>2. CASE s # <<>>
  BY <1>2, FrontLast
<1> QED
  BY <1>1, <1>2

(* The words of a command line. *)
LEMMA WordTypes ==
  ASSUME NEW w \in Words
  PROVE  /\ w.arg \in Text
         /\ w.opt = "+define" => /\ Head(w.arg) \in Definitions
                                 /\ w.arg # <<>> /\ w.arg \in Seq(Definitions)
         /\ w.opt \in {"-D", "-U"} => w.arg \in Definitions
<1> DEFINE Others == {"-f", "-F", "-v", "-y", "+incdir", "-I", "+libext", "word"}
<1>1. \A S : S \subseteq Part => Seq(S) \subseteq Text
  BY Wider DEF Text
<1>2. Seq(STRING) \subseteq Text /\ Seq(Definitions) \subseteq Text
  BY <1>1 DEF Part
<1>3. Definitions \subseteq Text
  BY <1>2 DEF Definitions
<1>4. \/ w.opt \in {"-D", "-U"} /\ w.arg \in Definitions
      \/ w.opt = "+define" /\ w.arg \in Seq(Definitions) /\ w.arg # <<>>
      \/ w.opt \in Others /\ w.arg \in Seq(STRING)
  BY DEF Words
<1>5. w.arg \in Seq(Definitions) /\ w.arg # <<>> => Head(w.arg) \in Definitions
  OBVIOUS
<1>6. "+define" \notin Others \cup {"-D", "-U"} /\ Others \cap {"-D", "-U"} = {}
  OBVIOUS
<1> HIDE DEF Others
<1> QED
  BY <1>2, <1>3, <1>4, <1>5, <1>6

(* A definition's name and value. *)
LEMMA DefinitionTypes ==
  ASSUME NEW d \in Definitions
  PROVE  Head(d) \in Names /\ Tail(d) \in Text
<1>1. d \in Seq(STRING) /\ d # <<>> /\ Head(d) \in Names
  BY DEF Definitions
<1>2. Tail(d) \in Seq(STRING)
  BY <1>1
<1>3. STRING \subseteq Part
  BY DEF Part
<1> QED
  BY <1>1, <1>2, <1>3, Wider DEF Text
-----------------------------------------------------------------------------
(* What a lookup gives is on the disk, or it is no path. *)
LEMMA LeastIn ==
  ASSUME NEW T, T \subseteq Nat, T # {}
  PROVE  Min(T) \in T /\ \A y \in T : Min(T) <= y
BY Least DEF Min

LEMMA FoundOnDisk ==
  ASSUME NEW s \in OptionsType, NEW f, NEW type
  PROVE  Found(s, f, type) \in Disk \cup {NoPath}
<1> DEFINE dirs      == Dirs(s, type)
           postfixes == <<"">> \o s.libext
           there(d)  == {j \in DOMAIN postfixes : <<d, f, postfixes[j]>> \in Disk}
           having    == {i \in DOMAIN dirs : there(dirs[i]) # {}}
           dir       == dirs[Min(having)]
<1>1. dirs \in Seq(Text)
  BY DEF Dirs, OptionsType
<1>2. postfixes \in Text
  <2>1. s.libext \in Text
    BY DEF OptionsType
  <2>2. <<"">> \in Text
    BY DEF Text, Part
  <2> QED
    BY <2>1, <2>2, Joined DEF Text
<1> HIDE DEF dirs, postfixes
<1>3. DOMAIN dirs \subseteq Nat /\ DOMAIN postfixes \subseteq Nat
  <2>1. postfixes \in Seq(Part)
    BY <1>2 DEF Text
  <2> QED
    BY <1>1, <2>1, Places
<1>4. CASE having # {}
  <2>1. having \subseteq Nat
    BY <1>3
  <2>2. Min(having) \in having
    BY <1>4, <2>1, LeastIn
  <2>3. there(dir) # {}
    BY <2>2
  <2>4. there(dir) \subseteq Nat
    BY <1>3
  <2>5. Min(there(dir)) \in there(dir)
    BY <2>3, <2>4, LeastIn
  <2>6. <<dir, f, postfixes[Min(there(dir))]>> \in Disk
    BY <2>5
  <2> QED
    BY <1>4, <2>6 DEF Found, dirs, postfixes
<1>5. CASE having = {}
  BY <1>5 DEF Found, dirs, postfixes
<1> QED
  BY <1>4, <1>5

(* A lookup depends on the directories and the postfixes only.             *)
SamePlaces(s, t) ==
  t.incdir = s.incdir /\ t.module_dir = s.module_dir /\ t.libext = s.libext
LEMMA FoundAgain ==
  ASSUME NEW s, NEW t, SamePlaces(s, t), NEW f, NEW type
  PROVE  Found(t, f, type) = Found(s, f, type)
<1>1. Dirs(t, type) = Dirs(s, type)
  BY DEF Dirs, SamePlaces
<1> QED
  BY <1>1 DEF Found, SamePlaces
-----------------------------------------------------------------------------
(* The methods.  What each changes of the table of definitions, and of     *)
(* what lookups depend on: nothing, or the cache is flushed.               *)
SameDefines(s, t) == t.defines = s.defines /\ t.died = s.died
SameLookups(s, t) == SamePlaces(s, t) /\ t.cache = s.cache /\ t.depend = s.depend
Looks(s, t) ==
  SameLookups(s, t) \/ t.cache = [f \in FileNames |-> NoPath]

(* Defining: the entry, or the program dies. *)
Enters(s, t, n, e) == t.defines = [s.defines EXCEPT ![n] = e]
LEMMA DefineDoes ==
  ASSUME NEW s \in OptionsType, NEW n \in Names, NEW v \in Values \cup Text,
         NEW ps \in Params \cup {""}, NEW cmdline \in BOOLEAN
  PROVE  LET t == Define(s, n, v, ps, cmdline)
         IN  /\ t \in OptionsType /\ SameLookups(s, t) /\ t.unparsed = s.unparsed
             /\ (t.died /\ t.defines = s.defines) \/ Enters(s, t, n, Entry(v, ps, cmdline))
<1> DEFINE t == Define(s, n, v, ps, cmdline)
           new == Entry(v, ps, cmdline)
<1>1. new \in EntryType
  BY DEF Entry, EntryType
<1>2. t = [s EXCEPT !.died = TRUE] \/ t = [s EXCEPT !.defines = [s.defines EXCEPT ![n] = new]]
  BY DEF Define
<1> HIDE DEF t, new
<1>3. CASE t = [s EXCEPT !.died = TRUE]
  BY <1>3 DEF OptionsType, SameLookups, SamePlaces, t
<1>4. CASE t = [s EXCEPT !.defines = [s.defines EXCEPT ![n] = new]]
  <2>1. s.defines \in [Names -> EntryType] /\ s.died \in BOOLEAN
    BY DEF OptionsType
  <2>2. [s.defines EXCEPT ![n] = new] \in [Names -> EntryType]
    BY <1>1, <2>1
  <2>3. /\ t \in OptionsType /\ t.defines = [s.defines EXCEPT ![n] = new]
        /\ t.died = s.died /\ t.unparsed = s.unparsed
        /\ SamePlaces(s, t) /\ t.cache = s.cache /\ t.depend = s.depend
    BY <1>4, <2>2 DEF OptionsType, SamePlaces
  <2> QED
    BY <2>3 DEF SameLookups, Enters, t, new
<1> QED
  BY <1>2, <1>3, <1>4

(* A definition of the command line is one with a mark. *)
LEMMA CmdlineDoes ==
  ASSUME NEW s \in OptionsType, NEW d \in Definitions
  PROVE  LET t == Cmdline(s, d)
         IN  /\ t \in OptionsType /\ SameLookups(s, t) /\ t.unparsed = s.unparsed
             /\ \/ t.died /\ t.defines = s.defines
                \/ Enters(s, t, Head(d), Entry(Tail(d), "", TRUE))
<1>1. Head(d) \in Names /\ Tail(d) \in Values \cup Text
  BY DefinitionTypes
<1> DEFINE none == ""
           n == Head(d)
           v == Tail(d)
           t == Define(s, n, v, none, TRUE)
<1>2. none \in Params \cup {""}
  OBVIOUS
<1> HIDE DEF none, n, v
<1>3. n \in Names /\ v \in Values \cup Text
  BY <1>1 DEF n, v
<1>4. /\ t \in OptionsType /\ SameLookups(s, t) /\ t.unparsed = s.unparsed
      /\ (t.died /\ t.defines = s.defines) \/ Enters(s, t, n, Entry(v, none, TRUE))
  BY <1>2, <1>3, DefineDoes, Zenon
<1>5. t = Cmdline(s, d)
  BY DEF Cmdline, none, n, v
<1> HIDE DEF t
<1> QED
  BY <1>4, <1>5 DEF none, n, v

LEMMA UndefDoes ==
  ASSUME NEW s \in OptionsType, NEW n \in Names
  PROVE  LET t == Undef(s, n)
         IN  /\ t \in OptionsType /\ SameLookups(s, t) /\ t.unparsed = s.unparsed
             /\ t.died = s.died /\ Enters(s, t, n, Undefined)
<1> DEFINE t == Undef(s, n)
           new == [s.defines EXCEPT ![n] = Undefined]
<1>1. s.defines \in [Names -> EntryType]
  BY DEF OptionsType
<1>2. Undefined \in EntryType
  <2>1. <<>> \in Text
    BY DEF Text
  <2> QED
    BY <2>1 DEF Undefined, EntryType
<1>3. new \in [Names -> EntryType]
  BY <1>1, <1>2
<1>4. t = [s EXCEPT !.defines = new]
  BY DEF Undef
<1> HIDE DEF new, t
<1>5. t \in OptionsType
  BY <1>3, <1>4 DEF OptionsType
<1>6. /\ SameLookups(s, t) /\ t.unparsed = s.unparsed
      /\ t.died = s.died /\ t.defines = new
  BY <1>4 DEF OptionsType, SameLookups, SamePlaces
<1> QED
  BY <1>5, <1>6 DEF new, t, Enters

(* What the other words do to the hash: lists grow, and where lookups      *)
(* depend on one the cache is flushed.                                     *)
Grown(s, t) ==
  /\ t \in OptionsType /\ SameDefines(s, t) /\ Looks(s, t)
  /\ t.depend = s.depend /\ t.unparsed = s.unparsed

LEMMA Appended ==
  ASSUME NEW S, NEW s \in Seq(S), NEW e \in S
  PROVE  Append(s, e) \in Seq(S) /\ Len(Append(s, e)) = Len(s) + 1
OBVIOUS

LEMMA FlushedType ==
  [f \in FileNames |-> NoPath] \in [FileNames -> Disk \cup {NoPath}]
OBVIOUS

LEMMA IncdirDoes ==
  ASSUME NEW s \in OptionsType, NEW d \in Text
  PROVE  Grown(s, Incdir(s, d))
<1> DEFINE dirs == Append(s.incdir, d)
           none == [f \in FileNames |-> NoPath]
<1>1. s.incdir \in Seq(Text)
  BY DEF OptionsType
<1>2. dirs \in Seq(Text)
  BY <1>1, Appended
<1>3. none \in [FileNames -> Disk \cup {NoPath}]
  BY FlushedType
<1>4. Incdir(s, d) = [s EXCEPT !.incdir = dirs, !.cache = none]
  BY DEF Incdir, Flushed, OptionsType
<1> HIDE DEF dirs, none
<1> QED
  BY <1>2, <1>3, <1>4 DEF OptionsType, Grown, SameDefines, Looks, none

LEMMA ModuleDirDoes ==
  ASSUME NEW s \in OptionsType, NEW d \in Text
  PROVE  Grown(s, ModuleDir(s, d))
<1> DEFINE dirs == Append(s.module_dir, d)
           none == [f \in FileNames |-> NoPath]
<1>1. s.module_dir \in Seq(Text)
  BY DEF OptionsType
<1>2. dirs \in Seq(Text)
  BY <1>1, Appended
<1>3. none \in [FileNames -> Disk \cup {NoPath}]
  BY FlushedType
<1>4. ModuleDir(s, d) = [s EXCEPT !.module_dir = dirs, !.cache = none]
  BY DEF ModuleDir, Flushed, OptionsType
<1> HIDE DEF dirs, none
<1> QED
  BY <1>2, <1>3, <1>4 DEF OptionsType, Grown, SameDefines, Looks, none

LEMMA LibraryDoes ==
  ASSUME NEW s \in OptionsType, NEW d \in Text
  PROVE  Grown(s, Library(s, d))
<1> DEFINE files == Append(s.library, d)
<1>1. s.library \in Seq(Text)
  BY DEF OptionsType
<1>2. files \in Seq(Text)
  BY <1>1, Appended
<1>3. Library(s, d) = [s EXCEPT !.library = files]
  BY DEF Library
<1> HIDE DEF files
<1> QED
  BY <1>2, <1>3 DEF OptionsType, Grown, SameDefines, Looks, SameLookups, SamePlaces

LEMMA LibextDoes ==
  ASSUME NEW s \in OptionsType, NEW postfixes \in Text
  PROVE  Grown(s, Libext(s, postfixes))
<1>1. s.libext \o postfixes \in Text
  <2>1. s.libext \in Text
    BY DEF OptionsType
  <2> QED
    BY <2>1, Joined DEF Text
<1> QED
  BY <1>1 DEF Libext, Flushed, OptionsType, Grown, SameDefines, Looks

LEMMA NextDoes ==
  ASSUME NEW s \in OptionsType, NEW next \in {"none", "-f", "-F", "-v", "-y"}
  PROVE  Grown(s, [s EXCEPT !.next = next])
BY DEF OptionsType, Grown, SameDefines, Looks, SameLookups, SamePlaces

(* First the one, then the other. *)
LEMMA GrownOn ==
  ASSUME NEW s, NEW t, NEW u, Grown(s, t), SameLookups(s, t), Grown(t, u)
  PROVE  Grown(s, u)
BY DEF Grown, SameDefines, Looks, SameLookups, SamePlaces

(* One word that does not name a parameter file. *)
ParsedAs(s, w, t) ==
  IF Vcs(w, "+define") THEN t = Cmdline(s, Head(w.arg))
  ELSE IF Gcc(w, "-D") THEN t = Cmdline(s, w.arg)
  ELSE IF Gcc(w, "-U") THEN t = Undef(s, Head(w.arg))
  ELSE SameDefines(s, t)

LEMMA ParsedDoes ==
  ASSUME NEW s \in OptionsType, NEW dir \in Text, NEW w \in Words,
         ~ (~ IsOption(w) /\ s.next \in {"-f", "-F"})
  PROVE  LET t == Parsed(s, dir, w)
         IN  /\ t \in OptionsType /\ Looks(s, t) /\ t.depend = s.depend
             /\ Len(t.unparsed) <= Len(s.unparsed) + 1 /\ ParsedAs(s, w, t)
<1> DEFINE t == Parsed(s, dir, w)
           path == dir \o w.arg
           next == [s EXCEPT !.next = "none"]
           more == [s EXCEPT !.unparsed = Append(@, w)]
<1>1. /\ w.arg \in Text
      /\ w.opt = "+define" => Head(w.arg) \in Definitions
      /\ w.opt \in {"-D", "-U"} => w.arg \in Definitions
  BY WordTypes
<1>2. path \in Text
  BY <1>1, Joined DEF Text
<1>3. Len(s.unparsed) \in Nat
  BY DEF OptionsType
<1>4. Grown(s, next) /\ SameLookups(s, next) /\ next \in OptionsType
  BY DEF OptionsType, Grown, SameDefines, Looks, SameLookups, SamePlaces
<1>5. \/ w.opt \in {"-f", "-F", "-v", "-y"} /\ t = [s EXCEPT !.next = w.opt]
      \/ Vcs(w, "+define") /\ t = Cmdline(s, Head(w.arg))
      \/ Gcc(w, "-D") /\ t = Cmdline(s, w.arg)
      \/ Gcc(w, "-U") /\ t = Undef(s, Head(w.arg))
      \/ (Vcs(w, "+incdir") \/ Gcc(w, "-I")) /\ t = Incdir(s, path)
      \/ Vcs(w, "+libext") /\ t = Libext(s, w.arg)
      \/ ~ IsOption(w) /\ t = Library(next, path)
      \/ ~ IsOption(w) /\ t = ModuleDir(next, path)
      \/ ~ Vcs(w, "+define") /\ ~ Gcc(w, "-D") /\ ~ Gcc(w, "-U") /\ t = more
  BY DEF Parsed, TakesNext, Vcs, Gcc
<1> HIDE DEF t, path, next, more
<1>6. ASSUME Grown(s, t), ~ Vcs(w, "+define"), ~ Gcc(w, "-D"), ~ Gcc(w, "-U")
      PROVE  /\ t \in OptionsType /\ Looks(s, t) /\ t.depend = s.depend
             /\ Len(t.unparsed) <= Len(s.unparsed) + 1 /\ ParsedAs(s, w, t)
  BY <1>3, <1>6 DEF Grown, ParsedAs
<1> SUFFICES /\ t \in OptionsType /\ Looks(s, t) /\ t.depend = s.depend
             /\ Len(t.unparsed) <= Len(s.unparsed) + 1 /\ ParsedAs(s, w, t)
  BY DEF t
<1>7. CASE w.opt \in {"-f", "-F", "-v", "-y"} /\ t = [s EXCEPT !.next = w.opt]
  BY <1>6, <1>7, NextDoes DEF Vcs, Gcc
<1>8. CASE Vcs(w, "+define") /\ t = Cmdline(s, Head(w.arg))
  <2>1. Head(w.arg) \in Definitions
    BY <1>1, <1>8 DEF Vcs
  <2>2. t \in OptionsType /\ SameLookups(s, t) /\ t.unparsed = s.unparsed
    BY <1>8, <2>1, CmdlineDoes
  <2> QED
    BY <1>3, <1>8, <2>2 DEF ParsedAs, Looks, SameLookups
<1>9. CASE Gcc(w, "-D") /\ t = Cmdline(s, w.arg)
  <2>1. w.arg \in Definitions /\ ~ Vcs(w, "+define")
    BY <1>1, <1>9 DEF Gcc, Vcs
  <2>2. t \in OptionsType /\ SameLookups(s, t) /\ t.unparsed = s.unparsed
    BY <1>9, <2>1, CmdlineDoes
  <2> QED
    BY <1>3, <1>9, <2>1, <2>2 DEF ParsedAs, Looks, SameLookups
<1>10. CASE Gcc(w, "-U") /\ t = Undef(s, Head(w.arg))
  <2>1. Head(w.arg) \in Names /\ ~ Vcs(w, "+define") /\ ~ Gcc(w, "-D")
    BY <1>1, <1>10, DefinitionTypes DEF Gcc, Vcs
  <2>2. t \in OptionsType /\ SameLookups(s, t) /\ t.unparsed = s.unparsed
    BY <1>10, <2>1, UndefDoes
  <2> QED
    BY <1>3, <1>10, <2>1, <2>2 DEF ParsedAs, Looks, SameLookups
<1>11. CASE (Vcs(w, "+incdir") \/ Gcc(w, "-I")) /\ t = Incdir(s, path)
  BY <1>2, <1>6, <1>11, IncdirDoes DEF Vcs, Gcc
<1>12. CASE Vcs(w, "+libext") /\ t = Libext(s, w.arg)
  BY <1>1, <1>6, <1>12, LibextDoes DEF Vcs, Gcc
<1>13. CASE ~ IsOption(w) /\ t = Library(next, path)
  <2>1. Grown(s, t)
    BY <1>2, <1>4, <1>13, LibraryDoes, GrownOn
  <2> QED
    BY <1>6, <1>13, <2>1 DEF IsOption
<1>14. CASE ~ IsOption(w) /\ t = ModuleDir(next, path)
  <2>1. Grown(s, t)
    BY <1>2, <1>4, <1>14, ModuleDirDoes, GrownOn
  <2> QED
    BY <1>6, <1>14, <2>1 DEF IsOption
<1>15. CASE ~ Vcs(w, "+define") /\ ~ Gcc(w, "-D") /\ ~ Gcc(w, "-U") /\ t = more
  <2> DEFINE over == Append(s.unparsed, w)
  <2>1. s.unparsed \in Seq(Words)
    BY DEF OptionsType
  <2>2. over \in Seq(Words) /\ Len(over) = Len(s.unparsed) + 1
    BY <2>1, Appended
  <2>3. t = [s EXCEPT !.unparsed = over]
    BY <1>15 DEF more
  <2> HIDE DEF over
  <2>4. /\ t \in OptionsType /\ SameDefines(s, t) /\ Looks(s, t) /\ t.depend = s.depend
        /\ t.unparsed = over
    BY <2>2, <2>3 DEF OptionsType, SameDefines, Looks, SameLookups, SamePlaces
  <2> QED
    BY <1>3, <1>15, <2>2, <2>4 DEF ParsedAs
<1> QED
  BY <1>5, <1>7, <1>8, <1>9, <1>10, <1>11, <1>12, <1>13, <1>14, <1>15
-----------------------------------------------------------------------------
(* Looking a file up: nothing new, or the path found is noted twice. *)
LEMMA FilePathDoes ==
  ASSUME NEW s \in OptionsType, NEW f \in FileNames, NEW type
  PROVE  LET t == FilePath(s, f, type)
             p == Found(s, f, type)
         IN  /\ t \in OptionsType /\ SameDefines(s, t) /\ SamePlaces(s, t)
             /\ t.unparsed = s.unparsed
             /\ t = s \/ (/\ t.cache = [s.cache EXCEPT ![f] = p]
                          /\ t.depend = s.depend \cup {p})
<1> DEFINE t == FilePath(s, f, type)
           p == Found(s, f, type)
           cache == [s.cache EXCEPT ![f] = p]
           depend == s.depend \cup {p}
<1>1. t = s \/ (p # NoPath /\ t = [s EXCEPT !.cache = cache, !.depend = depend])
  BY DEF FilePath
<1>2. p \in Disk \cup {NoPath}
  BY FoundOnDisk
<1>3. s.cache \in [FileNames -> Disk \cup {NoPath}] /\ s.depend \subseteq Disk
  BY DEF OptionsType
<1> HIDE DEF t, p
<1>4. cache \in [FileNames -> Disk \cup {NoPath}]
  BY <1>2, <1>3
<1>5. p # NoPath => depend \subseteq Disk
  BY <1>2, <1>3
<1> HIDE DEF cache, depend
<1>6. CASE t = s
  BY <1>6 DEF SameDefines, SamePlaces, t
<1>7. CASE p # NoPath /\ t = [s EXCEPT !.cache = cache, !.depend = depend]
  <2>1. t \in OptionsType
    BY <1>4, <1>5, <1>7 DEF OptionsType
  <2>2. /\ SameDefines(s, t) /\ SamePlaces(s, t) /\ t.unparsed = s.unparsed
        /\ t.cache = cache /\ t.depend = depend
    BY <1>7 DEF OptionsType, SameDefines, SamePlaces
  <2> QED
    BY <2>1, <2>2 DEF t, p, cache, depend
<1> QED
  BY <1>1, <1>6, <1>7

(* `undefineall: the definitions of the command line stay. *)
LEMMA UndefineallDoes ==
  ASSUME NEW s \in OptionsType
  PROVE  LET t == Undefineall(s)
         IN  /\ t \in OptionsType /\ SameLookups(s, t) /\ t.unparsed = s.unparsed
             /\ t.died = s.died
             /\ t.defines = [n \in Names |-> IF s.defines[n].cmdline
                                              THEN s.defines[n] ELSE Undefined]
<1> DEFINE t == Undefineall(s)
           new == [n \in Names |-> IF s.defines[n].cmdline
                                   THEN s.defines[n] ELSE Undefined]
<1>1. s.defines \in [Names -> EntryType]
  BY DEF OptionsType
<1>2. Undefined \in EntryType
  <2>1. <<>> \in Text
    BY DEF Text
  <2> QED
    BY <2>1 DEF Undefined, EntryType
<1>3. new \in [Names -> EntryType]
  BY <1>1, <1>2
<1>4. t = [s EXCEPT !.defines = new]
  BY DEF Undefineall, OptionsType
<1> HIDE DEF new, t
<1>5. t \in OptionsType
  BY <1>3, <1>4 DEF OptionsType
<1>6. /\ SameLookups(s, t) /\ t.unparsed = s.unparsed
      /\ t.died = s.died /\ t.defines = new
  BY <1>4 DEF OptionsType, SameLookups, SamePlaces
<1> QED
  BY <1>5, <1>6 DEF new, t

(* The words put back are words, and so are the lists. *)
LEMMA RemainingTypes ==
  ASSUME NEW w \in Words
  PROVE  Remaining(w) \in Seq(Words)
<1>1. CASE Vcs(w, "+define") /\ Len(w.arg) > 1
  <2> DEFINE rest == Tail(w.arg)
  <2>1. w.opt = "+define" /\ w.arg \in Seq(Definitions)
    BY <1>1, WordTypes DEF Vcs
  <2>2. rest \in Seq(Definitions) \ {<<>>}
    <3> DEFINE D == Definitions
    <3>1. w.arg \in Seq(D) /\ Len(w.arg) > 1
      BY <1>1, <2>1
    <3> HIDE DEF D
    <3>2. rest \in Seq(D) /\ Len(rest) = Len(w.arg) - 1 /\ Len(w.arg) \in Nat
      BY <3>1
    <3>3. rest # <<>>
      BY <3>1, <3>2
    <3> QED
      BY <3>2, <3>3 DEF D
  <2> HIDE DEF rest
  <2>3. Word("+define", rest) \in Words
    BY <2>2 DEF Words, Word
  <2>4. Remaining(w) = <<Word("+define", rest)>>
    BY <1>1, <2>1 DEF Remaining, rest
  <2> HIDE DEF Word
  <2> QED
    BY <2>3, <2>4
<1>2. CASE ~ (Vcs(w, "+define") /\ Len(w.arg) > 1)
  BY <1>2 DEF Remaining
<1> QED
  BY <1>1, <1>2

LEMMA ListTypes ==
  ASSUME NEW W, args \in Seq(Lists(W)), args # <<>>
  PROVE  /\ Front(args) \in Seq(Lists(W))
         /\ Last(args).dir \in Text /\ Last(args).words \in Seq(W)
         /\ Last(args).words # <<>> => NextWord \in W
<1>1. Last(args) \in Lists(W) /\ Front(args) \in Seq(Lists(W))
  BY Remainder
<1>2. Last(args).dir \in Text /\ Last(args).words \in Seq(W)
  BY <1>1 DEF Lists
<1> QED
  BY <1>1, <1>2, Remainder DEF NextWord

LEMMA RestTypes ==
  ASSUME NEW W, args \in Seq(Lists(W)), args # <<>>, Last(args).words # <<>>,
         NEW ws \in Seq(W)
  PROVE  Rest(ws) \in Seq(Lists(W))
<1> DEFINE list  == Last(args)
           words == ws \o Tail(list.words)
           new   == [list EXCEPT !.words = words]
<1>1. list \in Lists(W) /\ Front(args) \in Seq(Lists(W))
  BY Remainder
<1>2. list.words \in Seq(W)
  BY <1>1 DEF Lists
<1>3. Tail(list.words) \in Seq(W)
  BY <1>2, Remainder
<1>4. words \in Seq(W)
  BY <1>3, Joined
<1> HIDE DEF words
<1>5. new \in Lists(W)
  BY <1>1, <1>4 DEF Lists
<1>6. Append(Front(args), new) \in Seq(Lists(W))
  BY <1>1, <1>5, Appended
<1>7. new = [Last(args) EXCEPT !.words = ws \o Tail(@)]
  BY <1>1 DEF words, Lists
<1> QED
  BY <1>6, <1>7 DEF Rest
-----------------------------------------------------------------------------
(* The invariant.  An entry of the table is marked as the command line's   *)
(* if and only if the command line defined the name last, unless the       *)
(* program died; what the cache holds is a dependency.                     *)
Typed ==
  /\ self \in OptionsType /\ args \in Seq(ListType)
  /\ taken \in Nat /\ wanted \subseteq Names
Counted == args # <<>> => Len(self.unparsed) <= taken
Marked ==
  ~ self.died => \A n \in Names :
    n \in wanted <=> self.defines[n].there /\ self.defines[n].cmdline
OptInv == Typed /\ Counted /\ Marked /\ AnswersAreDependencies

LEMMA InitOpt == Init => OptInv
<1> SUFFICES ASSUME Init PROVE OptInv
  OBVIOUS
<1>1. /\ << <<>> >> \in Seq(Text) /\ <<".v">> \in Text /\ <<>> \in Seq(Text)
      /\ <<>> \in Seq(Words) /\ <<>> \in Seq(ListType)
  <2>1. <<>> \in Text
    BY DEF Text
  <2>2. ".v" \in Part
    BY DEF Part
  <2> QED
    BY <2>1, <2>2 DEF Text
<1>2. [n \in Names |-> Undefined] \in [Names -> EntryType]
  <2>1. <<>> \in Text
    BY DEF Text
  <2>2. Undefined \in EntryType
    BY <2>1 DEF Undefined, EntryType
  <2> QED
    BY <2>2
<1>3. New \in OptionsType
  BY <1>1, <1>2, FlushedType DEF New, OptionsType
<1>4. Typed
  BY <1>1, <1>3 DEF Init, Typed
<1>5. Counted
  BY DEF Init, Counted
<1>6. Marked
  BY DEF Init, New, Undefined, Marked
<1>7. AnswersAreDependencies
  BY DEF Init, New, AnswersAreDependencies
<1> QED
  BY <1>4, <1>5, <1>6, <1>7 DEF OptInv

(* Every method but file_path() keeps the dependencies.                    *)
LEMMA NotedStays ==
  ASSUME OptInv, Looks(self, self'), self'.depend = self.depend
  PROVE  AnswersAreDependencies'
BY DEF OptInv, AnswersAreDependencies, Looks, SameLookups

(* Where the table stays, the marks do. *)
LEMMA MarksStay ==
  ASSUME OptInv, self'.defines = self.defines, self'.died = self.died, wanted' = wanted
  PROVE  Marked'
BY DEF OptInv, Marked

(* One name is defined or undefined. *)
LEMMA MarksMove ==
  ASSUME OptInv, ~ self.died, NEW n \in Names, NEW e,
         Enters(self, self', n, e),
         \/ e.there /\ e.cmdline /\ wanted' = wanted \cup {n}
         \/ ~ (e.there /\ e.cmdline) /\ wanted' = wanted \ {n}
  PROVE  Marked'
<1> SUFFICES ASSUME NEW k \in Names
             PROVE  k \in wanted' <=> self'.defines[k].there /\ self'.defines[k].cmdline
  BY DEF Marked
<1>1. self.defines \in [Names -> EntryType]
  BY DEF OptInv, Typed, OptionsType
<1>2. self'.defines[k] = IF k = n THEN e ELSE self.defines[k]
  BY <1>1 DEF Enters
<1>3. k \in wanted <=> self.defines[k].there /\ self.defines[k].cmdline
  BY DEF OptInv, Marked
<1>4. CASE k = n
  BY <1>2, <1>4
<1>5. CASE k # n
  BY <1>2, <1>3, <1>5
<1> QED
  BY <1>4, <1>5

LEMMA MarksCmdline ==
  ASSUME OptInv, ~ self.died, NEW d \in Definitions,
         self' = Cmdline(self, d), wanted' = wanted \cup {Head(d)}
  PROVE  Marked' /\ wanted' \subseteq Names
<1> DEFINE n == Head(d)
           e == Entry(Tail(d), "", TRUE)
<1>1. self \in OptionsType /\ wanted \subseteq Names /\ n \in Names
  BY DefinitionTypes DEF OptInv, Typed
<1>2. e.there /\ e.cmdline
  BY DEF Entry
<1>3. self'.died \/ Enters(self, self', n, e)
  BY <1>1, CmdlineDoes
<1> HIDE DEF n, e
<1>4. wanted' = wanted \cup {n}
  BY DEF n
<1>5. CASE self'.died
  BY <1>1, <1>4, <1>5 DEF Marked
<1>6. CASE ~ self'.died
  BY <1>1, <1>2, <1>3, <1>4, <1>6, MarksMove
<1> QED
  BY <1>5, <1>6

LEMMA ParseOpt ==
  ASSUME OptInv, Parse
  PROVE  OptInv' /\ Looks(self, self')
<1> DEFINE w   == NextWord
           dir == Last(args).dir
<1>1. /\ self \in OptionsType /\ args \in Seq(ListType) /\ taken \in Nat
      /\ wanted \subseteq Names
  BY DEF OptInv, Typed
<1>2. /\ args # <<>> /\ ~ self.died /\ Last(args).words # <<>> /\ taken' = taken + 1
      /\ ~ (~ IsOption(w) /\ self.next \in {"-f", "-F"})
      /\ self' = Parsed(self, dir, w) /\ args' = Rest(Remaining(w))
      /\ wanted' = CASE Vcs(w, "+define") -> wanted \cup {Head(Head(w.arg))}
                     [] Gcc(w, "-D") -> wanted \cup {Head(w.arg)}
                     [] Gcc(w, "-U") -> wanted \ {Head(w.arg)}
                     [] OTHER -> wanted
  BY DEF Parse, Parsing, NamesFile
<1>3. w \in Words /\ dir \in Text
  BY <1>1, <1>2, ListTypes DEF ListType
<1> HIDE DEF w, dir
<1>4. /\ self' \in OptionsType /\ Looks(self, self') /\ self'.depend = self.depend
      /\ Len(self'.unparsed) <= Len(self.unparsed) + 1 /\ ParsedAs(self, w, self')
  BY <1>1, <1>2, <1>3, ParsedDoes
<1>5. args' \in Seq(ListType)
  BY <1>1, <1>2, <1>3, RemainingTypes, RestTypes DEF ListType
<1>6. Counted'
  <2>1. Len(self.unparsed) \in Nat /\ Len(self'.unparsed) \in Nat
    <3>1. self.unparsed \in Seq(Words) /\ self'.unparsed \in Seq(Words)
      BY <1>1, <1>4 DEF OptionsType
    <3> QED
      BY <3>1
  <2> QED
    BY <1>1, <1>2, <1>4, <2>1 DEF OptInv, Counted
<1>7. Marked' /\ wanted' \subseteq Names
  <2>1. CASE Vcs(w, "+define")
    <3>1. Head(w.arg) \in Definitions /\ ~ Gcc(w, "-D") /\ ~ Gcc(w, "-U")
      BY <1>3, <2>1, WordTypes DEF Vcs, Gcc
    <3>2. /\ self' = Cmdline(self, Head(w.arg))
          /\ wanted' = wanted \cup {Head(Head(w.arg))}
      BY <1>2, <1>4, <2>1, <3>1 DEF ParsedAs
    <3> QED
      BY <1>2, <3>1, <3>2, MarksCmdline
  <2>2. CASE ~ Vcs(w, "+define") /\ Gcc(w, "-D")
    <3>1. w.arg \in Definitions /\ ~ Gcc(w, "-U")
      BY <1>3, <2>2, WordTypes DEF Gcc
    <3>2. self' = Cmdline(self, w.arg) /\ wanted' = wanted \cup {Head(w.arg)}
      BY <1>2, <1>4, <2>2, <3>1 DEF ParsedAs
    <3> QED
      BY <1>2, <3>1, <3>2, MarksCmdline
  <2>3. CASE ~ Vcs(w, "+define") /\ ~ Gcc(w, "-D") /\ Gcc(w, "-U")
    <3> DEFINE n == Head(w.arg)
    <3>1. n \in Names
      BY <1>3, <2>3, WordTypes, DefinitionTypes DEF Gcc
    <3>2. self' = Undef(self, n) /\ wanted' = wanted \ {n}
      BY <1>2, <1>4, <2>3 DEF ParsedAs
    <3> HIDE DEF n
    <3>3. Enters(self, self', n, Undefined)
      BY <1>1, <3>1, <3>2, UndefDoes
    <3>4. ~ (Undefined.there /\ Undefined.cmdline)
      BY DEF Undefined
    <3>5. Marked'
      BY <1>2, <3>1, <3>2, <3>3, <3>4, MarksMove
    <3> QED
      BY <1>1, <3>2, <3>5
  <2>4. CASE ~ Vcs(w, "+define") /\ ~ Gcc(w, "-D") /\ ~ Gcc(w, "-U")
    <3>1. SameDefines(self, self') /\ wanted' = wanted
      BY <1>2, <1>4, <2>4 DEF ParsedAs
    <3> QED
      BY <1>1, <3>1, MarksStay DEF SameDefines
  <2> QED
    BY <2>1, <2>2, <2>3, <2>4
<1>8. AnswersAreDependencies'
  BY <1>4, NotedStays
<1>9. taken' \in Nat
  BY <1>1, <1>2
<1> QED
  BY <1>4, <1>5, <1>6, <1>7, <1>8, <1>9 DEF OptInv, Typed

LEMMA ParseFileOpt ==
  ASSUME OptInv, ParseFile
  PROVE  OptInv' /\ Looks(self, self')
<1> DEFINE w     == NextWord
           file  == Last(w.arg)
           there == file \in DOMAIN ParamFiles
           path  == Last(args).dir \o w.arg
           list  == [dir |-> IF self.next = "-F" THEN Front(path) ELSE <<>>,
                     words |-> ParamFiles[file]]
<1>1. /\ self \in OptionsType /\ args \in Seq(ListType) /\ taken \in Nat
      /\ wanted \subseteq Names
  BY DEF OptInv, Typed
<1>2. /\ args # <<>> /\ ~ self.died /\ Last(args).words # <<>> /\ taken' = taken + 1
      /\ self' = [self EXCEPT !.next = "none", !.died = ~ there]
      /\ args' = IF there THEN Append(Rest(<<>>), list) ELSE Rest(<<>>)
      /\ wanted' = wanted
  BY DEF ParseFile, Parsing
<1>3. w \in Words /\ Last(args).dir \in Text
  BY <1>1, <1>2, ListTypes DEF ListType
<1>4. /\ self' \in OptionsType /\ SameLookups(self, self')
      /\ self'.unparsed = self.unparsed /\ self'.defines = self.defines
  <2> DEFINE died == ~ there
  <2>1. self' = [self EXCEPT !.next = "none", !.died = died]
    BY <1>2
  <2>2. died \in BOOLEAN
    OBVIOUS
  <2> HIDE DEF died
  <2> QED
    BY <1>1, <2>1, <2>2 DEF OptionsType, SameLookups, SamePlaces
<1>5. Rest(<<>>) \in Seq(ListType)
  <2> DEFINE none == <<>>
  <2>1. none \in Seq(Words)
    OBVIOUS
  <2> HIDE DEF none
  <2>2. Rest(none) \in Seq(ListType)
    BY <1>1, <1>2, <2>1, RestTypes DEF ListType
  <2> QED
    BY <2>2 DEF none
<1>6. there => list \in ListType
  <2>1. path \in Text
    <3>1. w.arg \in Text
      BY <1>3, WordTypes
    <3> QED
      BY <1>3, <3>1, Joined DEF Text
  <2> HIDE DEF path
  <2>2. Front(path) \in Text /\ <<>> \in Text
    BY <2>1, Remainder DEF Text
  <2>3. there => ParamFiles[file] \in Seq(Words)
    BY GetoptAssumption
  <2> HIDE DEF there, file
  <2> QED
    BY <2>2, <2>3 DEF ListType, Lists
<1> HIDE DEF there, list
<1>7. args' \in Seq(ListType)
  BY <1>2, <1>5, <1>6, Appended
<1>8. Counted'
  <2>1. Len(self.unparsed) \in Nat
    <3>1. self.unparsed \in Seq(Words)
      BY <1>1 DEF OptionsType
    <3> QED
      BY <3>1
  <2> QED
    BY <1>1, <1>2, <1>4, <2>1 DEF OptInv, Counted
<1>9. Marked'
  BY <1>2, <1>4 DEF OptInv, Marked
<1>10. AnswersAreDependencies' /\ Looks(self, self')
  BY <1>4, NotedStays DEF SameLookups, Looks
<1>11. taken' \in Nat /\ wanted' \subseteq Names
  BY <1>1, <1>2
<1> QED
  BY <1>4, <1>7, <1>8, <1>9, <1>10, <1>11 DEF OptInv, Typed

(* The source's directives, and the calls of the program.                  *)
LEMMA SourceOpt ==
  ASSUME OptInv, SourceDefine \/ SourceUndef \/ SourceUndefineall
  PROVE  OptInv' /\ Looks(self, self')
<1>1. self \in OptionsType /\ wanted \subseteq Names /\ args = <<>> /\ ~ self.died
  BY DEF OptInv, Typed, SourceDefine, SourceUndef, SourceUndefineall, Idle
<1>2. UNCHANGED <<args, taken>>
  BY DEF SourceDefine, SourceUndef, SourceUndefineall
<1> SUFFICES /\ self' \in OptionsType /\ SameLookups(self, self')
             /\ Marked' /\ wanted' \subseteq Names
  <2>1. Counted'
    BY <1>1, <1>2 DEF Counted
  <2> QED
    BY <1>2, <2>1, NotedStays DEF OptInv, Typed, SameLookups, Looks
<1>3. CASE SourceDefine
  <2>1. PICK n \in Names, v \in Values, ps \in Params :
          self' = Define(self, n, v, ps, FALSE) /\ wanted' = wanted \ {n}
    BY <1>3 DEF SourceDefine
  <2> DEFINE e == Entry(v, ps, FALSE)
             t == Define(self, n, v, ps, FALSE)
  <2>2. v \in Values \cup Text /\ ps \in Params \cup {""} /\ FALSE \in BOOLEAN
    OBVIOUS
  <2>3. /\ t \in OptionsType /\ SameLookups(self, t)
        /\ (t.died /\ t.defines = self.defines) \/ Enters(self, t, n, e)
    BY <1>1, <2>2, DefineDoes, Zenon
  <2>4. ~ (e.there /\ e.cmdline)
    BY DEF Entry
  <2> HIDE DEF e, t
  <2>5. self' = t
    BY <2>1 DEF t
  <2>6. CASE t.died
    BY <1>1, <2>1, <2>3, <2>5, <2>6 DEF Marked
  <2>7. CASE ~ t.died
    <3>1. Marked'
      BY <1>1, <2>1, <2>3, <2>4, <2>5, <2>7, MarksMove
    <3> QED
      BY <1>1, <2>1, <2>3, <2>5, <3>1
  <2> QED
    BY <2>6, <2>7
<1>4. CASE SourceUndef
  <2>1. PICK n \in Names : self' = Undef(self, n) /\ wanted' = wanted \ {n}
    BY <1>4 DEF SourceUndef
  <2>2. self' \in OptionsType /\ SameLookups(self, self') /\ Enters(self, self', n, Undefined)
    BY <1>1, <2>1, UndefDoes
  <2>3. ~ (Undefined.there /\ Undefined.cmdline)
    BY DEF Undefined
  <2>4. Marked'
    BY <1>1, <2>1, <2>2, <2>3, MarksMove
  <2> QED
    BY <1>1, <2>1, <2>2, <2>4
<1>5. CASE SourceUndefineall
  <2>1. self' = Undefineall(self) /\ wanted' = wanted
    BY <1>5 DEF SourceUndefineall
  <2>2. /\ self' \in OptionsType /\ SameLookups(self, self') /\ self'.died = self.died
        /\ self'.defines = [n \in Names |-> IF self.defines[n].cmdline
                                            THEN self.defines[n] ELSE Undefined]
    BY <1>1, <2>1, UndefineallDoes
  <2>3. Marked'
    <3> SUFFICES ASSUME ~ self.died, NEW n \in Names
                 PROVE  n \in wanted' <=> self'.defines[n].there /\ self'.defines[n].cmdline
      BY <1>1 DEF Marked
    <3>1. n \in wanted <=> self.defines[n].there /\ self.defines[n].cmdline
      BY DEF OptInv, Marked
    <3>2. self'.defines[n] = IF self.defines[n].cmdline THEN self.defines[n] ELSE Undefined
      BY <2>2
    <3>3. CASE self.defines[n].cmdline
      BY <2>1, <3>1, <3>2, <3>3
    <3>4. CASE ~ self.defines[n].cmdline
      <4>1. Undefined.there = FALSE
        BY DEF Undefined
      <4> QED
        BY <2>1, <3>1, <3>2, <3>4, <4>1
    <3> QED
      BY <3>3, <3>4
  <2> QED
    BY <1>1, <2>1, <2>2, <2>3
<1> QED
  BY <1>3, <1>4, <1>5

LEMMA LookOpt ==
  ASSUME OptInv, Look
  PROVE  OptInv'
<1>1. /\ self \in OptionsType /\ UNCHANGED <<args, wanted, taken>> /\ args = <<>>
  BY DEF OptInv, Typed, Look, Idle
<1>2. PICK f \in FileNames, t \in LookupTypes : self' = FilePath(self, f, t)
  BY DEF Look
<1> DEFINE p == Found(self, f, t)
<1>3. /\ self' \in OptionsType /\ SameDefines(self, self')
      /\ self'.unparsed = self.unparsed
      /\ self' = self \/ (/\ self'.cache = [self.cache EXCEPT ![f] = p]
                          /\ self'.depend = self.depend \cup {p})
  BY <1>1, <1>2, FilePathDoes
<1> HIDE DEF p
<1>4. AnswersAreDependencies'
  <2>1. self.cache \in [FileNames -> Disk \cup {NoPath}]
    BY <1>1 DEF OptionsType
  <2> QED
    BY <1>3, <2>1 DEF OptInv, AnswersAreDependencies
<1>5. Marked'
  BY <1>1, <1>3, MarksStay DEF SameDefines
<1> QED
  BY <1>1, <1>3, <1>4, <1>5 DEF OptInv, Typed, Counted

LEMMA ParameterOpt ==
  ASSUME OptInv, NEW ws \in Commands, Parameter(ws)
  PROVE  OptInv' /\ Looks(self, self')
<1>1. /\ self \in OptionsType /\ wanted' = wanted /\ taken' = taken
      /\ taken \in Nat /\ wanted \subseteq Names
      /\ self' = [self EXCEPT !.unparsed = <<>>]
      /\ args' = << [dir |-> <<>>, words |-> ws] >>
  BY DEF OptInv, Typed, Parameter
<1>2. /\ self' \in OptionsType /\ SameLookups(self, self') /\ SameDefines(self, self')
      /\ self'.unparsed = <<>>
  <2>1. <<>> \in Seq(Words)
    OBVIOUS
  <2> QED
    BY <1>1, <2>1 DEF OptionsType, SameLookups, SamePlaces, SameDefines
<1>3. args' \in Seq(ListType)
  <2>1. ws \in Seq(Words) /\ <<>> \in Text
    BY GetoptAssumption DEF Text
  <2>2. [dir |-> <<>>, words |-> ws] \in ListType
    BY <2>1 DEF ListType, Lists
  <2> QED
    BY <1>1, <2>2
<1>4. Marked' /\ Looks(self, self') /\ AnswersAreDependencies'
  BY <1>1, <1>2, MarksStay, NotedStays DEF SameDefines, Looks, SameLookups
<1>5. Counted'
  BY <1>1, <1>2 DEF Counted
<1> QED
  BY <1>1, <1>2, <1>3, <1>4, <1>5 DEF OptInv, Typed

LEMMA EndOpt ==
  ASSUME OptInv, EndOfWords
  PROVE  OptInv' /\ self' = self
<1>1. /\ self' = self /\ wanted' = wanted /\ args # <<>> /\ args' = Front(args)
      /\ args \in Seq(ListType) /\ taken \in Nat
      /\ taken' = IF Len(args) = 1 THEN 0 ELSE taken
  BY DEF OptInv, Typed, EndOfWords
<1>2. args' \in Seq(ListType)
  BY <1>1, Remainder
<1>3. Counted'
  <2>1. Len(args) = 1 => args' = <<>>
    BY <1>1 DEF Front
  <2> QED
    BY <1>1, <2>1 DEF OptInv, Counted
<1> QED
  BY <1>1, <1>2, <1>3 DEF OptInv, Typed, Marked, AnswersAreDependencies

LEMMA NextOpt == OptInv /\ [Next]_vars => OptInv'
<1> SUFFICES ASSUME OptInv, [Next]_vars PROVE OptInv'
  OBVIOUS
<1>1. CASE UNCHANGED vars
  BY <1>1 DEF vars, OptInv, Typed, Counted, Marked, AnswersAreDependencies
<1>2. ASSUME NEW ws \in Commands, Parameter(ws) PROVE OptInv'
  BY <1>2, ParameterOpt
<1>3. CASE ParseFile
  BY <1>3, ParseFileOpt
<1>4. CASE Parse
  BY <1>4, ParseOpt
<1>5. CASE EndOfWords
  BY <1>5, EndOpt
<1>6. CASE SourceDefine \/ SourceUndef \/ SourceUndefineall
  BY <1>6, SourceOpt
<1>7. CASE Look
  BY <1>7, LookOpt
<1> QED
  BY <1>1, <1>2, <1>3, <1>4, <1>5, <1>6, <1>7 DEF Next

LEMMA Invariance == Spec => []OptInv
BY InitOpt, NextOpt, PTL DEF Spec
-----------------------------------------------------------------------------
(* Types.  The words that a call returns are no more than it parsed. *)
THEOREM OptionTypes == Spec => []GetoptTypeOK
<1>1. OptInv => GetoptTypeOK
  <2> SUFFICES ASSUME OptInv PROVE GetoptTypeOK
    OBVIOUS
  <2>1. self \in OptionsType
    BY DEF OptInv, Typed
  <2>2. \A n \in Names : self.defines[n].params \in Params \cup {""}
    <3>1. self.defines \in [Names -> EntryType]
      BY <2>1 DEF OptionsType
    <3> QED
      BY <3>1 DEF EntryType
  <2>3. /\ self.next \in {"none", "-f", "-F", "-v", "-y"}
        /\ \A f \in FileNames : self.cache[f] \in Disk \cup {NoPath}
    BY <2>1 DEF OptionsType
  <2> QED
    BY <2>2, <2>3 DEF OptInv, Counted, GetoptTypeOK
<1> QED
  BY <1>1, Invariance, PTL

(* file_path(): what it returns is in the list of dependencies. *)
THEOREM AnswersNoted == Spec => []AnswersAreDependencies
<1>1. OptInv => AnswersAreDependencies
  BY DEF OptInv
<1> QED
  BY <1>1, Invariance, PTL

(* undefineall() leaves the names that the command line defined last, and  *)
(* these only: the mark of an entry follows every way of defining it.      *)
THEOREM CommandLineStays == Spec => []UndefineallKeepsWanted
<1>1. OptInv => UndefineallKeepsWanted
  <2> SUFFICES ASSUME OptInv, ~ self.died
               PROVE  {n \in Names : Undefineall(self).defines[n].there} = wanted
    BY DEF UndefineallKeepsWanted
  <2>1. self \in OptionsType /\ wanted \subseteq Names
    BY DEF OptInv, Typed
  <2>2. Undefineall(self).defines = [n \in Names |-> IF self.defines[n].cmdline
                                              THEN self.defines[n] ELSE Undefined]
    BY <2>1, UndefineallDoes
  <2>3. ASSUME NEW n \in Names
        PROVE  n \in wanted <=> Undefineall(self).defines[n].there
    <3> DEFINE entry == self.defines[n]
    <3>1. n \in wanted <=> entry.there /\ entry.cmdline
      BY DEF OptInv, Marked
    <3>2. Undefineall(self).defines[n] = IF entry.cmdline THEN entry ELSE Undefined
      BY <2>2
    <3>3. entry.there \in BOOLEAN
      BY <2>1 DEF OptionsType, EntryType
    <3> HIDE DEF entry
    <3>4. CASE entry.cmdline
      BY <3>1, <3>2, <3>3, <3>4
    <3>5. CASE ~ entry.cmdline
      <4>1. Undefined.there = FALSE
        BY DEF Undefined
      <4> QED
        BY <3>1, <3>2, <3>5, <4>1
    <3> QED
      BY <3>4, <3>5
  <2> QED
    BY <2>1, <2>3
<1> QED
  BY <1>1, Invariance, PTL

(* The cache never answers what the directories, in their present order,   *)
(* and the postfixes do not give: adding one flushes it.  The key of the   *)
(* cache leaves the type of a lookup out, so that this needs a program     *)
(* that asks for one type only, as the preprocessor does.                  *)
THEOREM CacheIsCurrent ==
  ASSUME \A t, u \in LookupTypes : t = u
  PROVE  Spec => []CachedAnswersCurrent
<1>1. Init => CachedAnswersCurrent
  BY DEF Init, New, CachedAnswersCurrent
<1>2. OptInv /\ CachedAnswersCurrent /\ [Next]_vars => CachedAnswersCurrent'
  <2> SUFFICES ASSUME OptInv, CachedAnswersCurrent, [Next]_vars,
                      NEW f \in FileNames, NEW t \in LookupTypes, self'.cache[f] # NoPath
               PROVE  self'.cache[f] = Found(self', f, t)
    BY DEF CachedAnswersCurrent
  <2>1. ASSUME Looks(self, self') PROVE self'.cache[f] = Found(self', f, t)
    <3>1. SameLookups(self, self')
      BY <2>1 DEF Looks
    <3> QED
      BY <3>1, FoundAgain DEF SameLookups, CachedAnswersCurrent
  <2>2. ASSUME self' = self PROVE self'.cache[f] = Found(self', f, t)
    BY <2>2 DEF CachedAnswersCurrent
  <2>3. CASE Look
    <3>1. PICK g \in FileNames, u \in LookupTypes : self' = FilePath(self, g, u)
      BY <2>3 DEF Look
    <3>2. self \in OptionsType /\ u = t
      BY DEF OptInv, Typed
    <3> DEFINE p == Found(self, g, t)
    <3>3. /\ SamePlaces(self, self')
          /\ self' = self \/ self'.cache = [self.cache EXCEPT ![g] = p]
      BY <3>1, <3>2, FilePathDoes
    <3>4. self.cache \in [FileNames -> Disk \cup {NoPath}]
      BY <3>2 DEF OptionsType
    <3>5. Found(self', f, t) = Found(self, f, t)
      BY <3>3, FoundAgain
    <3> HIDE DEF p
    <3>6. self'.cache[f] = self.cache[f] \/ (f = g /\ self'.cache[f] = p)
      BY <3>3, <3>4
    <3> QED
      BY <3>5, <3>6 DEF p, CachedAnswersCurrent
  <2>4. ASSUME NEW ws \in Commands, Parameter(ws)
        PROVE  self'.cache[f] = Found(self', f, t)
    BY <2>1, <2>4, ParameterOpt
  <2>5. CASE ParseFile
    BY <2>1, <2>5, ParseFileOpt
  <2>6. CASE Parse
    BY <2>1, <2>6, ParseOpt
  <2>7. CASE EndOfWords
    BY <2>2, <2>7, EndOpt
  <2>8. CASE SourceDefine \/ SourceUndef \/ SourceUndefineall
    BY <2>1, <2>8, SourceOpt
  <2>9. CASE UNCHANGED vars
    BY <2>2, <2>9 DEF vars
  <2> QED
    BY <2>3, <2>4, <2>5, <2>6, <2>7, <2>8, <2>9 DEF Next
<1> QED
  BY <1>1, <1>2, Invariance, PTL DEF Spec
-----------------------------------------------------------------------------
(* The states that reading goes through: each is the one before with the   *)
(* next word parsed.                                                       *)
ReadingTo(s, ws, n, h) ==
  h = [k \in 0 .. n |-> IF k = 0 THEN s ELSE Whole(h[k - 1], ws[k])]

LEMMA ReadingOn ==
  ASSUME NEW s, NEW ws, NEW n \in Nat, NEW h, ReadingTo(s, ws, n, h)
  PROVE  \E g : ReadingTo(s, ws, n + 1, g)
<1> DEFINE g == [k \in 0 .. n + 1 |-> IF k = n + 1 THEN Whole(h[n], ws[n + 1]) ELSE h[k]]
<1>1. \A k \in 0 .. n : h[k] = IF k = 0 THEN s ELSE Whole(h[k - 1], ws[k])
  BY Zenon DEF ReadingTo
<1>2. /\ \A k \in 0 .. n : k \in 0 .. n + 1 /\ k # n + 1 /\ g[k] = h[k]
      /\ n + 1 \in 0 .. n + 1 /\ g[n + 1] = Whole(h[n], ws[n + 1])
  OBVIOUS
<1>3. ASSUME NEW k \in 0 .. n + 1
      PROVE  g[k] = IF k = 0 THEN s ELSE Whole(g[k - 1], ws[k])
  <2>1. CASE k = n + 1
    <3>1. k # 0 /\ k - 1 = n /\ n \in 0 .. n
      BY <2>1
    <3> QED
      BY <1>2, <2>1, <3>1
  <2>2. CASE k # n + 1
    <3>1. k \in 0 .. n /\ (k # 0 => k - 1 \in 0 .. n)
      BY <2>2
    <3> QED
      BY <1>1, <1>2, <3>1
  <2> QED
    BY <2>1, <2>2
<1>4. g = [k \in 0 .. n + 1 |-> g[k]]
  OBVIOUS
<1> HIDE DEF g
<1>5. g = [k \in 0 .. n + 1 |-> IF k = 0 THEN s ELSE Whole(g[k - 1], ws[k])]
  BY <1>3, <1>4, Zenon
<1> QED
  BY <1>5 DEF ReadingTo

LEMMA ReadingIs ==
  ASSUME NEW S, NEW s, NEW ws \in Seq(S)
  PROVE  /\ Reading(s, ws)[0] = s
         /\ \A n \in 1 .. Len(ws) : Reading(s, ws)[n] = Whole(Reading(s, ws)[n - 1], ws[n])
<1> DEFINE T == {n \in Nat : \E h : ReadingTo(s, ws, n, h)}
           c == Reading(s, ws)
<1>1. Len(ws) \in Nat
  OBVIOUS
<1>2. 0 \in T
  <2>1. ReadingTo(s, ws, 0, [k \in 0 .. 0 |-> s])
    BY DEF ReadingTo
  <2> QED
    BY <2>1
<1>3. \A n \in Nat : n \in T => n + 1 \in T
  BY ReadingOn
<1>4. Len(ws) \in T
  <2> HIDE DEF T
  <2> QED
    BY <1>1, <1>2, <1>3, Induction
<1>5. c = CHOOSE h : ReadingTo(s, ws, Len(ws), h)
  BY DEF Reading, ReadingTo
<1> HIDE DEF c
<1>6. ReadingTo(s, ws, Len(ws), c)
  BY <1>4, <1>5
<1>7. \A n \in 0 .. Len(ws) : c[n] = IF n = 0 THEN s ELSE Whole(c[n - 1], ws[n])
  BY <1>6, Zenon DEF ReadingTo
<1>8. 0 \in 0 .. Len(ws) /\ \A n \in 1 .. Len(ws) : n \in 0 .. Len(ws) /\ n # 0
  BY <1>1
<1> QED
  BY <1>7, <1>8 DEF c

(* Reading two lists of words is reading the one, then the other. *)
LEMMA ReadJoined ==
  ASSUME NEW S, NEW s, NEW a \in Seq(S), NEW b \in Seq(S)
  PROVE  Read(s, a \o b) = Read(Read(s, a), b)
<1> DEFINE ab == a \o b
           h == Reading(s, ab)
           ha == Reading(s, a)
           u == ha[Len(a)]
           hb == Reading(u, b)
           T == {n \in Nat : n <= Len(a) => h[n] = ha[n]}
           U == {n \in Nat : n <= Len(b) => h[Len(a) + n] = hb[n]}
<1>1. ab \in Seq(S) /\ Joining(ab, a, b)
  BY Joined
<1>2. Len(a) \in Nat /\ Len(b) \in Nat /\ Len(ab) \in Nat
  BY <1>1
<1>3. /\ h[0] = s /\ \A n \in 1 .. Len(ab) : h[n] = Whole(h[n - 1], ab[n])
      /\ ha[0] = s /\ \A n \in 1 .. Len(a) : ha[n] = Whole(ha[n - 1], a[n])
      /\ hb[0] = u /\ \A n \in 1 .. Len(b) : hb[n] = Whole(hb[n - 1], b[n])
  <2> HIDE DEF ab, u
  <2> QED
    BY <1>1, ReadingIs
<1>4. Read(s, ab) = h[Len(ab)] /\ Read(s, a) = u /\ Read(u, b) = hb[Len(b)]
  BY DEF Read
<1> HIDE DEF ab, h, ha, hb, u
<1>5. \A n \in Nat : n <= Len(a) => h[n] = ha[n]
  <2>1. 0 \in T
    BY <1>3
  <2>2. ASSUME NEW n \in Nat, n \in T, n + 1 <= Len(a) PROVE h[n + 1] = ha[n + 1]
    <3>1. n + 1 \in 1 .. Len(a) /\ (n + 1) - 1 = n /\ n <= Len(a)
      BY <1>2, <2>2
    <3>2. n + 1 \in 1 .. Len(ab) /\ ab[n + 1] = a[n + 1]
      BY <1>1, <3>1 DEF Joining
    <3>3. h[n] = ha[n]
      BY <2>2, <3>1
    <3> QED
      BY <1>3, <3>1, <3>2, <3>3
  <2>3. \A n \in Nat : n \in T => n + 1 \in T
    BY <2>2
  <2> HIDE DEF T
  <2>4. \A n \in Nat : n \in T
    BY <2>1, <2>3, Induction
  <2> QED
    BY <2>4 DEF T
<1>6. \A n \in Nat : n <= Len(b) => h[Len(a) + n] = hb[n]
  <2>1. 0 \in U
    <3>1. h[Len(a)] = u
      BY <1>2, <1>5 DEF u
    <3> QED
      BY <1>2, <1>3, <3>1
  <2>2. ASSUME NEW n \in Nat, n \in U, n + 1 <= Len(b)
        PROVE  h[Len(a) + (n + 1)] = hb[n + 1]
    <3>1. n + 1 \in 1 .. Len(b) /\ (n + 1) - 1 = n /\ n <= Len(b)
          /\ (Len(a) + (n + 1)) - 1 = Len(a) + n /\ Len(a) + (n + 1) # 0
      BY <1>2, <2>2
    <3>2. Len(a) + (n + 1) \in 1 .. Len(ab) /\ ab[Len(a) + (n + 1)] = b[n + 1]
      BY <1>1, <3>1 DEF Joining
    <3>3. h[Len(a) + n] = hb[n]
      BY <2>2, <3>1
    <3> QED
      BY <1>3, <3>1, <3>2, <3>3
  <2>3. \A n \in Nat : n \in U => n + 1 \in U
    BY <2>2
  <2> HIDE DEF U
  <2>4. \A n \in Nat : n \in U
    BY <2>1, <2>3, Induction
  <2> QED
    BY <2>4 DEF U
<1>7. h[Len(ab)] = hb[Len(b)]
  <2>1. Len(ab) = Len(a) + Len(b)
    BY <1>1 DEF Joining
  <2> QED
    BY <1>2, <1>6, <2>1
<1> QED
  BY <1>4, <1>7 DEF ab
-----------------------------------------------------------------------------
(* New objects that have parsed words without losing any. *)
NoPaths == [f \in FileNames |-> NoPath]
Objects(defs, inc, mod, ext, lib, next) ==
  [defines : {defs}, incdir : {inc}, module_dir : {mod}, libext : {ext},
   library : {lib}, cache : {NoPaths}, depend : {{}}, next : {next},
   unparsed : {<<>>}, died : {FALSE}]

(* What one word does to them. *)
LEMMA PathAlone ==
  ASSUME NEW d \in Text
  PROVE  <<>> \o d = d
BY ConcatEmptySeq DEF Text

(* A word that is no +define. *)
LEMMA WholeOther ==
  ASSUME NEW s, NEW w, ~ Vcs(w, "+define")
  PROVE  Whole(s, w) = Parsed(s, <<>>, w)
BY Zenon DEF Whole

(* A word has one meaning. *)
LEMMA OneMeaning ==
  ASSUME NEW w, NEW opt, w.opt = opt,
         opt \in {"+define", "+incdir", "+libext", "-v", "-y", "word"}
  PROVE  /\ \A o \in {"+define", "+incdir", "+libext", "-v", "-y"} : Vcs(w, o) => opt = o
         /\ \A o \in {"-D", "-U", "-I"} : ~ Gcc(w, o)
         /\ opt \in {"+define", "+incdir", "+libext", "word"} => ~ TakesNext(w)
         /\ opt \in {"-v", "-y", "+define", "+incdir", "+libext"} /\ VcsStyle
              => IsOption(w) /\ Vcs(w, opt)
         /\ opt = "word" => ~ IsOption(w)
BY DEF Vcs, Gcc, TakesNext, IsOption

(* A directory or a postfix goes to the end of its list. *)
LEMMA WholeIncdir ==
  ASSUME VcsStyle, NEW defs, NEW inc, NEW mod, NEW ext, NEW lib, NEW d \in Text,
         NEW s \in Objects(defs, inc, mod, ext, lib, "none")
  PROVE  Whole(s, Word("+incdir", d)) \in Objects(defs, Append(inc, d), mod, ext, lib, "none")
<1> DEFINE w == Word("+incdir", d)
           dirs == Append(inc, d)
<1>1. w.opt = "+incdir" /\ w.arg = d
  BY DEF Word
<1> HIDE DEF w
<1>2. /\ Vcs(w, "+incdir") /\ IsOption(w) /\ ~ Vcs(w, "+define") /\ ~ TakesNext(w)
      /\ ~ Gcc(w, "-D") /\ ~ Gcc(w, "-U") /\ ~ Vcs(w, "+libext")
  BY <1>1, OneMeaning
<1>3. Whole(s, w) = Incdir(s, <<>> \o w.arg)
  BY <1>2, WholeOther DEF Parsed
<1>4. <<>> \o w.arg = d
  BY <1>1, PathAlone
<1>5. Incdir(s, d) = [s EXCEPT !.incdir = dirs, !.cache = NoPaths]
  BY DEF Incdir, Flushed, Objects, NoPaths
<1> HIDE DEF dirs
<1>6. Incdir(s, d) \in Objects(defs, dirs, mod, ext, lib, "none")
  BY <1>5 DEF Objects
<1> QED
  BY <1>3, <1>4, <1>6 DEF w, dirs

LEMMA WholeLibext ==
  ASSUME VcsStyle, NEW defs, NEW inc, NEW mod, NEW ext, NEW lib, NEW postfixes,
         NEW s \in Objects(defs, inc, mod, ext, lib, "none")
  PROVE  Whole(s, Word("+libext", postfixes))
           \in Objects(defs, inc, mod, ext \o postfixes, lib, "none")
<1> DEFINE w == Word("+libext", postfixes)
           all == ext \o postfixes
<1>1. w.opt = "+libext" /\ w.arg = postfixes
  BY DEF Word
<1> HIDE DEF w
<1>2. /\ Vcs(w, "+libext") /\ IsOption(w) /\ ~ Vcs(w, "+define") /\ ~ TakesNext(w)
      /\ ~ Gcc(w, "-D") /\ ~ Gcc(w, "-U") /\ ~ Gcc(w, "-I") /\ ~ Vcs(w, "+incdir")
  BY <1>1, OneMeaning
<1>3. Whole(s, w) = Libext(s, postfixes)
  BY <1>1, <1>2, WholeOther DEF Parsed
<1>4. Libext(s, postfixes) = [s EXCEPT !.libext = all, !.cache = NoPaths]
  BY DEF Libext, Flushed, Objects, NoPaths
<1> HIDE DEF all
<1>5. Libext(s, postfixes) \in Objects(defs, inc, mod, all, lib, "none")
  BY <1>4 DEF Objects
<1> QED
  BY <1>3, <1>5 DEF w, all

(* -y or -v, and the word that it takes. *)
LEMMA WholeTakes ==
  ASSUME VcsStyle, NEW defs, NEW inc, NEW mod, NEW ext, NEW lib, NEW opt \in {"-y", "-v"},
         NEW s \in Objects(defs, inc, mod, ext, lib, "none")
  PROVE  Whole(s, Word(opt, <<>>)) \in Objects(defs, inc, mod, ext, lib, opt)
<1> DEFINE w == Word(opt, <<>>)
<1>1. w.opt = opt
  BY DEF Word
<1> HIDE DEF w
<1>2. /\ TakesNext(w) /\ IsOption(w)
      /\ \A o \in {"-D", "-U", "-I"} : ~ Gcc(w, o)
      /\ \A o \in {"+define", "+incdir", "+libext"} : ~ Vcs(w, o)
  <2>1. Vcs(w, opt)
    BY <1>1 DEF Vcs
  <2>2. \A o \in {"+define", "+incdir", "+libext"} : opt # o
    OBVIOUS
  <2> QED
    BY <1>1, <2>1, <2>2, OneMeaning DEF TakesNext
<1>3. Whole(s, w) = [s EXCEPT !.next = opt]
  BY <1>1, <1>2, WholeOther DEF Parsed
<1>4. [s EXCEPT !.next = opt] \in Objects(defs, inc, mod, ext, lib, opt)
  BY DEF Objects
<1> QED
  BY <1>3, <1>4 DEF w

(* A word without a meaning of its own is left over, or it is the one      *)
(* that -y or -v takes.                                                    *)
LEMMA WholePlain ==
  ASSUME NEW s, NEW d \in Text, s.next \in {"-y", "-v"}
  PROVE  LET next == [s EXCEPT !.next = "none"]
         IN  Whole(s, Word("word", d))
               = IF s.next = "-y" THEN ModuleDir(next, d) ELSE Library(next, d)
<1> DEFINE w == Word("word", d)
<1>1. w.opt = "word" /\ w.arg = d
  BY DEF Word
<1> HIDE DEF w
<1>2. \A o \in {"+define", "+incdir", "+libext", "-D", "-U", "-I", "-v", "-y"} :
        ~ Vcs(w, o) /\ ~ Gcc(w, o)
  BY <1>1 DEF Vcs, Gcc
<1>3. ~ TakesNext(w) /\ ~ IsOption(w)
  BY <1>1, <1>2 DEF TakesNext, IsOption
<1>4. <<>> \o w.arg = d
  BY <1>1, PathAlone
<1>5. s.next = "-y" => s.next # "-v"
  OBVIOUS
<1> QED
  BY <1>2, <1>3, <1>4, <1>5, WholeOther DEF Parsed, w

LEMMA WholeModuleDir ==
  ASSUME NEW defs, NEW inc, NEW mod, NEW ext, NEW lib, NEW d \in Text,
         NEW s \in Objects(defs, inc, mod, ext, lib, "-y")
  PROVE  Whole(s, Word("word", d)) \in Objects(defs, inc, Append(mod, d), ext, lib, "none")
<1> DEFINE t == [s EXCEPT !.next = "none"]
           dirs == Append(mod, d)
<1>1. s.next = "-y" /\ t \in Objects(defs, inc, mod, ext, lib, "none")
  BY DEF Objects
<1>2. Whole(s, Word("word", d)) = ModuleDir(t, d)
  BY <1>1, WholePlain
<1> HIDE DEF t
<1>3. ModuleDir(t, d) = [t EXCEPT !.module_dir = dirs, !.cache = NoPaths]
  BY <1>1 DEF ModuleDir, Flushed, Objects, NoPaths
<1> HIDE DEF dirs
<1>4. ModuleDir(t, d) \in Objects(defs, inc, dirs, ext, lib, "none")
  BY <1>1, <1>3 DEF Objects
<1> QED
  BY <1>2, <1>4 DEF dirs

LEMMA WholeLibrary ==
  ASSUME NEW defs, NEW inc, NEW mod, NEW ext, NEW lib, NEW d \in Text,
         NEW s \in Objects(defs, inc, mod, ext, lib, "-v")
  PROVE  Whole(s, Word("word", d)) \in Objects(defs, inc, mod, ext, Append(lib, d), "none")
<1> DEFINE t == [s EXCEPT !.next = "none"]
           files == Append(lib, d)
<1>1. s.next = "-v" /\ t \in Objects(defs, inc, mod, ext, lib, "none")
  BY DEF Objects
<1>2. Whole(s, Word("word", d)) = Library(t, d)
  BY <1>1, WholePlain
<1> HIDE DEF t
<1>3. Library(t, d) = [t EXCEPT !.library = files]
  BY <1>1 DEF Library, Objects
<1> HIDE DEF files
<1>4. Library(t, d) \in Objects(defs, inc, mod, ext, files, "none")
  BY <1>1, <1>3 DEF Objects
<1> QED
  BY <1>2, <1>4 DEF files
-----------------------------------------------------------------------------
(* The words of a parameter list. *)
ParamWords ==
  [opt : {"+define", "+libext", "+incdir", "-y", "-v", "word"}, arg : Text \cup Seq(Text)]

LEMMA JustOne ==
  ASSUME NEW n \in Nat \ {0}, n <= 1
  PROVE  n = 1
OBVIOUS

(* The word for one name holds one definition, since the value is carried. *)
LEMMA DefineWordIs ==
  ASSUME NEW n \in Names, NEW value \in Text, Carried(value)
  PROVE  \E d \in Text : /\ DefineWord(n, value) = Word("+define", <<d>>)
                         /\ Head(d) = n /\ Tail(d) = value
<1>1. n \in Part
  <2>1. SortedNames \in Seq(STRING)
    BY GetoptAssumption
  <2>2. PICK k \in DOMAIN SortedNames : n = SortedNames[k]
    BY DEF Names, Range
  <2>3. n \in STRING
    BY <2>1, <2>2
  <2> QED
    BY <2>3 DEF Part
<1>2. value \in Seq(Part) /\ Len(value) \in Nat /\ Len(value) <= 1 /\ value # <<"0">>
  BY DEF Text, Carried
<1>3. CASE value = <<>>
  <2> DEFINE d == <<n>>
  <2>1. d \in Text /\ Head(d) = n /\ Tail(d) = <<>>
    BY <1>1 DEF Text
  <2>2. DefineWord(n, value) = Word("+define", <<d>>)
    BY <1>3 DEF DefineWord
  <2> QED
    BY <1>3, <2>1, <2>2
<1>4. CASE value # <<>>
  <2> DEFINE x == Head(value)
             d == <<n, x>>
             more == [i \in DOMAIN Tail(value) |-> <<Tail(value)[i]>>]
  <2>1. Len(value) = 1 /\ x \in Part /\ value = <<x>> /\ Tail(value) = <<>>
    <3>1. Len(value) = 1
      <4>1. value \in Seq(Part) /\ Len(value) <= 1
        BY <1>2
      <4>2. Len(value) \in Nat \ {0}
        BY <1>4, <4>1, EmptySeq
      <4> QED
        BY <4>1, <4>2, JustOne
    <3>2. value = <<value[1]>> /\ x = value[1] /\ x \in Part
      <4>1. value[1] \in Part
        <5>1. value \in Seq(Part) /\ 1 \in 1 .. Len(value)
          BY <1>2, <3>1
        <5> QED
          BY <5>1, ElementOfSeq
      <4>2. <<value[1]>> \in Seq(Part) /\ Len(<<value[1]>>) = 1 /\ <<value[1]>>[1] = value[1]
        BY <4>1
      <4>3. \A i \in 1 .. Len(value) : value[i] = <<value[1]>>[i]
        BY <3>1, <4>2
      <4>4. value = <<value[1]>>
        BY <1>2, <3>1, <4>2, <4>3, SeqEqual
      <4> QED
        BY <4>1, <4>4
    <3>3. Tail(value) \in Seq(Part) /\ Len(Tail(value)) = 0
      BY <1>2, <1>4, <3>1, HeadTailProperties
    <3> QED
      BY <3>1, <3>2, <3>3, EmptySeq
  <2>3. d \in Text /\ Head(d) = n /\ Tail(d) = <<x>>
    BY <1>1, <2>1 DEF Text
  <2>4. more = <<>>
    BY <2>1
  <2> HIDE DEF more, d
  <2>5. << d >> \o more = << d >>
    BY <2>4
  <2>6. DefineWord(n, value) = Word("+define", << d >> \o more)
    BY <1>2, <1>4 DEF DefineWord, d, more
  <2> QED
    BY <2>1, <2>3, <2>5, <2>6
<1> QED
  BY <1>3, <1>4

(* A +define of one definition. *)
LEMMA WholeOne ==
  ASSUME VcsStyle, NEW s, NEW d
  PROVE  Whole(s, Word("+define", <<d>>)) = Cmdline(s, d)
<1> DEFINE w == Word("+define", <<d>>)
           Follows(h) == h = [k \in 0 .. Len(w.arg) |->
                             IF k = 0 THEN s ELSE Cmdline(h[k - 1], w.arg[k])]
           f == [k \in 0 .. 1 |-> IF k = 0 THEN s ELSE Cmdline(s, d)]
           c == CHOOSE h : Follows(h)
<1>1. w.opt = "+define" /\ Len(w.arg) = 1 /\ w.arg[1] = d
  BY DEF Word
<1>2. Vcs(w, "+define")
  BY <1>1 DEF Vcs
<1>3. Whole(s, w) = c[Len(w.arg)]
  BY <1>2, Zenon DEF Whole
<1> HIDE DEF w
<1>4. f[0] = s
  OBVIOUS
<1>5. \A k \in 0 .. 1 : f[k] = IF k = 0 THEN s ELSE Cmdline(f[k - 1], w.arg[k])
  <2>1. ASSUME NEW k \in 0 .. 1, k # 0 PROVE k = 1 /\ k - 1 = 0
    BY <2>1
  <2> HIDE DEF f
  <2>2. f[1] = Cmdline(s, d)
    BY DEF f
  <2> QED
    BY <1>1, <1>4, <2>1, <2>2
<1>6. f = [k \in 0 .. 1 |-> f[k]]
  OBVIOUS
<1> HIDE DEF f
<1>7. Follows(f)
  BY <1>1, <1>5, <1>6
<1> HIDE DEF Follows
<1>8. Follows(c)
  BY <1>7
<1>9. c = [k \in 0 .. 1 |-> IF k = 0 THEN s ELSE Cmdline(c[k - 1], w.arg[k])]
  BY <1>1, <1>8 DEF Follows
<1> HIDE DEF c
<1>10. c[0] = s /\ c[1] = Cmdline(c[0], w.arg[1])
  <2>1. \A k \in 0 .. 1 : c[k] = IF k = 0 THEN s ELSE Cmdline(c[k - 1], w.arg[k])
    BY <1>9, Zenon
  <2>2. 0 \in 0 .. 1 /\ 1 \in 0 .. 1 /\ 1 # 0 /\ 1 - 1 = 0
    OBVIOUS
  <2> QED
    BY <2>1, <2>2
<1> QED
  BY <1>1, <1>3, <1>10 DEF w

(* It enters the definition where there is none, or the same. *)
LEMMA WholeDefine ==
  ASSUME VcsStyle, NEW n \in Names, NEW value \in Text, Carried(value),
         NEW e, e = Entry(value, "", TRUE),
         NEW defs \in [Names -> EntryType], defs[n] \in {Undefined, e},
         NEW new, new = [defs EXCEPT ![n] = e],
         NEW inc, NEW mod, NEW ext, NEW lib,
         NEW s \in Objects(defs, inc, mod, ext, lib, "none")
  PROVE  Whole(s, DefineWord(n, value)) \in Objects(new, inc, mod, ext, lib, "none")
<1>1. PICK d \in Text : /\ DefineWord(n, value) = Word("+define", <<d>>)
                        /\ Head(d) = n /\ Tail(d) = value
  BY DefineWordIs
<1>2. Whole(s, DefineWord(n, value)) = Define(s, n, value, "", TRUE)
  BY <1>1, WholeOne DEF Cmdline
<1>3. s.defines = defs
  BY DEF Objects
<1>4. defs[n].there => defs[n].value = value /\ defs[n].params = ""
  <2>1. CASE defs[n] = Undefined
    <3>1. Undefined.there = FALSE
      BY DEF Undefined
    <3> QED
      BY <2>1, <3>1
  <2>2. CASE defs[n] = e
    <3>1. e.value = value /\ e.params = ""
      BY DEF Entry
    <3> QED
      BY <2>2, <3>1
  <2> QED
    BY <2>1, <2>2
<1>5. Define(s, n, value, "", TRUE) = [s EXCEPT !.defines[n] = e]
  BY <1>3, <1>4 DEF Define
<1>6. [s EXCEPT !.defines[n] = e] = [s EXCEPT !.defines = new]
  BY <1>3 DEF Objects
<1>7. [s EXCEPT !.defines = new] \in Objects(new, inc, mod, ext, lib, "none")
  BY DEF Objects
<1> QED
  BY <1>2, <1>5, <1>6, <1>7
-----------------------------------------------------------------------------
(* Reading one more word. *)
LEMMA ReadAppended ==
  ASSUME NEW S, NEW s, NEW ws \in Seq(S), NEW w \in S
  PROVE  Read(s, Append(ws, w)) = Whole(Read(s, ws), w)
<1> DEFINE one == <<w>>
           t == Read(s, ws)
<1>1. one \in Seq(S) /\ Len(one) = 1 /\ one[1] = w
  OBVIOUS
<1>2. Append(ws, w) = ws \o one
  BY AppendIsConcat
<1> HIDE DEF one, t
<1>3. Read(s, ws \o one) = Read(t, one)
  BY <1>1, ReadJoined DEF t
<1>4. Reading(t, one)[0] = t /\ Reading(t, one)[1] = Whole(Reading(t, one)[0], one[1])
  <2>1. 1 \in 1 .. Len(one) /\ 1 - 1 = 0
    BY <1>1
  <2>2. one \in Seq(S)
    BY <1>1
  <2>3. /\ Reading(t, one)[0] = t
        /\ \A n \in 1 .. Len(one) : Reading(t, one)[n] = Whole(Reading(t, one)[n - 1], one[n])
    BY <2>2, ReadingIs
  <2> QED
    BY <2>1, <2>3
<1> QED
  BY <1>1, <1>2, <1>3, <1>4 DEF Read, t

(* No words, and the names in their order. *)
LEMMA ReadNone ==
  ASSUME NEW s
  PROVE  Read(s, <<>>) = s
<1>1. <<>> \in Seq({s}) /\ Len(<<>>) = 0
  OBVIOUS
<1>2. Reading(s, <<>>)[0] = s
  BY <1>1, ReadingIs
<1> QED
  BY <1>1, <1>2 DEF Read

(* The words for the first names: each adds one for the next, if defined.  *)
CarriedTable(defs) ==
  /\ defs \in [Names -> EntryType]
  /\ \A n \in Names : defs[n].value \in Text /\ Carried(defs[n].value)

LEMMA NameTypes ==
  /\ Len(SortedNames) \in Nat
  /\ \A n \in Nat : n < Len(SortedNames) => SortedNames[n + 1] \in Names
  /\ \A n \in Names : \E k \in 1 .. Len(SortedNames) : n = SortedNames[k]
<1>1. SortedNames \in Seq(STRING)
  BY GetoptAssumption
<1>2. Len(SortedNames) \in Nat /\ DOMAIN SortedNames = 1 .. Len(SortedNames)
  BY <1>1
<1>3. \A n \in Nat : n < Len(SortedNames) => n + 1 \in DOMAIN SortedNames
  BY <1>2
<1> QED
  BY <1>2, <1>3 DEF Names, Range

LEMMA DefineWordType ==
  ASSUME NEW n \in Names, NEW value \in Text, Carried(value)
  PROVE  DefineWord(n, value) \in ParamWords
<1>1. PICK d \in Text : DefineWord(n, value) = Word("+define", <<d>>)
  BY DefineWordIs
<1>2. <<d>> \in Seq(Text)
  OBVIOUS
<1> QED
  BY <1>1, <1>2 DEF Word, ParamWords

(* DefineWords, name by name: an iteration has such a function. *)
LEMMA WordsIterate ==
  \A step \in [Nat -> [Seq(ParamWords) -> Seq(ParamWords)]] :
    \E g \in [Nat -> Seq(ParamWords)] :
      g[0] = <<>> /\ \A n \in Nat : g[n + 1] = step[n][g[n]]
<1> DEFINE X == Seq(ParamWords)
           x0 == <<>>
<1>1. x0 \in X
  OBVIOUS
<1>2. \A step \in [Nat -> [X -> X]] :
        \E g \in [Nat -> X] : g[0] = x0 /\ \A n \in Nat : g[n + 1] = step[n][g[n]]
  <2> HIDE DEF X, x0
  <2> QED
    BY <1>1, Iteration
<1> QED
  BY <1>2

LEMMA DefineWordsAre ==
  ASSUME NEW s, CarriedTable(s.defines)
  PROVE  LET words == DefineWords(s)
         IN  /\ words[0] = <<>>
             /\ \A n \in Nat : n < Len(SortedNames) =>
                  words[n + 1] = IF s.defines[SortedNames[n + 1]].there
                                 THEN Append(words[n],
                                        DefineWord(SortedNames[n + 1],
                                                   s.defines[SortedNames[n + 1]].value))
                                 ELSE words[n]
             /\ \A n \in 0 .. Len(SortedNames) : words[n] \in Seq(ParamWords)
<1> DEFINE N == 0 .. Len(SortedNames)
           there(n) == s.defines[SortedNames[n]].there
           word(n) == DefineWord(SortedNames[n], s.defines[SortedNames[n]].value)
           step == [n \in Nat |-> [x \in Seq(ParamWords) |->
                      IF n < Len(SortedNames) /\ there(n + 1)
                      THEN Append(x, word(n + 1)) ELSE x]]
<1>1. Len(SortedNames) \in Nat
  BY NameTypes
<1>2. ASSUME NEW n \in Nat, n < Len(SortedNames)
      PROVE  word(n + 1) \in ParamWords
  <2>1. SortedNames[n + 1] \in Names
    BY <1>2, NameTypes
  <2> QED
    BY <2>1, DefineWordType DEF CarriedTable
<1> HIDE DEF there, word
<1>3. step \in [Nat -> [Seq(ParamWords) -> Seq(ParamWords)]]
  <2>1. ASSUME NEW n \in Nat, NEW x \in Seq(ParamWords)
        PROVE  (IF n < Len(SortedNames) /\ there(n + 1)
                THEN Append(x, word(n + 1)) ELSE x) \in Seq(ParamWords)
    BY <1>2, Appended
  <2> QED
    BY <2>1
<1>4. PICK g \in [Nat -> Seq(ParamWords)] :
        g[0] = <<>> /\ \A n \in Nat : g[n + 1] = step[n][g[n]]
  <2> HIDE DEF step
  <2> QED
    BY <1>3, WordsIterate
<1>5. \A n \in Nat : n < Len(SortedNames) =>
        g[n + 1] = IF there(n + 1) THEN Append(g[n], word(n + 1)) ELSE g[n]
  BY <1>4
<1> DEFINE Value(h, n) == IF n = 0 THEN <<>>
                          ELSE IF there(n) THEN Append(h[n - 1], word(n)) ELSE h[n - 1]
           f == [n \in N |-> g[n]]
           Follows(h) == h = [n \in N |-> Value(h, n)]
           c == DefineWords(s)
<1> HIDE DEF step
<1>6. Follows(f)
  <2>1. \A n \in N : f[n] = Value(f, n)
    <3> TAKE n \in N
    <3>1. CASE n = 0
      BY <1>1, <1>4, <3>1
    <3>2. CASE n # 0
      <4>1. n - 1 \in Nat /\ (n - 1) + 1 = n /\ n - 1 < Len(SortedNames) /\ n - 1 \in N /\ n \in N
        BY <1>1, <3>2
      <4>2. g[n] = IF there(n) THEN Append(g[n - 1], word(n)) ELSE g[n - 1]
        BY <1>5, <4>1
      <4> QED
        BY <3>2, <4>1, <4>2
    <3> QED
      BY <3>1, <3>2
  <2> QED
    BY <2>1
<1>7. c = CHOOSE h : Follows(h)
  BY DEF DefineWords, there, word
<1> HIDE DEF c
<1>8. Follows(c)
  <2> HIDE DEF Follows, f
  <2> QED
    BY <1>6, <1>7
<1>9. \A n \in N : c[n] = Value(c, n)
  <2>1. c = [n \in N |-> Value(c, n)]
    BY <1>8
  <2> HIDE DEF Value, N
  <2> QED
    BY <2>1, Zenon
<1>10. c[0] = <<>>
  <2>1. 0 \in N
    BY <1>1
  <2> QED
    BY <1>9, <2>1
<1>11. ASSUME NEW n \in Nat, n < Len(SortedNames)
       PROVE  c[n + 1] = IF there(n + 1) THEN Append(c[n], word(n + 1)) ELSE c[n]
  <2>1. n + 1 \in N /\ n + 1 # 0 /\ (n + 1) - 1 = n
    BY <1>1, <1>11
  <2> QED
    BY <1>9, <2>1
<1>12. \A n \in N : c[n] \in Seq(ParamWords)
  <2> DEFINE T == {n \in Nat : n <= Len(SortedNames) => c[n] = g[n]}
  <2>1. 0 \in T
    BY <1>4, <1>10
  <2>2. ASSUME NEW n \in Nat, n \in T, n + 1 <= Len(SortedNames) PROVE c[n + 1] = g[n + 1]
    <3>1. n < Len(SortedNames) /\ n <= Len(SortedNames)
      BY <1>1, <2>2
    <3> QED
      BY <1>5, <1>11, <2>2, <3>1
  <2>3. \A n \in Nat : n \in T => n + 1 \in T
    BY <2>2
  <2> HIDE DEF T
  <2>4. \A n \in Nat : n \in T
    BY <2>1, <2>3, Induction
  <2>5. \A n \in N : n \in Nat /\ n <= Len(SortedNames)
    BY <1>1
  <2> QED
    BY <2>4, <2>5 DEF T
<1> QED
  BY <1>10, <1>11, <1>12 DEF c, there, word

(* The table that a new object has after the words for the first i names.  *)
Table(defs, i) ==
  [n \in Names |-> IF defs[n].there /\ \E k \in 1 .. i : SortedNames[k] = n
                   THEN Entry(defs[n].value, "", TRUE) ELSE Undefined]

LEMMA TableType ==
  ASSUME NEW defs, CarriedTable(defs), NEW i
  PROVE  Table(defs, i) \in [Names -> EntryType]
<1>1. Undefined \in EntryType
  <2>1. <<>> \in Text
    BY DEF Text
  <2> QED
    BY <2>1 DEF Undefined, EntryType
<1>2. ASSUME NEW n \in Names PROVE Entry(defs[n].value, "", TRUE) \in EntryType
  <2>1. defs[n].value \in Text
    BY DEF CarriedTable
  <2> QED
    BY <2>1 DEF Entry, EntryType
<1> QED
  BY <1>1, <1>2 DEF Table

LEMMA TableStarts ==
  ASSUME NEW defs
  PROVE  Table(defs, 0) = [n \in Names |-> Undefined]
<1>1. ~ \E k \in 1 .. 0 : TRUE
  OBVIOUS
<1> QED
  BY <1>1, Zenon DEF Table

LEMMA TableGrows ==
  ASSUME NEW defs, NEW i \in Nat, i < Len(SortedNames)
  PROVE  LET n == SortedNames[i + 1]
         IN  Table(defs, i + 1)
               = IF defs[n].there
                 THEN [Table(defs, i) EXCEPT ![n] = Entry(defs[n].value, "", TRUE)]
                 ELSE Table(defs, i)
<1> DEFINE n == SortedNames[i + 1]
           e(k) == Entry(defs[k].value, "", TRUE)
           In(k, j) == \E l \in 1 .. j : SortedNames[l] = k
           V(k, j) == IF defs[k].there /\ In(k, j) THEN e(k) ELSE Undefined
<1>1. n \in Names
  BY NameTypes
<1>2. \A k : In(k, i + 1) <=> In(k, i) \/ k = n
  <2> TAKE k
  <2>1. \A l \in 1 .. i + 1 : l \in 1 .. i \/ l = i + 1
    OBVIOUS
  <2>2. i + 1 \in 1 .. i + 1 /\ \A l \in 1 .. i : l \in 1 .. i + 1
    OBVIOUS
  <2> HIDE DEF n
  <2>3. n = SortedNames[i + 1]
    BY DEF n
  <2> QED
    BY <2>1, <2>2, <2>3
<1>3. \A j : Table(defs, j) = [k \in Names |-> V(k, j)]
  BY DEF Table
<1> HIDE DEF n, e, In
<1>4. CASE defs[n].there
  <2> DEFINE old == Table(defs, i)
  <2>1. \A k \in Names : V(k, i + 1) = IF k = n THEN e(n) ELSE V(k, i)
    BY <1>2, <1>4
  <2>2. \A k \in Names : V(k, i + 1) = [old EXCEPT ![n] = e(n)][k]
    <3>1. \A k \in Names : old[k] = V(k, i)
      BY <1>3
    <3>2. old = [k \in Names |-> old[k]]
      BY <1>3
    <3> HIDE DEF old, V
    <3> QED
      BY <2>1, <3>1, <3>2
  <2>3. Table(defs, i + 1) = [old EXCEPT ![n] = e(n)]
    <3>1. old = [k \in Names |-> V(k, i)]
      BY <1>3
    <3> HIDE DEF old
    <3>2. [old EXCEPT ![n] = e(n)] = [k \in Names |-> [old EXCEPT ![n] = e(n)][k]]
      BY <3>1
    <3>3. Table(defs, i + 1) = [k \in Names |-> V(k, i + 1)]
      BY <1>3
    <3> HIDE DEF V
    <3> QED
      BY <2>2, <3>2, <3>3, Zenon
  <2> QED
    BY <1>4, <2>3 DEF n, e
<1>5. CASE ~ defs[n].there
  <2>1. \A k \in Names : V(k, i + 1) = V(k, i)
    BY <1>2, <1>5
  <2> HIDE DEF V
  <2>2. Table(defs, i + 1) = Table(defs, i)
    BY <1>3, <2>1, Zenon
  <2> QED
    BY <1>5, <2>2 DEF n
<1> QED
  BY <1>4, <1>5

(* A new object. *)
LEMMA NewIs ==
  New \in Objects([n \in Names |-> Undefined], << <<>> >>, << <<>> >>, <<".v">>, <<>>, "none")
BY DEF New, Objects, NoPaths

(* What the words for the defined names do to a new object. *)
LEMMA ReadDefines ==
  ASSUME VcsStyle, NEW s, CarriedTable(s.defines)
  PROVE  Read(New, DefineWords(s)[Len(SortedNames)])
           \in Objects(Table(s.defines, Len(SortedNames)),
                       << <<>> >>, << <<>> >>, <<".v">>, <<>>, "none")
<1> DEFINE words == DefineWords(s)
           defs == s.defines
           N == Len(SortedNames)
           inc == << <<>> >>
           ext == <<".v">>
           lib == <<>>
           O(i) == Objects(Table(defs, i), inc, inc, ext, lib, "none")
           T == {i \in Nat : i <= N => Read(New, words[i]) \in O(i)}
<1>1. N \in Nat
  BY NameTypes
<1>2. /\ words[0] = <<>>
      /\ \A n \in Nat : n < N =>
           words[n + 1] = IF defs[SortedNames[n + 1]].there
                          THEN Append(words[n], DefineWord(SortedNames[n + 1],
                                                           defs[SortedNames[n + 1]].value))
                          ELSE words[n]
      /\ \A n \in 0 .. N : words[n] \in Seq(ParamWords)
  BY DefineWordsAre
<1>3. 0 \in T
  <2>1. Read(New, <<>>) = New
    BY ReadNone
  <2>2. Table(defs, 0) = [n \in Names |-> Undefined]
    BY TableStarts
  <2>3. New \in O(0)
    BY <2>2, NewIs
  <2> QED
    BY <1>2, <2>1, <2>3
<1> HIDE DEF words, N, inc, ext, lib, defs
<1>4. ASSUME NEW i \in Nat, i \in T, i + 1 <= N
      PROVE  Read(New, words[i + 1]) \in O(i + 1)
  <2> DEFINE n == SortedNames[i + 1]
             w == DefineWord(n, defs[n].value)
             t == Read(New, words[i])
  <2>1. i < N /\ i <= N /\ i \in 0 .. N
    BY <1>1, <1>4
  <2>2. t \in O(i)
    BY <1>4, <2>1
  <2>3. n \in Names
    BY <2>1, NameTypes DEF N
  <2>4. defs[n].value \in Text /\ Carried(defs[n].value) /\ CarriedTable(defs)
    BY <2>3 DEF CarriedTable, defs
  <2>5. words[i] \in Seq(ParamWords) /\ w \in ParamWords
    BY <1>2, <2>1, <2>3, <2>4, DefineWordType
  <2>6. Table(defs, i + 1) = IF defs[n].there
                             THEN [Table(defs, i) EXCEPT ![n] = Entry(defs[n].value, "", TRUE)]
                             ELSE Table(defs, i)
    BY <2>1, TableGrows DEF N
  <2>7. words[i + 1] = IF defs[n].there THEN Append(words[i], w) ELSE words[i]
    BY <1>2, <2>1
  <2>8. CASE defs[n].there
    <3>1. Read(New, words[i + 1]) = Whole(t, w)
      BY <2>5, <2>7, <2>8, ReadAppended
    <3> DEFINE old == Table(defs, i)
               e == Entry(defs[n].value, "", TRUE)
    <3>2. old \in [Names -> EntryType] /\ old[n] \in {Undefined, e}
      <4>1. old \in [Names -> EntryType]
        BY <2>4, TableType
      <4>2. old[n] = Undefined \/ old[n] = e
        BY <2>3 DEF Table
      <4> QED
        BY <4>1, <4>2
    <3>3. Whole(t, w) \in Objects([old EXCEPT ![n] = e], inc, inc, ext, lib, "none")
      <4> DEFINE v == defs[n].value
                 new == [old EXCEPT ![n] = e]
      <4>1. t \in Objects(old, inc, inc, ext, lib, "none") /\ v \in Text /\ n \in Names
        BY <2>2, <2>3, <2>4
      <4>2. Carried(v)
        BY <2>4
      <4>3. e = Entry(v, "", TRUE) /\ new = [old EXCEPT ![n] = e]
        OBVIOUS
      <4> HIDE DEF t, n, old, v, e, new
      <4>4. Whole(t, DefineWord(n, v)) \in Objects(new, inc, inc, ext, lib, "none")
        BY <3>2, <4>1, <4>2, <4>3, WholeDefine
      <4> QED
        BY <4>4 DEF v, new
    <3> HIDE DEF old
    <3> QED
      BY <2>6, <2>8, <3>1, <3>3 DEF old
  <2>9. CASE ~ defs[n].there
    BY <2>2, <2>6, <2>7, <2>9
  <2> QED
    BY <2>8, <2>9
<1>5. \A n \in Nat : n \in T => n + 1 \in T
  BY <1>4
<1>6. N \in T
  <2> HIDE DEF T
  <2> QED
    BY <1>1, <1>3, <1>5, Induction
<1>7. Read(New, words[N]) \in O(N)
  BY <1>1, <1>6
<1> QED
  BY <1>7 DEF words, N, inc, ext, lib, defs
-----------------------------------------------------------------------------
(* The first k directories, then one more. *)
LEMMA OneMore ==
  ASSUME NEW S, NEW old \in Seq(S), NEW dirs \in Seq(S), NEW k \in Nat, k < Len(dirs)
  PROVE  Append(old \o SubSeq(dirs, 1, k), dirs[k + 1]) = old \o SubSeq(dirs, 1, k + 1)
<1> DEFINE a == SubSeq(dirs, 1, k)
           d == dirs[k + 1]
<1>1. Len(dirs) \in Nat /\ k + 1 \in 1 .. Len(dirs) /\ 1 \in 1 .. Len(dirs)
      /\ k + 1 \in 1 .. Len(dirs) /\ (k + 1) - 1 = k
  OBVIOUS
<1>2. a \in Seq(S) /\ d \in S
  BY <1>1, Prefix
<1>3. SubSeq(dirs, 1, k + 1) = a \o <<d>>
  BY <1>1, SubSeqRecursiveSecond
<1> HIDE DEF a, d
<1>4. <<d>> \in Seq(S) /\ old \o a \in Seq(S)
  BY <1>2, ConcatProperties
<1>5. Append(old \o a, d) = (old \o a) \o <<d>>
  BY <1>2, <1>4, AppendIsConcat
<1>6. (old \o a) \o <<d>> = old \o (a \o <<d>>)
  BY <1>2, <1>4, ConcatAssociative
<1> QED
  BY <1>3, <1>5, <1>6 DEF a, d

LEMMA NoMore ==
  ASSUME NEW S, NEW old \in Seq(S), NEW dirs \in Seq(S)
  PROVE  old \o SubSeq(dirs, 1, 0) = old /\ SubSeq(dirs, 1, Len(dirs)) = dirs
<1>1. SubSeq(dirs, 1, 0) = <<>>
  BY SubSeqEmpty
<1> QED
  BY <1>1, ConcatEmptySeq, SubSeqFull

LEMMA EachIs ==
  ASSUME NEW dirs \in Seq(Text)
  PROVE  LET ws == Each("+incdir", dirs)
         IN  /\ ws \in Seq(ParamWords) /\ Len(ws) = Len(dirs)
             /\ \A i \in 1 .. Len(dirs) : ws[i] = Word("+incdir", dirs[i])
<1> DEFINE ws == Each("+incdir", dirs)
<1>1. Len(dirs) \in Nat /\ \A i \in 1 .. Len(dirs) : dirs[i] \in Text
  OBVIOUS
<1>2. \A i \in 1 .. Len(dirs) : Word("+incdir", dirs[i]) \in ParamWords
  BY <1>1 DEF Word, ParamWords
<1>3. ws = [i \in 1 .. Len(dirs) |-> Word("+incdir", dirs[i])]
  BY DEF Each
<1> HIDE DEF ws
<1>4. ws \in [1 .. Len(dirs) -> ParamWords]
  BY <1>2, <1>3
<1>5. ws \in Seq(ParamWords) /\ Len(ws) = Len(dirs)
  <2> DEFINE n == Len(dirs)
  <2>1. n \in Nat /\ ws \in [1 .. n -> ParamWords]
    BY <1>1, <1>4
  <2> HIDE DEF n
  <2>2. ws \in Seq(ParamWords) /\ Len(ws) = n
    BY <2>1, SeqDef
  <2> QED
    BY <2>2 DEF n
<1> QED
  BY <1>3, <1>5 DEF ws

(* All directories of one list. *)
LEMMA ReadIncdirs ==
  ASSUME VcsStyle, NEW defs, NEW inc \in Seq(Text), NEW mod, NEW ext, NEW lib,
         NEW s \in Objects(defs, inc, mod, ext, lib, "none"), NEW dirs \in Seq(Text)
  PROVE  /\ Each("+incdir", dirs) \in Seq(ParamWords)
         /\ Read(s, Each("+incdir", dirs)) \in Objects(defs, inc \o dirs, mod, ext, lib, "none")
<1> DEFINE ws == Each("+incdir", dirs)
           h == Reading(s, ws)
           D(k) == inc \o SubSeq(dirs, 1, k)
           T == {k \in Nat : k <= Len(dirs) => h[k] \in Objects(defs, D(k), mod, ext, lib, "none")}
<1>1. /\ ws \in Seq(ParamWords) /\ Len(ws) = Len(dirs) /\ Len(dirs) \in Nat
      /\ \A i \in 1 .. Len(dirs) : ws[i] = Word("+incdir", dirs[i])
  BY EachIs
<1> HIDE DEF ws
<1>2. h[0] = s /\ \A n \in 1 .. Len(dirs) : h[n] = Whole(h[n - 1], ws[n])
  <2>1. ws \in Seq(ParamWords)
    BY <1>1
  <2>2. h[0] = s /\ \A n \in 1 .. Len(ws) : h[n] = Whole(h[n - 1], ws[n])
    BY <2>1, ReadingIs
  <2> QED
    BY <1>1, <2>2
<1> HIDE DEF h
<1>3. D(0) = inc /\ D(Len(dirs)) = inc \o dirs
  BY NoMore
<1>4. 0 \in T
  BY <1>2, <1>3
<1>5. ASSUME NEW k \in Nat, k \in T, k + 1 <= Len(dirs)
      PROVE  h[k + 1] \in Objects(defs, D(k + 1), mod, ext, lib, "none")
  <2> DEFINE old == D(k)
             d == dirs[k + 1]
  <2>1. k + 1 \in 1 .. Len(dirs) /\ (k + 1) - 1 = k /\ k < Len(dirs) /\ k <= Len(dirs)
    BY <1>1, <1>5
  <2>2. h[k] \in Objects(defs, old, mod, ext, lib, "none")
    BY <1>5, <2>1
  <2>3. d \in Text /\ h[k + 1] = Whole(h[k], Word("+incdir", d))
    BY <1>1, <1>2, <2>1
  <2>4. D(k + 1) = Append(old, d)
    BY <2>1, OneMore
  <2> HIDE DEF D, old, d
  <2>5. Whole(h[k], Word("+incdir", d)) \in Objects(defs, Append(old, d), mod, ext, lib, "none")
    BY <2>2, <2>3, WholeIncdir
  <2> QED
    BY <2>3, <2>4, <2>5
<1>6. \A k \in Nat : k \in T => k + 1 \in T
  BY <1>5
<1>7. Len(dirs) \in T
  <2> HIDE DEF T
  <2> QED
    BY <1>1, <1>4, <1>6, Induction
<1>8. h[Len(dirs)] \in Objects(defs, D(Len(dirs)), mod, ext, lib, "none")
  BY <1>1, <1>7
<1> HIDE DEF D
<1> QED
  BY <1>1, <1>3, <1>8 DEF ws, h, Read

(* -y or -v before every directory or file. *)
LEMMA Halves ==
  ASSUME NEW k \in Nat
  PROVE  /\ (2 * k + 1) % 2 = 1 /\ (2 * k + 2) % 2 # 1 /\ (2 * k + 2) \div 2 = k + 1
OBVIOUS

LEMMA PairsAre ==
  ASSUME NEW opt \in {"-y", "-v"}, NEW dirs \in Seq(Text)
  PROVE  LET ws == Pairs(opt, dirs)
         IN  /\ ws \in Seq(ParamWords) /\ Len(ws) = 2 * Len(dirs)
             /\ \A k \in Nat : k < Len(dirs) => /\ ws[2 * k + 1] = Word(opt, <<>>)
                                                /\ ws[2 * k + 2] = Word("word", dirs[k + 1])
<1> DEFINE ws == Pairs(opt, dirs)
           N == Len(dirs)
<1>1. N \in Nat /\ \A i \in 1 .. N : dirs[i] \in Text
  OBVIOUS
<1>2. /\ Word(opt, <<>>) \in ParamWords
      /\ \A i \in 1 .. N : Word("word", dirs[i]) \in ParamWords
  <2>1. <<>> \in Text
    BY DEF Text
  <2> QED
    BY <1>1, <2>1 DEF Word, ParamWords
<1>3. ws = [i \in 1 .. 2 * N |-> IF i % 2 = 1 THEN Word(opt, <<>>) ELSE Word("word", dirs[i \div 2])]
  BY DEF Pairs
<1> HIDE DEF ws, N
<1>4. \A i \in 1 .. 2 * N : i % 2 # 1 => i \div 2 \in 1 .. N
  BY <1>1
<1>5. ws \in [1 .. 2 * N -> ParamWords]
  BY <1>2, <1>3, <1>4
<1>6. ws \in Seq(ParamWords) /\ Len(ws) = 2 * N
  <2> DEFINE n == 2 * N
  <2>1. n \in Nat /\ ws \in [1 .. n -> ParamWords]
    BY <1>1, <1>5
  <2> HIDE DEF n
  <2>2. ws \in Seq(ParamWords) /\ Len(ws) = n
    BY <2>1, SeqDef
  <2> QED
    BY <2>2 DEF n
<1>7. ASSUME NEW k \in Nat, k < N
      PROVE  ws[2 * k + 1] = Word(opt, <<>>) /\ ws[2 * k + 2] = Word("word", dirs[k + 1])
  <2>1. 2 * k + 1 \in 1 .. 2 * N /\ 2 * k + 2 \in 1 .. 2 * N
    BY <1>1, <1>7
  <2> QED
    BY <1>3, <2>1, Halves
<1> QED
  BY <1>6, <1>7 DEF ws, N

(* Reading them, pair by pair: G[k] are the states after k pairs, M[k]     *)
(* those in the middle of the next.                                        *)
LEMMA ReadPairs ==
  ASSUME NEW opt \in {"-y", "-v"}, NEW dirs \in Seq(Text), NEW G, NEW M, NEW s, s \in G[0],
         \A k \in Nat : k < Len(dirs) =>
           /\ \A x \in G[k] : Whole(x, Word(opt, <<>>)) \in M[k]
           /\ \A x \in M[k] : Whole(x, Word("word", dirs[k + 1])) \in G[k + 1]
  PROVE  Pairs(opt, dirs) \in Seq(ParamWords) /\ Read(s, Pairs(opt, dirs)) \in G[Len(dirs)]
<1> DEFINE ws == Pairs(opt, dirs)
           h == Reading(s, ws)
           N == Len(dirs)
           T == {k \in Nat : k <= N => h[2 * k] \in G[k]}
<1>1. /\ ws \in Seq(ParamWords) /\ Len(ws) = 2 * N /\ N \in Nat
      /\ \A k \in Nat : k < N => /\ ws[2 * k + 1] = Word(opt, <<>>)
                                 /\ ws[2 * k + 2] = Word("word", dirs[k + 1])
  BY PairsAre
<1> HIDE DEF ws
<1>2. h[0] = s /\ \A n \in 1 .. 2 * N : h[n] = Whole(h[n - 1], ws[n])
  <2>1. ws \in Seq(ParamWords)
    BY <1>1
  <2>2. h[0] = s /\ \A n \in 1 .. Len(ws) : h[n] = Whole(h[n - 1], ws[n])
    BY <2>1, ReadingIs
  <2> QED
    BY <1>1, <2>2
<1> HIDE DEF h, N
<1>3. 0 \in T
  BY <1>2
<1>4. ASSUME NEW k \in Nat, k \in T, k + 1 <= N
      PROVE  h[2 * (k + 1)] \in G[k + 1]
  <2> DEFINE i == 2 * k + 1
             j == 2 * k + 2
  <2>1. /\ i \in 1 .. 2 * N /\ j \in 1 .. 2 * N /\ i - 1 = 2 * k /\ j - 1 = i
        /\ k < N /\ k <= N /\ 2 * (k + 1) = j
    BY <1>1, <1>4
  <2>2. h[2 * k] \in G[k]
    BY <1>4, <2>1
  <2>3. ws[i] = Word(opt, <<>>) /\ ws[j] = Word("word", dirs[k + 1])
    BY <1>1, <2>1
  <2> HIDE DEF i, j
  <2>4. h[i] \in M[k]
    <3>1. h[i] = Whole(h[2 * k], Word(opt, <<>>))
      BY <1>2, <2>1, <2>3
    <3> QED
      BY <2>1, <2>2, <3>1 DEF N
  <2>5. h[j] \in G[k + 1]
    <3>1. h[j] = Whole(h[i], Word("word", dirs[k + 1]))
      BY <1>2, <2>1, <2>3
    <3> QED
      BY <2>1, <2>4, <3>1 DEF N
  <2> QED
    BY <2>1, <2>5
<1>5. \A k \in Nat : k \in T => k + 1 \in T
  BY <1>4
<1>6. N \in T
  <2> HIDE DEF T
  <2> QED
    BY <1>1, <1>3, <1>5, Induction
<1>7. h[2 * N] \in G[N]
  BY <1>1, <1>6
<1> QED
  BY <1>1, <1>7 DEF ws, h, Read, N

LEMMA ReadModuleDirs ==
  ASSUME VcsStyle, NEW defs, NEW inc, NEW mod \in Seq(Text), NEW ext, NEW lib,
         NEW s \in Objects(defs, inc, mod, ext, lib, "none"), NEW dirs \in Seq(Text)
  PROVE  /\ Pairs("-y", dirs) \in Seq(ParamWords)
         /\ Read(s, Pairs("-y", dirs)) \in Objects(defs, inc, mod \o dirs, ext, lib, "none")
<1> DEFINE N == Len(dirs)
           D(k) == mod \o SubSeq(dirs, 1, k)
           G == [k \in 0 .. N |-> Objects(defs, inc, D(k), ext, lib, "none")]
           M == [k \in 0 .. N |-> Objects(defs, inc, D(k), ext, lib, "-y")]
<1>1. N \in Nat /\ 0 \in 0 .. N /\ N \in 0 .. N
  OBVIOUS
<1>2. D(0) = mod /\ D(N) = mod \o dirs
  BY NoMore
<1>3. \A k \in Nat : k < N => D(k + 1) = Append(D(k), dirs[k + 1])
  BY OneMore
<1>4. \A k \in Nat : k < N => /\ k \in 0 .. N /\ k + 1 \in 0 .. N /\ dirs[k + 1] \in Text
  OBVIOUS
<1> HIDE DEF D
<1>5. ASSUME NEW k \in Nat, k < N
      PROVE  /\ \A x \in G[k] : Whole(x, Word("-y", <<>>)) \in M[k]
             /\ \A x \in M[k] : Whole(x, Word("word", dirs[k + 1])) \in G[k + 1]
  <2>1. /\ G[k] = Objects(defs, inc, D(k), ext, lib, "none")
        /\ M[k] = Objects(defs, inc, D(k), ext, lib, "-y")
        /\ G[k + 1] = Objects(defs, inc, Append(D(k), dirs[k + 1]), ext, lib, "none")
    BY <1>3, <1>4, <1>5
  <2>2. dirs[k + 1] \in Text
    BY <1>4, <1>5
  <2> HIDE DEF G, M
  <2> QED
    BY <2>1, <2>2, WholeTakes, WholeModuleDir
<1>6. s \in G[0] /\ G[N] = Objects(defs, inc, mod \o dirs, ext, lib, "none")
  BY <1>1, <1>2
<1> HIDE DEF G, M
<1>7. Pairs("-y", dirs) \in Seq(ParamWords) /\ Read(s, Pairs("-y", dirs)) \in G[N]
  BY <1>5, <1>6, ReadPairs
<1> QED
  BY <1>6, <1>7

LEMMA ReadLibraries ==
  ASSUME VcsStyle, NEW defs, NEW inc, NEW mod, NEW ext, NEW lib \in Seq(Text),
         NEW s \in Objects(defs, inc, mod, ext, lib, "none"), NEW files \in Seq(Text)
  PROVE  /\ Pairs("-v", files) \in Seq(ParamWords)
         /\ Read(s, Pairs("-v", files)) \in Objects(defs, inc, mod, ext, lib \o files, "none")
<1> DEFINE N == Len(files)
           D(k) == lib \o SubSeq(files, 1, k)
           G == [k \in 0 .. N |-> Objects(defs, inc, mod, ext, D(k), "none")]
           M == [k \in 0 .. N |-> Objects(defs, inc, mod, ext, D(k), "-v")]
<1>1. N \in Nat /\ 0 \in 0 .. N /\ N \in 0 .. N
  OBVIOUS
<1>2. D(0) = lib /\ D(N) = lib \o files
  BY NoMore
<1>3. \A k \in Nat : k < N => D(k + 1) = Append(D(k), files[k + 1])
  BY OneMore
<1>4. \A k \in Nat : k < N => /\ k \in 0 .. N /\ k + 1 \in 0 .. N /\ files[k + 1] \in Text
  OBVIOUS
<1> HIDE DEF D
<1>5. ASSUME NEW k \in Nat, k < N
      PROVE  /\ \A x \in G[k] : Whole(x, Word("-v", <<>>)) \in M[k]
             /\ \A x \in M[k] : Whole(x, Word("word", files[k + 1])) \in G[k + 1]
  <2>1. /\ G[k] = Objects(defs, inc, mod, ext, D(k), "none")
        /\ M[k] = Objects(defs, inc, mod, ext, D(k), "-v")
        /\ G[k + 1] = Objects(defs, inc, mod, ext, Append(D(k), files[k + 1]), "none")
    BY <1>3, <1>4, <1>5
  <2>2. files[k + 1] \in Text
    BY <1>4, <1>5
  <2> HIDE DEF G, M
  <2> QED
    BY <2>1, <2>2, WholeTakes, WholeLibrary
<1>6. s \in G[0] /\ G[N] = Objects(defs, inc, mod, ext, lib \o files, "none")
  BY <1>1, <1>2
<1> HIDE DEF G, M
<1>7. Pairs("-v", files) \in Seq(ParamWords) /\ Read(s, Pairs("-v", files)) \in G[N]
  BY <1>5, <1>6, ReadPairs
<1> QED
  BY <1>6, <1>7
-----------------------------------------------------------------------------
(* The postfixes: one word, or none. *)
LEMMA ReadLibext ==
  ASSUME VcsStyle, NEW defs, NEW inc, NEW mod, NEW ext \in Text, NEW lib,
         NEW s \in Objects(defs, inc, mod, ext, lib, "none"), NEW postfixes \in Text
  PROVE  LET ws == IF postfixes = <<>> THEN <<>> ELSE <<Word("+libext", postfixes)>>
         IN  /\ ws \in Seq(ParamWords)
             /\ Read(s, ws) \in Objects(defs, inc, mod, ext \o postfixes, lib, "none")
<1> DEFINE w == Word("+libext", postfixes)
<1>1. w \in ParamWords
  BY DEF Word, ParamWords
<1>2. CASE postfixes = <<>>
  <2>1. Read(s, <<>>) = s
    BY ReadNone
  <2>2. ext \o postfixes = ext
    BY <1>2, ConcatEmptySeq DEF Text
  <2>3. <<>> \in Seq(ParamWords)
    OBVIOUS
  <2> QED
    BY <1>2, <2>1, <2>2, <2>3
<1>3. CASE postfixes # <<>>
  <2> HIDE DEF w
  <2>1. <<>> \in Seq(ParamWords) /\ <<w>> \in Seq(ParamWords) /\ <<w>> = Append(<<>>, w)
    BY <1>1
  <2>2. Read(s, <<w>>) = Whole(s, w)
    <3> DEFINE none == <<>>
    <3>1. none \in Seq(ParamWords) /\ <<w>> = Append(none, w) /\ Read(s, none) = s
      BY <2>1, ReadNone
    <3> HIDE DEF none
    <3>2. Read(s, Append(none, w)) = Whole(Read(s, none), w)
      BY <1>1, <3>1, ReadAppended
    <3> QED
      BY <3>1, <3>2
  <2>3. Whole(s, w) \in Objects(defs, inc, mod, ext \o postfixes, lib, "none")
    BY WholeLibext DEF w
  <2> QED
    BY <1>3, <2>1, <2>2, <2>3 DEF w
<1> QED
  BY <1>2, <1>3

(* All the words of get_parameters, read by a new object. *)
LEMMA ParametersRead ==
  ASSUME VcsStyle, NEW s \in OptionsType, CarriedTable(s.defines)
  PROVE  Read(New, GetParameters(s))
           \in Objects(Table(s.defines, Len(SortedNames)), << <<>> >> \o s.incdir,
                       << <<>> >> \o s.module_dir, <<".v">> \o s.libext,
                       <<>> \o s.library, "none")
<1> DEFINE defs == Table(s.defines, Len(SortedNames))
           one == << <<>> >>
           v == <<".v">>
           none == <<>>
           a == DefineWords(s)[Len(SortedNames)]
           b == IF s.libext = <<>> THEN <<>> ELSE <<Word("+libext", s.libext)>>
           c == Each("+incdir", s.incdir)
           d == Pairs("-y", s.module_dir)
           e == Pairs("-v", s.library)
           ta == Read(New, a)
           tb == Read(ta, b)
           tc == Read(tb, c)
           td == Read(tc, d)
           te == Read(td, e)
<1>1. /\ s.incdir \in Seq(Text) /\ s.module_dir \in Seq(Text) /\ s.libext \in Text
      /\ s.library \in Seq(Text)
  BY DEF OptionsType
<1>2. one \in Seq(Text) /\ v \in Text /\ none \in Seq(Text)
  <2>1. <<>> \in Text
    BY DEF Text
  <2>2. ".v" \in Part
    BY DEF Part
  <2> QED
    BY <2>1, <2>2 DEF Text
<1>3. a \in Seq(ParamWords) /\ ta \in Objects(defs, one, one, v, none, "none")
  <2>1. Len(SortedNames) \in 0 .. Len(SortedNames)
    BY NameTypes
  <2> QED
    BY <2>1, DefineWordsAre, ReadDefines
<1> HIDE DEF defs, one, v, none, a, ta
<1>4. b \in Seq(ParamWords) /\ tb \in Objects(defs, one, one, v \o s.libext, none, "none")
  BY <1>1, <1>2, <1>3, ReadLibext
<1> HIDE DEF b, tb
<1>5. c \in Seq(ParamWords)
      /\ tc \in Objects(defs, one \o s.incdir, one, v \o s.libext, none, "none")
  BY <1>1, <1>2, <1>4, ReadIncdirs
<1> HIDE DEF c, tc
<1>6. d \in Seq(ParamWords)
      /\ td \in Objects(defs, one \o s.incdir, one \o s.module_dir, v \o s.libext, none, "none")
  BY <1>1, <1>2, <1>5, ReadModuleDirs
<1> HIDE DEF d, td
<1>7. e \in Seq(ParamWords)
      /\ te \in Objects(defs, one \o s.incdir, one \o s.module_dir, v \o s.libext,
                        none \o s.library, "none")
  BY <1>1, <1>2, <1>6, ReadLibraries
<1> HIDE DEF e, te
<1>8. Read(New, a \o (b \o (c \o (d \o e)))) = te
  <2> DEFINE de == d \o e
             cde == c \o de
             bcde == b \o cde
  <2>1. de \in Seq(ParamWords) /\ Read(tc, de) = te
    BY <1>6, <1>7, ConcatProperties, ReadJoined DEF td, te
  <2> HIDE DEF de
  <2>2. cde \in Seq(ParamWords) /\ Read(tb, cde) = te
    BY <1>5, <2>1, ConcatProperties, ReadJoined DEF tc
  <2> HIDE DEF cde
  <2>3. bcde \in Seq(ParamWords) /\ Read(ta, bcde) = te
    BY <1>4, <2>2, ConcatProperties, ReadJoined DEF tb
  <2> HIDE DEF bcde
  <2>4. Read(New, a \o bcde) = te
    BY <1>3, <2>3, ReadJoined DEF ta
  <2> QED
    BY <2>4 DEF bcde, cde, de
<1>9. GetParameters(s) = a \o (b \o (c \o (d \o e)))
  BY DEF GetParameters, a, b, c, d, e
<1> QED
  BY <1>7, <1>8, <1>9 DEF defs, one, v, none
-----------------------------------------------------------------------------
(* The first place of a sequence whose element is in a set. *)
Firsts(a, P) == {i \in DOMAIN a : a[i] \in P}

(* One element is there again, after an earlier one like it. *)
Repeats(a, b, p, q) ==
  /\ Len(b) = Len(a) + 1 /\ p \in 1 .. Len(a) /\ q \in 1 .. p
  /\ \A i \in 1 .. p : b[i] = a[i]
  /\ b[p + 1] = a[q]
  /\ \A i \in p + 1 .. Len(a) : b[i + 1] = a[i]

(* The least of a set of numbers. *)
LEMMA LeastIs ==
  ASSUME NEW T, T \subseteq Nat, NEW x \in T, \A y \in T : x <= y
  PROVE  Min(T) = x
<1> DEFINE m == Min(T)
<1>1. m \in T /\ \A y \in T : m <= y
  BY Least DEF Min
<1> HIDE DEF m
<1>2. x \in Nat /\ m \in Nat /\ x <= m /\ m <= x
  BY <1>1
<1>3. m = x
  BY <1>2
<1> QED
  BY <1>3 DEF m

(* So the first element in a set stays. *)
SameFirst(a, b, P) ==
  /\ Firsts(a, P) = {} <=> Firsts(b, P) = {}
  /\ Firsts(a, P) # {} => b[Min(Firsts(b, P))] = a[Min(Firsts(a, P))]

LEMMA RepeatsSame ==
  ASSUME NEW S, NEW a \in Seq(S), NEW b \in Seq(S), NEW p, NEW q, Repeats(a, b, p, q), NEW P
  PROVE  SameFirst(a, b, P)
<1> DEFINE A == Firsts(a, P)
           B == Firsts(b, P)
           x == Min(A)
           N == Len(a)
<1>1. /\ N \in Nat /\ Len(b) = N + 1 /\ p \in 1 .. N /\ q \in 1 .. p
      /\ DOMAIN a = 1 .. N /\ DOMAIN b = 1 .. N + 1
  BY DEF Repeats
<1>2. /\ \A i \in 1 .. p : b[i] = a[i]
      /\ b[p + 1] = a[q]
      /\ \A i \in p + 1 .. N : b[i + 1] = a[i]
  BY DEF Repeats
<1>3. /\ \A i \in 1 .. N : i \in A <=> a[i] \in P
      /\ \A i \in 1 .. N + 1 : i \in B <=> b[i] \in P
      /\ A \subseteq 1 .. N /\ B \subseteq 1 .. N + 1
  BY <1>1 DEF Firsts
<1> HIDE DEF A, B, N
<1>4. ASSUME NEW j \in B
      PROVE  \/ j \in A /\ j <= p
             \/ j = p + 1 /\ q \in A
             \/ j - 1 \in A /\ j - 1 > p
  <2>1. j \in 1 .. N + 1 /\ b[j] \in P
    BY <1>3
  <2>2. CASE j <= p
    <3>1. j \in 1 .. p /\ j \in 1 .. N
      BY <1>1, <2>1, <2>2
    <3> QED
      BY <1>2, <1>3, <2>1, <2>2, <3>1
  <2>3. CASE j = p + 1
    <3>1. q \in 1 .. N
      BY <1>1
    <3> QED
      BY <1>2, <1>3, <2>1, <2>3, <3>1
  <2>4. CASE j > p + 1
    <3>1. j - 1 \in p + 1 .. N /\ (j - 1) + 1 = j /\ j - 1 \in 1 .. N /\ j - 1 > p
      BY <1>1, <2>1, <2>4
    <3> QED
      BY <1>2, <1>3, <2>1, <3>1
  <2>5. j <= p \/ j = p + 1 \/ j > p + 1
    BY <1>1, <2>1
  <2> QED
    BY <2>2, <2>3, <2>4, <2>5
<1>5. CASE A = {}
  <2>1. B = {}
    BY <1>4, <1>5
  <2> QED
    BY <1>5, <2>1 DEF SameFirst, A, B
<1>6. CASE A # {}
  <2>1. x \in A /\ x \in 1 .. N /\ a[x] \in P /\ \A y \in A : x <= y
    <3>1. A \subseteq Nat
      BY <1>1, <1>3
    <3>2. x \in A /\ \A y \in A : x <= y
      BY <1>6, <3>1, LeastIn
    <3> QED
      BY <1>3, <3>2
  <2> HIDE DEF x
  <2>2. B \subseteq Nat /\ A \subseteq Nat
    BY <1>1, <1>3
  <2>3. CASE x <= p
    <3>1. x \in 1 .. p /\ x \in 1 .. N + 1
      BY <1>1, <2>1, <2>3
    <3>2. b[x] = a[x] /\ x \in B
      BY <1>2, <1>3, <2>1, <3>1
    <3>3. \A j \in B : x <= j
      <4> TAKE j \in B
      <4>1. CASE j \in A /\ j <= p
        BY <2>1, <4>1
      <4>2. CASE j = p + 1 /\ q \in A
        BY <1>1, <2>1, <2>3, <4>2
      <4>3. CASE j - 1 \in A /\ j - 1 > p
        BY <1>1, <2>1, <2>2, <2>3, <4>3
      <4> QED
        BY <1>4, <4>1, <4>2, <4>3
    <3>4. Min(B) = x
      BY <2>2, <3>2, <3>3, LeastIs
    <3> QED
      BY <1>6, <3>2, <3>4 DEF SameFirst, A, B, x
  <2>4. CASE x > p
    <3>1. x \in p + 1 .. N /\ x + 1 \in 1 .. N + 1
      BY <1>1, <2>1, <2>4
    <3>2. b[x + 1] = a[x] /\ x + 1 \in B
      BY <1>2, <1>3, <2>1, <3>1
    <3>3. \A j \in B : x + 1 <= j
      <4> TAKE j \in B
      <4>1. ~ (j \in A /\ j <= p)
        BY <1>1, <2>1, <2>2, <2>4
      <4>2. q \notin A
        BY <1>1, <2>1, <2>4
      <4>3. j - 1 \in A /\ j \in Nat
        BY <1>4, <2>2, <4>1, <4>2
      <4> QED
        BY <2>1, <2>2, <4>3
    <3>4. Min(B) = x + 1
      BY <2>2, <3>2, <3>3, LeastIs
    <3> QED
      BY <1>6, <3>2, <3>4 DEF SameFirst, A, B, x
  <2> QED
    BY <1>1, <2>1, <2>3, <2>4
<1> QED
  BY <1>5, <1>6
-----------------------------------------------------------------------------
(* One element before a sequence. *)
LEMMA Before ==
  ASSUME NEW S, NEW x \in S, NEW a \in Seq(S)
  PROVE  LET b == <<x>> \o a
         IN  /\ b \in Seq(S) /\ Len(b) = Len(a) + 1 /\ b[1] = x
             /\ \A k \in 1 .. Len(a) : b[k + 1] = a[k]
<1> DEFINE one == <<x>>
           b == one \o a
<1>1. one \in Seq(S) /\ Len(one) = 1 /\ one[1] = x /\ Len(a) \in Nat
  OBVIOUS
<1> HIDE DEF one
<1>2. b \in Seq(S) /\ Joining(b, one, a)
  BY <1>1, Joined
<1> HIDE DEF b
<1>3. /\ Len(b) = 1 + Len(a)
      /\ \A i \in 1 .. 1 : b[i] = one[i]
      /\ \A k \in 1 .. Len(a) : b[1 + k] = a[k]
  BY <1>1, <1>2 DEF Joining
<1>4. Len(b) = Len(a) + 1 /\ b[1] = x
  BY <1>1, <1>3
<1>5. \A k \in 1 .. Len(a) : b[k + 1] = a[k]
  <2> TAKE k \in 1 .. Len(a)
  <2>1. k + 1 = 1 + k
    BY <1>1
  <2> QED
    BY <1>3, <2>1
<1> QED
  BY <1>2, <1>4, <1>5 DEF one, b

Starts(a, x) == a # <<>> /\ a[1] = x

(* The first element again, in front. *)
LEMMA RepeatsFirst ==
  ASSUME NEW S, NEW x \in S, NEW a \in Seq(S), Starts(a, x)
  PROVE  Repeats(a, <<x>> \o a, 1, 1) /\ <<x>> \o a \in Seq(S)
<1> DEFINE b == <<x>> \o a
<1>1. /\ b \in Seq(S) /\ Len(b) = Len(a) + 1 /\ b[1] = x
      /\ \A k \in 1 .. Len(a) : b[k + 1] = a[k]
  BY Before
<1>2. Len(a) \in Nat \ {0} /\ a[1] = x
  BY EmptySeq DEF Starts
<1> HIDE DEF b
<1>3. 1 \in 1 .. Len(a) /\ 1 \in 1 .. 1 /\ \A i \in 1 .. 1 : i = 1
  BY <1>2
<1>4. b[1 + 1] = a[1] /\ \A i \in 1 + 1 .. Len(a) : b[i + 1] = a[i]
  BY <1>1, <1>2
<1> QED
  BY <1>1, <1>2, <1>3, <1>4 DEF Repeats, b

(* The first element of the first sequence again, before the second. *)
LEMMA RepeatsBetween ==
  ASSUME NEW S, NEW x \in S, NEW u \in Seq(S), Starts(u, x), NEW m \in Seq(S)
  PROVE  Repeats(u \o m, u \o (<<x>> \o m), Len(u), 1)
<1> DEFINE v == <<x>> \o m
           a == u \o m
           b == u \o v
           p == Len(u)
<1>1. /\ v \in Seq(S) /\ Len(v) = Len(m) + 1 /\ v[1] = x
      /\ \A k \in 1 .. Len(m) : v[k + 1] = m[k]
  BY Before
<1> HIDE DEF v
<1>2. p \in Nat \ {0} /\ u[1] = x /\ Len(m) \in Nat
  BY EmptySeq DEF Starts
<1>3. Joining(a, u, m) /\ Joining(b, u, v)
  BY <1>1, Joined
<1> HIDE DEF a, b
<1>4. /\ Len(a) = p + Len(m) /\ Len(b) = p + Len(v)
      /\ \A i \in 1 .. p : a[i] = u[i] /\ b[i] = u[i]
      /\ \A k \in 1 .. Len(m) : a[p + k] = m[k]
      /\ \A k \in 1 .. Len(v) : b[p + k] = v[k]
  BY <1>3 DEF Joining
<1> HIDE DEF p
<1>5. Len(b) = Len(a) + 1 /\ p \in 1 .. Len(a) /\ 1 \in 1 .. p /\ 1 \in 1 .. Len(v)
  BY <1>1, <1>2, <1>4
<1>6. b[p + 1] = a[1]
  BY <1>1, <1>2, <1>4, <1>5 DEF p
<1>7. ASSUME NEW i \in p + 1 .. Len(a) PROVE b[i + 1] = a[i]
  <2> DEFINE k == i - p
  <2>1. k \in 1 .. Len(m) /\ k + 1 \in 1 .. Len(v) /\ p + k = i /\ p + (k + 1) = i + 1
    BY <1>1, <1>2, <1>4
  <2> HIDE DEF k
  <2>2. a[p + k] = m[k] /\ b[p + (k + 1)] = v[k + 1] /\ v[k + 1] = m[k]
    BY <1>1, <1>4, <2>1
  <2> QED
    BY <2>1, <2>2
<1> QED
  BY <1>4, <1>5, <1>6, <1>7 DEF Repeats, a, b, p, v

(* The first element again, behind another. *)
LEMMA RepeatsSecond ==
  ASSUME NEW S, NEW x \in S, NEW y \in S, NEW a \in Seq(S), Starts(a, x)
  PROVE  /\ Repeats(<<y>> \o a, <<y>> \o (<<x>> \o a), 2, 2)
         /\ <<y>> \o a \in Seq(S) /\ <<y>> \o (<<x>> \o a) \in Seq(S)
<1> DEFINE xa == <<x>> \o a
           ya == <<y>> \o a
           yxa == <<y>> \o xa
<1>1. /\ xa \in Seq(S) /\ Len(xa) = Len(a) + 1 /\ xa[1] = x
      /\ \A k \in 1 .. Len(a) : xa[k + 1] = a[k]
  BY Before
<1>2. /\ ya \in Seq(S) /\ Len(ya) = Len(a) + 1 /\ ya[1] = y
      /\ \A k \in 1 .. Len(a) : ya[k + 1] = a[k]
  BY Before
<1> HIDE DEF xa, ya
<1>3. /\ yxa \in Seq(S) /\ Len(yxa) = Len(xa) + 1 /\ yxa[1] = y
      /\ \A k \in 1 .. Len(xa) : yxa[k + 1] = xa[k]
  BY <1>1, Before
<1> HIDE DEF yxa
<1>4. Len(a) \in Nat \ {0} /\ a[1] = x
  BY EmptySeq DEF Starts
<1>5. /\ Len(yxa) = Len(ya) + 1 /\ 2 \in 1 .. Len(ya) /\ 2 \in 1 .. 2
      /\ 1 \in 1 .. Len(a) /\ 1 \in 1 .. Len(xa) /\ 2 \in 1 .. Len(xa)
  BY <1>1, <1>2, <1>3, <1>4
<1>6. ya[1 + 1] = a[1] /\ yxa[1 + 1] = xa[1] /\ yxa[2 + 1] = xa[2] /\ xa[1 + 1] = a[1]
  BY <1>1, <1>2, <1>3, <1>5
<1>7. yxa[1] = ya[1] /\ yxa[2] = ya[2] /\ yxa[2 + 1] = ya[2]
  BY <1>1, <1>2, <1>3, <1>4, <1>6
<1>8. ASSUME NEW i \in 2 + 1 .. Len(ya) PROVE yxa[i + 1] = ya[i]
  <2> DEFINE k == i - 1
  <2>1. k \in 1 .. Len(a) /\ k + 1 = i /\ i \in 1 .. Len(xa)
    BY <1>1, <1>2, <1>4
  <2> HIDE DEF k
  <2>2. ya[k + 1] = a[k] /\ xa[k + 1] = a[k] /\ yxa[i + 1] = xa[i]
    BY <1>1, <1>2, <1>3, <2>1
  <2> QED
    BY <2>1, <2>2
<1>9. \A i \in 1 .. 2 : yxa[i] = ya[i]
  <2>1. \A i \in 1 .. 2 : i = 1 \/ i = 2
    OBVIOUS
  <2> QED
    BY <1>7, <2>1
<1> QED
  BY <1>2, <1>3, <1>5, <1>7, <1>8, <1>9 DEF Repeats, xa, ya, yxa
-----------------------------------------------------------------------------
(* The elements of a sequence.                                             *)
LEMMA Elements ==
  ASSUME NEW S, NEW s \in Seq(S)
  PROVE  \A j \in DOMAIN s : s[j] \in S
OBVIOUS

(* A lookup finds the first place: it depends on the directories and the   *)
(* postfixes by their first elements in a set only.                        *)
SameFirsts(a, b) == \A P : SameFirst(a, b, P)
Postfixes(s) == <<"">> \o s.libext
LEMMA FoundByFirsts ==
  ASSUME NEW s, NEW t, NEW f, NEW type,
         Dirs(s, type) \in Seq(Text), Dirs(t, type) \in Seq(Text),
         Postfixes(s) \in Text, Postfixes(t) \in Text,
         SameFirsts(Dirs(s, type), Dirs(t, type)),
         SameFirsts(Postfixes(s), Postfixes(t))
  PROVE  Found(t, f, type) = Found(s, f, type)
<1> DEFINE ds == Dirs(s, type)
           dt == Dirs(t, type)
           ps == Postfixes(s)
           pt == Postfixes(t)
           Q(d) == {p \in Part : <<d, f, p>> \in Disk}
           hereS(d) == {j \in DOMAIN ps : <<d, f, ps[j]>> \in Disk}
           hereT(d) == {j \in DOMAIN pt : <<d, f, pt[j]>> \in Disk}
           P == {d \in Text : hereS(d) # {}}
           havingS == {i \in DOMAIN ds : hereS(ds[i]) # {}}
           havingT == {i \in DOMAIN dt : hereT(dt[i]) # {}}
           dirS == ds[Min(havingS)]
           dirT == dt[Min(havingT)]
<1>1. ps \in Seq(Part) /\ pt \in Seq(Part) /\ ds \in Seq(Text) /\ dt \in Seq(Text)
  BY DEF Text
<1> HIDE DEF ps, pt, ds, dt
<1>2. ASSUME NEW d PROVE hereS(d) = Firsts(ps, Q(d)) /\ hereT(d) = Firsts(pt, Q(d))
  <2>1. /\ \A j \in DOMAIN ps : ps[j] \in Part
        /\ \A j \in DOMAIN pt : pt[j] \in Part
    BY <1>1, Elements
  <2>2. /\ \A j \in DOMAIN ps : ps[j] \in Q(d) <=> <<d, f, ps[j]>> \in Disk
        /\ \A j \in DOMAIN pt : pt[j] \in Q(d) <=> <<d, f, pt[j]>> \in Disk
    BY <2>1
  <2> HIDE DEF Q
  <2>3. hereS(d) = Firsts(ps, Q(d))
    BY <2>2, Zenon DEF Firsts
  <2>4. hereT(d) = Firsts(pt, Q(d))
    BY <2>2, Zenon DEF Firsts
  <2> QED
    BY <2>3, <2>4
<1>3. ASSUME NEW d PROVE SameFirst(ps, pt, Q(d))
  BY DEF ps, pt, SameFirsts
<1>4. ASSUME NEW d
      PROVE  /\ hereS(d) = {} <=> hereT(d) = {}
             /\ hereS(d) # {} => pt[Min(hereT(d))] = ps[Min(hereS(d))]
  <2> HIDE DEF hereS, hereT, Q
  <2> QED
    BY <1>2, <1>3 DEF SameFirst
<1> HIDE DEF hereS, hereT, Q
<1>5. havingS = Firsts(ds, P) /\ havingT = Firsts(dt, P)
  <2>1. /\ \A j \in DOMAIN ds : ds[j] \in Text
        /\ \A j \in DOMAIN dt : dt[j] \in Text
    BY <1>1, Elements
  <2> QED
    BY <1>4, <2>1 DEF Firsts
<1>6. SameFirst(ds, dt, P)
  BY DEF ds, dt, SameFirsts
<1>7. /\ havingS = {} <=> havingT = {}
      /\ havingS # {} => dirT = dirS
  <2> HIDE DEF havingS, havingT, P
  <2> QED
    BY <1>5, <1>6 DEF SameFirst
<1>8. havingS # {} => hereS(dirS) # {}
  <2> SUFFICES ASSUME havingS # {} PROVE hereS(dirS) # {}
    OBVIOUS
  <2>1. havingS \subseteq Nat
    BY <1>1, Places
  <2>2. Min(havingS) \in havingS
    BY <2>1, LeastIn
  <2> QED
    BY <2>2
<1> HIDE DEF havingS, havingT, dirS, dirT
<1>9. Found(s, f, type) = IF << <<>>, f, "" >> \in Disk THEN << <<>>, f, "" >>
                          ELSE IF havingS = {} THEN NoPath
                          ELSE <<dirS, f, ps[Min(hereS(dirS))]>>
  BY DEF Found, havingS, dirS, hereS, ds, ps, Postfixes
<1>10. Found(t, f, type) = IF << <<>>, f, "" >> \in Disk THEN << <<>>, f, "" >>
                           ELSE IF havingT = {} THEN NoPath
                           ELSE <<dirT, f, pt[Min(hereT(dirT))]>>
  BY DEF Found, havingT, dirT, hereT, dt, pt, Postfixes
<1>11. CASE << <<>>, f, "" >> \in Disk
  BY <1>9, <1>10, <1>11
<1>12. CASE << <<>>, f, "" >> \notin Disk /\ havingS = {}
  BY <1>7, <1>9, <1>10, <1>12
<1>13. CASE << <<>>, f, "" >> \notin Disk /\ havingS # {}
  <2>1. hereS(dirS) # {} => pt[Min(hereT(dirS))] = ps[Min(hereS(dirS))]
    BY <1>4
  <2>2. dirT = dirS /\ havingT # {} /\ pt[Min(hereT(dirS))] = ps[Min(hereS(dirS))]
    BY <1>7, <1>8, <1>13, <2>1
  <2> QED
    BY <1>9, <1>10, <1>13, <2>2
<1> QED
  BY <1>11, <1>12, <1>13

(* The same first elements, one sequence after the other.                  *)
LEMMA SameTwice ==
  ASSUME NEW a, NEW b, NEW c, NEW P, SameFirst(a, b, P), SameFirst(b, c, P)
  PROVE  SameFirst(a, c, P)
BY DEF SameFirst

(* Two lists that start alike, each with its first element again.          *)
LEMMA SameJoined ==
  ASSUME NEW S, NEW x \in S, NEW i \in Seq(S), NEW m \in Seq(S), Starts(i, x), NEW P
  PROVE  /\ SameFirst(i \o m, (<<x>> \o i) \o (<<x>> \o m), P)
         /\ i \o m \in Seq(S) /\ (<<x>> \o i) \o (<<x>> \o m) \in Seq(S)
<1> DEFINE one == <<x>>
           im == i \o m
           u  == one \o i
           v  == one \o m
<1>1. one \in Seq(S) /\ one[1] = x
  OBVIOUS
<1>2. im \in Seq(S) /\ Joining(im, i, m)
  BY Joined
<1>3. Starts(im, x)
  <2>1. Len(i) \in Nat \ {0} /\ i[1] = x /\ Len(m) \in Nat
    BY EmptySeq DEF Starts
  <2>2. 1 \in 1 .. Len(i)
    BY <2>1
  <2> HIDE DEF im
  <2>3. Len(im) = Len(i) + Len(m) /\ im[1] = i[1]
    BY <1>2, <2>2 DEF Joining
  <2>4. Len(im) # 0 /\ im[1] = x
    BY <2>1, <2>3
  <2> QED
    BY <1>2, <2>4, EmptySeq DEF Starts
<1>4. u \in Seq(S) /\ u[1] = x /\ Len(u) = Len(i) + 1
  BY Before
<1>5. v \in Seq(S)
  BY Before
<1>6. Starts(u, x)
  <2>1. Len(i) \in Nat
    OBVIOUS
  <2> HIDE DEF u
  <2>2. Len(u) # 0
    BY <1>4, <2>1
  <2> QED
    BY <1>4, <2>2, EmptySeq DEF Starts
<1>7. SameFirst(im, one \o im, P)
  <2> HIDE DEF im
  <2>1. Repeats(im, <<x>> \o im, 1, 1) /\ <<x>> \o im \in Seq(S)
    BY <1>2, <1>3, RepeatsFirst
  <2> QED
    BY <1>2, <2>1, RepeatsSame DEF one
<1>8. one \o im = u \o m
  <2> HIDE DEF one
  <2> QED
    BY <1>1, ConcatAssociative DEF im, u
<1>9. SameFirst(u \o m, u \o v, P) /\ u \o v \in Seq(S)
  <2> HIDE DEF u
  <2>1. Repeats(u \o m, u \o v, Len(u), 1)
    BY <1>4, <1>6, RepeatsBetween DEF v
  <2> HIDE DEF v
  <2>2. u \o m \in Seq(S) /\ u \o v \in Seq(S)
    BY <1>4, <1>5, Joined
  <2> QED
    BY <2>1, <2>2, RepeatsSame
<1> HIDE DEF im, u, v, one
<1>10. SameFirst(im, u \o v, P)
  BY <1>7, <1>8, <1>9, SameTwice
<1> QED
  BY <1>2, <1>9, <1>10 DEF im, u, v, one

(* An object whose lists start as a new one's, and another with these      *)
(* first elements again: each finds the same files.                        *)
InFront(s, t) ==
  /\ t.incdir = << <<>> >> \o s.incdir /\ t.module_dir = << <<>> >> \o s.module_dir
  /\ t.libext = <<".v">> \o s.libext
StartsAsNew(s) ==
  /\ Starts(s.incdir, <<>>) /\ Starts(s.module_dir, <<>>) /\ Starts(s.libext, ".v")

LEMMA FoundInFront ==
  ASSUME NEW s \in OptionsType, NEW t, InFront(s, t), StartsAsNew(s), NEW f, NEW type
  PROVE  Found(t, f, type) = Found(s, f, type)
<1> DEFINE i == s.incdir
           m == s.module_dir
           e == s.libext
           here == <<>>
           ds == Dirs(s, type)
           dt == Dirs(t, type)
           ps == <<"">> \o e
           pt == <<"">> \o (<<".v">> \o e)
<1>1. i \in Seq(Text) /\ m \in Seq(Text) /\ e \in Seq(Part) /\ here \in Text
  BY DEF OptionsType, Text
<1>2. "" \in Part /\ ".v" \in Part
  BY DEF Part
<1>3. Starts(i, here) /\ Starts(m, here) /\ Starts(e, ".v")
  BY DEF StartsAsNew
<1>4. /\ t.incdir = <<here>> \o i /\ t.module_dir = <<here>> \o m
      /\ t.libext = <<".v">> \o e
  BY DEF InFront
<1> HIDE DEF here
<1>5. ASSUME NEW P
      PROVE  SameFirst(ps, pt, P) /\ ps \in Seq(Part) /\ pt \in Seq(Part)
  <2>1. Repeats(ps, pt, 2, 2) /\ ps \in Seq(Part) /\ pt \in Seq(Part)
    BY <1>1, <1>2, <1>3, RepeatsSecond
  <2> QED
    BY <2>1, RepeatsSame
<1>6. ASSUME NEW P
      PROVE  SameFirst(ds, dt, P) /\ ds \in Seq(Text) /\ dt \in Seq(Text)
  <2>1. CASE type = "module"
    <3>1. ds = m /\ dt = <<here>> \o m
      BY <1>4, <2>1 DEF Dirs
    <3>2. Repeats(m, <<here>> \o m, 1, 1) /\ <<here>> \o m \in Seq(Text)
      BY <1>1, <1>3, RepeatsFirst
    <3>3. SameFirst(m, <<here>> \o m, P)
      BY <1>1, <3>2, RepeatsSame
    <3> QED
      BY <1>1, <3>1, <3>2, <3>3
  <2>2. CASE type = "include"
    <3>1. ds = i /\ dt = <<here>> \o i
      BY <1>4, <2>2 DEF Dirs
    <3>2. Repeats(i, <<here>> \o i, 1, 1) /\ <<here>> \o i \in Seq(Text)
      BY <1>1, <1>3, RepeatsFirst
    <3>3. SameFirst(i, <<here>> \o i, P)
      BY <1>1, <3>2, RepeatsSame
    <3> QED
      BY <1>1, <3>1, <3>2, <3>3
  <2>3. CASE type # "module" /\ type # "include"
    <3>1. ds = i \o m /\ dt = (<<here>> \o i) \o (<<here>> \o m)
      BY <1>4, <2>3 DEF Dirs
    <3>2. /\ SameFirst(i \o m, (<<here>> \o i) \o (<<here>> \o m), P)
          /\ i \o m \in Seq(Text) /\ (<<here>> \o i) \o (<<here>> \o m) \in Seq(Text)
      BY <1>1, <1>3, SameJoined
    <3> QED
      BY <3>1, <3>2
  <2> QED
    BY <2>1, <2>2, <2>3
<1>7. <<"">> \o t.libext = pt
  BY <1>4
<1>8. /\ ds \in Seq(Text) /\ dt \in Seq(Text) /\ ps \in Text /\ pt \in Text
      /\ SameFirsts(ds, dt) /\ SameFirsts(ps, pt)
  BY <1>5, <1>6 DEF Text, SameFirsts
<1> HIDE DEF ds, dt, ps, pt
<1>9. /\ Dirs(s, type) \in Seq(Text) /\ Dirs(t, type) \in Seq(Text)
      /\ Postfixes(s) \in Text /\ Postfixes(t) \in Text
      /\ SameFirsts(Dirs(s, type), Dirs(t, type))
      /\ SameFirsts(Postfixes(s), Postfixes(t))
  BY <1>7, <1>8 DEF ds, dt, ps, Postfixes
<1> QED
  BY <1>9, FoundByFirsts
-----------------------------------------------------------------------------
(* A list that grows at its end starts as before.                          *)
LEMMA StartsMore ==
  ASSUME NEW S, NEW a \in Seq(S), NEW x, Starts(a, x)
  PROVE  /\ \A e \in S : Starts(Append(a, e), x)
         /\ \A b \in Seq(S) : Starts(a \o b, x)
<1>1. Len(a) \in Nat \ {0} /\ a[1] = x
  BY EmptySeq DEF Starts
<1>2. 1 \in 1 .. Len(a)
  BY <1>1
<1>3. ASSUME NEW e \in S PROVE Starts(Append(a, e), x)
  <2> DEFINE b == Append(a, e)
  <2>1. b \in Seq(S) /\ Len(b) = Len(a) + 1 /\ b[1] = a[1]
    BY <1>2
  <2> HIDE DEF b
  <2>2. Len(b) # 0
    BY <1>1, <2>1
  <2> QED
    BY <1>1, <2>1, <2>2, EmptySeq DEF Starts, b
<1>4. ASSUME NEW b \in Seq(S) PROVE Starts(a \o b, x)
  <2> DEFINE t == a \o b
  <2>1. t \in Seq(S) /\ Joining(t, a, b) /\ Len(b) \in Nat
    BY Joined
  <2> HIDE DEF t
  <2>2. Len(t) = Len(a) + Len(b) /\ t[1] = a[1]
    BY <1>2, <2>1 DEF Joining
  <2>3. Len(t) # 0
    BY <1>1, <2>1, <2>2
  <2> QED
    BY <1>1, <2>1, <2>2, <2>3, EmptySeq DEF Starts, t
<1> QED
  BY <1>3, <1>4

(* The same lists start alike, and so does each that a word makes longer. *)
LEMMA PlacesStart ==
  ASSUME NEW s, NEW t, SamePlaces(s, t), StartsAsNew(s)
  PROVE  StartsAsNew(t)
BY DEF SamePlaces, StartsAsNew

LEMMA IncdirStarts ==
  ASSUME NEW s \in OptionsType, StartsAsNew(s), NEW d \in Text
  PROVE  StartsAsNew(Incdir(s, d))
<1> DEFINE dirs == Append(s.incdir, d)
           none == [f \in FileNames |-> NoPath]
           here == <<>>
<1>1. s.incdir \in Seq(Text) /\ Starts(s.incdir, here)
  BY DEF OptionsType, StartsAsNew
<1> HIDE DEF here
<1>2. Starts(dirs, here)
  BY <1>1, StartsMore
<1>3. Incdir(s, d) = [s EXCEPT !.incdir = dirs, !.cache = none]
  BY DEF Incdir, Flushed, OptionsType
<1> HIDE DEF dirs, none
<1> DEFINE t == Incdir(s, d)
<1>4. t.incdir = dirs /\ t.module_dir = s.module_dir /\ t.libext = s.libext
  BY <1>3 DEF OptionsType
<1> HIDE DEF t
<1> QED
  BY <1>2, <1>4 DEF StartsAsNew, t, here

LEMMA ModuleDirStarts ==
  ASSUME NEW s \in OptionsType, StartsAsNew(s), NEW d \in Text
  PROVE  StartsAsNew(ModuleDir(s, d))
<1> DEFINE dirs == Append(s.module_dir, d)
           none == [f \in FileNames |-> NoPath]
           here == <<>>
<1>1. s.module_dir \in Seq(Text) /\ Starts(s.module_dir, here)
  BY DEF OptionsType, StartsAsNew
<1> HIDE DEF here
<1>2. Starts(dirs, here)
  BY <1>1, StartsMore
<1>3. ModuleDir(s, d) = [s EXCEPT !.module_dir = dirs, !.cache = none]
  BY DEF ModuleDir, Flushed, OptionsType
<1> HIDE DEF dirs, none
<1> DEFINE t == ModuleDir(s, d)
<1>4. t.incdir = s.incdir /\ t.module_dir = dirs /\ t.libext = s.libext
  BY <1>3 DEF OptionsType
<1> HIDE DEF t
<1> QED
  BY <1>2, <1>4 DEF StartsAsNew, t, here

LEMMA LibextStarts ==
  ASSUME NEW s \in OptionsType, StartsAsNew(s), NEW postfixes \in Text
  PROVE  StartsAsNew(Libext(s, postfixes))
<1> DEFINE all == s.libext \o postfixes
           none == [f \in FileNames |-> NoPath]
           v == ".v"
<1>1. s.libext \in Seq(Part) /\ postfixes \in Seq(Part) /\ Starts(s.libext, v)
  BY DEF OptionsType, StartsAsNew, Text
<1> HIDE DEF v
<1>2. Starts(all, v)
  BY <1>1, StartsMore
<1>3. Libext(s, postfixes) = [s EXCEPT !.libext = all, !.cache = none]
  BY DEF Libext, Flushed, OptionsType
<1> HIDE DEF all, none
<1> DEFINE t == Libext(s, postfixes)
<1>4. t.incdir = s.incdir /\ t.module_dir = s.module_dir /\ t.libext = all
  BY <1>3 DEF OptionsType
<1> HIDE DEF t
<1> QED
  BY <1>2, <1>4 DEF StartsAsNew, t, v
-----------------------------------------------------------------------------
(* One word that names no file.                                            *)
LEMMA ParsedStarts ==
  ASSUME NEW s \in OptionsType, StartsAsNew(s), NEW dir \in Text, NEW w \in Words,
         ~ (~ IsOption(w) /\ s.next \in {"-f", "-F"})
  PROVE  StartsAsNew(Parsed(s, dir, w))
<1> DEFINE t == Parsed(s, dir, w)
           path == dir \o w.arg
           next == [s EXCEPT !.next = "none"]
           more == [s EXCEPT !.unparsed = Append(@, w)]
<1>1. w.arg \in Text
  BY WordTypes
<1>2. path \in Text
  BY <1>1, Joined DEF Text
<1>3. next \in OptionsType /\ SamePlaces(s, next)
  BY DEF OptionsType, SamePlaces
<1>4. \/ w.opt \in {"-f", "-F", "-v", "-y"} /\ t = [s EXCEPT !.next = w.opt]
      \/ Vcs(w, "+define") /\ t = Cmdline(s, Head(w.arg))
      \/ Gcc(w, "-D") /\ t = Cmdline(s, w.arg)
      \/ Gcc(w, "-U") /\ t = Undef(s, Head(w.arg))
      \/ t = Incdir(s, path)
      \/ t = Libext(s, w.arg)
      \/ t = Library(next, path)
      \/ t = ModuleDir(next, path)
      \/ t = more
  BY DEF Parsed, TakesNext, Vcs, Gcc
<1> HIDE DEF t, path, next, more
<1> SUFFICES StartsAsNew(t)
  BY DEF t
<1>5. ASSUME SamePlaces(s, t) PROVE StartsAsNew(t)
  BY <1>5, PlacesStart
<1>7. CASE w.opt \in {"-f", "-F", "-v", "-y"} /\ t = [s EXCEPT !.next = w.opt]
  BY <1>5, <1>7 DEF OptionsType, SamePlaces
<1>8. CASE Vcs(w, "+define") /\ t = Cmdline(s, Head(w.arg))
  <2> DEFINE d == Head(w.arg)
  <2>1. d \in Definitions
    BY <1>8, WordTypes DEF Vcs
  <2> HIDE DEF d
  <2>2. t = Cmdline(s, d)
    BY <1>8 DEF d
  <2>3. SameLookups(s, t)
    BY <2>1, <2>2, CmdlineDoes
  <2> QED
    BY <1>5, <2>3 DEF SameLookups
<1>9. CASE Gcc(w, "-D") /\ t = Cmdline(s, w.arg)
  <2> DEFINE d == w.arg
  <2>1. d \in Definitions
    BY <1>9, WordTypes DEF Gcc
  <2> HIDE DEF d
  <2>2. t = Cmdline(s, d)
    BY <1>9 DEF d
  <2>3. SameLookups(s, t)
    BY <2>1, <2>2, CmdlineDoes
  <2> QED
    BY <1>5, <2>3 DEF SameLookups
<1>10. CASE Gcc(w, "-U") /\ t = Undef(s, Head(w.arg))
  <2>1. Head(w.arg) \in Names
    BY <1>10, WordTypes, DefinitionTypes DEF Gcc
  <2>2. SameLookups(s, t)
    BY <1>10, <2>1, UndefDoes
  <2> QED
    BY <1>5, <2>2 DEF SameLookups
<1>11. CASE t = Incdir(s, path)
  BY <1>2, <1>11, IncdirStarts
<1>12. CASE t = Libext(s, w.arg)
  BY <1>1, <1>12, LibextStarts
<1>13. CASE t = Library(next, path)
  <2>1. SamePlaces(next, t)
    BY <1>13 DEF Library, SamePlaces, OptionsType
  <2> QED
    BY <1>3, <1>5, <2>1 DEF SamePlaces
<1>14. CASE t = ModuleDir(next, path)
  <2>1. StartsAsNew(next)
    BY <1>3, PlacesStart
  <2> QED
    BY <1>2, <1>3, <1>14, <2>1, ModuleDirStarts
<1>15. CASE t = more
  <2>1. SamePlaces(s, t)
    BY <1>15 DEF more, OptionsType, SamePlaces
  <2> QED
    BY <1>5, <2>1
<1> QED
  BY <1>4, <1>7, <1>8, <1>9, <1>10, <1>11, <1>12, <1>13, <1>14, <1>15

(* The second invariant: the lists of the object start as a new one's.     *)
StartsInv == StartsAsNew(self)

LEMMA StartsInit == Init => StartsInv
BY DEF Init, New, StartsInv, StartsAsNew, Starts

LEMMA StartsStep ==
  ASSUME OptInv, StartsInv, [Next]_vars
  PROVE  StartsInv'
<1>1. self \in OptionsType /\ StartsAsNew(self) /\ args \in Seq(ListType)
  BY DEF OptInv, Typed, StartsInv
<1>2. ASSUME SamePlaces(self, self') PROVE StartsInv'
  BY <1>1, <1>2, PlacesStart DEF StartsInv
<1>3. CASE Parse
  <2> DEFINE w == NextWord
             dir == Last(args).dir
  <2>1. /\ args # <<>> /\ Last(args).words # <<>>
        /\ ~ (~ IsOption(w) /\ self.next \in {"-f", "-F"})
        /\ self' = Parsed(self, dir, w)
    BY <1>3 DEF Parse, Parsing, NamesFile
  <2>2. w \in Words /\ dir \in Text
    BY <1>1, <2>1, ListTypes DEF ListType
  <2> HIDE DEF w, dir
  <2> QED
    BY <1>1, <2>1, <2>2, ParsedStarts DEF StartsInv
<1>4. CASE ParseFile
  <2> DEFINE there == Last(NextWord.arg) \in DOMAIN ParamFiles
  <2>1. self' = [self EXCEPT !.next = "none", !.died = ~ there]
    BY <1>4 DEF ParseFile
  <2> HIDE DEF there
  <2> QED
    BY <1>1, <1>2, <2>1 DEF OptionsType, SamePlaces
<1>5. CASE SourceDefine
  <2>1. PICK n \in Names, v \in Values, ps \in Params : self' = Define(self, n, v, ps, FALSE)
    BY <1>5 DEF SourceDefine
  <2>2. v \in Values \cup Text /\ ps \in Params \cup {""} /\ FALSE \in BOOLEAN
    OBVIOUS
  <2> DEFINE t == Define(self, n, v, ps, FALSE)
  <2>3. SameLookups(self, t)
    BY <1>1, <2>2, DefineDoes, Zenon
  <2> HIDE DEF t
  <2> QED
    BY <1>2, <2>1, <2>3 DEF t, SameLookups
<1>6. CASE SourceUndef
  BY <1>1, <1>2, <1>6, UndefDoes DEF SourceUndef, SameLookups
<1>7. CASE SourceUndefineall
  BY <1>1, <1>2, <1>7, UndefineallDoes DEF SourceUndefineall, SameLookups
<1>8. ASSUME NEW ws \in Commands, Parameter(ws) PROVE StartsInv'
  <2>1. self' = [self EXCEPT !.unparsed = <<>>]
    BY <1>8 DEF Parameter
  <2> QED
    BY <1>1, <1>2, <2>1 DEF OptionsType, SamePlaces
<1>9. CASE Look
  <2>1. PICK f \in FileNames, t \in LookupTypes : self' = FilePath(self, f, t)
    BY <1>9 DEF Look
  <2> QED
    BY <1>1, <1>2, <2>1, FilePathDoes
<1>10. CASE EndOfWords \/ UNCHANGED vars
  BY <1>2, <1>10 DEF EndOfWords, vars, SamePlaces
<1> QED
  BY <1>3, <1>4, <1>5, <1>6, <1>7, <1>8, <1>9, <1>10 DEF Next

(* An object that holds the two invariants.                                *)
LEMMA Carries ==
  ASSUME VcsStyle, OptInv, StartsInv
  PROVE  ParametersCarry
<1> SUFFICES ASSUME \A n \in Names : Carried(self.defines[n].value)
             PROVE  /\ ~ Again.died
                    /\ Again.library = self.library /\ SameFound
                    /\ \A n \in Names :
                         Again.defines[n] = IF self.defines[n].there
                                            THEN Entry(self.defines[n].value, "", TRUE)
                                            ELSE Undefined
  BY DEF ParametersCarry
<1> DEFINE N == Len(SortedNames)
           defs == self.defines
           table == Table(defs, N)
           inc == << <<>> >> \o self.incdir
           mod == << <<>> >> \o self.module_dir
           ext == <<".v">> \o self.libext
           lib == <<>> \o self.library
<1>1. self \in OptionsType /\ StartsAsNew(self)
  BY DEF OptInv, Typed, StartsInv
<1>2. CarriedTable(defs)
  <2>1. defs \in [Names -> EntryType]
    BY <1>1 DEF OptionsType
  <2>2. ASSUME NEW n \in Names PROVE defs[n].value \in Text
    <3>1. \A v \in Seq(STRING) : v \in Text
      BY Wider DEF Text, Part
    <3>2. defs[n].value \in Values \/ defs[n].value \in Text
      BY <2>1 DEF EntryType
    <3> QED
      BY <3>1, <3>2, GetoptAssumption
  <2> QED
    BY <2>1, <2>2 DEF CarriedTable
<1>3. Again \in Objects(table, inc, mod, ext, lib, "none")
  BY <1>1, <1>2, ParametersRead DEF Again
<1>4. lib = self.library
  BY <1>1 DEF OptionsType
<1> HIDE DEF table, inc, mod, ext, lib
<1>5. /\ Again.died = FALSE /\ Again.defines = table /\ Again.library = lib
      /\ Again.incdir = inc /\ Again.module_dir = mod /\ Again.libext = ext
  BY <1>3 DEF Objects
<1>6. ASSUME NEW n \in Names
      PROVE  table[n] = IF defs[n].there THEN Entry(defs[n].value, "", TRUE) ELSE Undefined
  <2>1. \E k \in 1 .. N : SortedNames[k] = n
    BY NameTypes
  <2> HIDE DEF N
  <2> QED
    BY <2>1 DEF table, Table
<1>7. InFront(self, Again)
  BY <1>5 DEF InFront, inc, mod, ext
<1>8. SameFound
  <2> SUFFICES ASSUME NEW f \in FileNames, NEW t \in LookupTypes
               PROVE  Found(Again, f, t) = Found(self, f, t)
    BY DEF SameFound
  <2> QED
    BY <1>1, <1>7, FoundInFront
<1> QED
  BY <1>4, <1>5, <1>6, <1>8

(* What get_parameters() returns makes a new object of the same macros and *)
(* places, but for the parameters of macros, for every order of the calls, *)
(* every disk and every table without a value of 0 or several parts: no    *)
(* redefinition makes the program die, every macro comes back, with its    *)
(* value, as one of the command line, and every file is found where this   *)
(* object finds it.  The options must be those that the words are spelt in.*)
THEOREM ParametersCarryOver ==
  ASSUME VcsStyle
  PROVE  Spec => []ParametersCarry
<1>1. OptInv /\ StartsInv /\ [Next]_vars => StartsInv'
  BY StartsStep
<1>2. OptInv /\ StartsInv => ParametersCarry
  BY Carries
<1> QED
  BY <1>1, <1>2, StartsInit, Invariance, PTL DEF Spec
=============================================================================
