--------------------------- MODULE NetLinkProofs ---------------------------
(***************************************************************************)
(* TLAPS proofs about NetLink, for any files and libraries, any number of  *)
(* modules and cells, and any order of linking.                            *)
(* Good says that the references of a netlist (as one value, `self') lead  *)
(* to modules of the right names; Grows what no part of linking a cell     *)
(* takes away.  Each part keeps the one and does the other.  Sound and     *)
(* Keeps, further on, are the same for what link() has done so far.        *)
(***************************************************************************)
EXTENDS NetLink, SequenceLemmas, FiniteSetTheorems, FunctionTheorems, TLAPS

CellType   == [submodname : Names, submod : Nat, port : BOOLEAN]
ModuleType == [name : Names, lib : BOOLEAN, top : BOOLEAN, port : BOOLEAN,
               used : Nat, cells : Seq(CellType)]
NetType    == [mods : Seq(ModuleType), table : [Names -> Nat], need : Seq(Nat),
               missing : SUBSET Names, libsDone : BOOLEAN, replaced : SUBSET Names]

Ports(cells) == {c \in 1 .. Len(cells) : cells[c].port}

GoodModule(mods_, mod) ==
  /\ mod.used = Cardinality(Ports(mod.cells))
  /\ \A c \in 1 .. Len(mod.cells) :
       mod.cells[c].submod # 0 =>
         /\ mod.cells[c].submod \in 1 .. Len(mods_)
         /\ mods_[mod.cells[c].submod].name = mod.cells[c].submodname
Good(s) ==
  /\ s \in NetType
  /\ \A m \in 1 .. Len(s.mods) : GoodModule(s.mods, s.mods[m])
  /\ \A n \in Names : s.table[n] # 0 =>
       s.table[n] \in 1 .. Len(s.mods) /\ s.mods[s.table[n]].name = n
  /\ \A i \in 1 .. Len(s.need) : s.need[i] \in 1 .. Len(s.mods)

Grows(s, t) ==
  /\ Len(s.mods) <= Len(t.mods)
  /\ \A m \in 1 .. Len(s.mods) :
       /\ t.mods[m].name = s.mods[m].name
       /\ Len(t.mods[m].cells) = Len(s.mods[m].cells)
       /\ \A c \in 1 .. Len(s.mods[m].cells) :
            t.mods[m].cells[c].submodname = s.mods[m].cells[c].submodname
  /\ \A n \in Names : s.table[n] # 0 => t.table[n] # 0
  /\ s.missing \subseteq t.missing
-----------------------------------------------------------------------------
(* A set of numbers with a bound has a greatest, and Max finds it.         *)
LEMMA Greatest ==
  ASSUME NEW n \in Nat, NEW S, S \subseteq 1 .. n, S # {}
  PROVE  Max(S) \in S
<1> DEFINE T == {n - i : i \in S}
<1>1. \A i \in S : i \in Nat /\ n - i \in Nat
  OBVIOUS
<1>2. T \subseteq Nat /\ T # {}
  BY <1>1
<1>3. PICK x \in T : \A y \in T : x <= y
  BY <1>2, Least
<1>4. PICK g \in S : x = n - g
  OBVIOUS
<1>5. \A i \in S : n - g <= n - i /\ i \in Nat
  <2> TAKE i \in S
  <2>1. n - i \in T
    OBVIOUS
  <2>2. x <= n - i
    BY <1>3, <2>1
  <2> QED
    BY <1>1, <1>4, <2>2
<1>6. g \in Nat
  BY <1>1
<1>7. \A i \in S : g >= i
  BY <1>5, <1>6
<1> QED
  BY <1>7 DEF Max

-----------------------------------------------------------------------------
(* The parts of linking a cell.                                            *)

(* The modules changed, but not their names: what is good stays good.      *)
LEMMA ChangeMods ==
  ASSUME NEW s, Good(s), NEW ms \in Seq(ModuleType), Len(ms) = Len(s.mods),
         \A m \in 1 .. Len(ms) : ms[m].name = s.mods[m].name,
         \A m \in 1 .. Len(ms) : GoodModule(s.mods, ms[m])
  PROVE  Good([s EXCEPT !.mods = ms])
<1> DEFINE t == [s EXCEPT !.mods = ms]
<1>1. s \in NetType /\ t.mods = ms /\ t.table = s.table /\ t.need = s.need
  BY DEF Good, NetType
<1>2. t \in NetType
  BY <1>1 DEF NetType
<1> HIDE DEF t
<1>3. ASSUME NEW m \in 1 .. Len(ms)
      PROVE  GoodModule(ms, ms[m])
  BY DEF GoodModule
<1>4. \A n \in Names : t.table[n] # 0 =>
       t.table[n] \in 1 .. Len(t.mods) /\ t.mods[t.table[n]].name = n
  BY <1>1 DEF Good
<1>5. \A i \in 1 .. Len(t.need) : t.need[i] \in 1 .. Len(t.mods)
  BY <1>1 DEF Good
<1>6. Good(t)
  BY <1>1, <1>2, <1>3, <1>4, <1>5 DEF Good
<1> QED
  BY <1>6 DEF t

(* The modules that a file creates.                                        *)
NewModules(defs, is_libcell) == [i \in DOMAIN defs |-> new_module(defs[i], is_libcell)]

(* They are as good as their definitions: no cell is linked, none counted. *)
LEMMA NewModulesGood ==
  ASSUME NEW defs \in Seq(Definition), NEW is_libcell \in BOOLEAN, NEW mods_
  PROVE  LET new == NewModules(defs, is_libcell)
         IN  /\ new \in Seq(ModuleType) /\ Len(new) = Len(defs)
             /\ \A i \in 1 .. Len(defs) :
                  new[i].name = defs[i].name /\ GoodModule(mods_, new[i])
<1> DEFINE new == NewModules(defs, is_libcell)
<1>1. /\ new = [i \in 1 .. Len(defs) |-> new[i]]
      /\ DOMAIN new = 1 .. Len(defs) /\ Len(defs) \in Nat
  BY DEF NewModules
<1>2. ASSUME NEW i \in 1 .. Len(defs)
      PROVE  /\ new[i] \in ModuleType /\ new[i].name = defs[i].name
             /\ GoodModule(mods_, new[i])
  <2> DEFINE mod == new_module(defs[i], is_libcell)
             def == defs[i]
  <2>1. new[i] = mod
    BY DEF NewModules
  <2>2. def \in Definition
    OBVIOUS
  <2>3. def.name \in Names /\ def.port \in BOOLEAN /\ def.cells \in Seq(Names)
    BY <2>2 DEF Definition
  <2>4. /\ mod.name = def.name /\ mod.used = 0
        /\ mod.cells = [c \in 1 .. Len(def.cells) |-> Cell(def.cells[c])]
    BY <2>3 DEF new_module
  <2>5. \A c \in 1 .. Len(def.cells) :
          /\ Cell(def.cells[c]) \in CellType
          /\ Cell(def.cells[c]).submod = 0 /\ Cell(def.cells[c]).port = FALSE
    BY <2>3 DEF Cell, CellType
  <2>6. Len(def.cells) \in Nat
    BY <2>3
  <2>7. mod.cells \in Seq(CellType) /\ Len(mod.cells) = Len(def.cells)
    <3> HIDE DEF def, mod
    <3>1. mod.cells \in [1 .. Len(def.cells) -> CellType]
      BY <2>4, <2>5
    <3> QED
      BY <2>4, <2>6, <3>1, SeqDef
  <2>8. mod \in ModuleType
    <3>1. DOMAIN def.cells = 1 .. Len(def.cells)
      BY <2>3
    <3> QED
      BY <2>3, <2>7 DEF new_module, ModuleType
  <2>9. Ports(mod.cells) = {}
    BY <2>4, <2>5, <2>7 DEF Ports
  <2>10. GoodModule(mods_, mod)
    <3> HIDE DEF mod
    <3>1. mod.used = Cardinality(Ports(mod.cells))
      BY <2>4, <2>9, FS_EmptySet
    <3>2. \A c \in 1 .. Len(mod.cells) : mod.cells[c].submod = 0
      BY <2>4, <2>5, <2>7
    <3> QED
      BY <3>1, <3>2 DEF GoodModule
  <2> QED
    BY <2>1, <2>3, <2>4, <2>8, <2>10
<1> HIDE DEF new
<1>3. new \in [1 .. Len(defs) -> ModuleType]
  BY <1>1, <1>2
<1>4. new \in Seq(ModuleType) /\ Len(new) = Len(defs)
  BY <1>1, <1>3, SeqDef
<1> QED
  BY <1>2, <1>4 DEF new

(* Reading a file leaves the modules that there are, and adds its own.     *)
LEMMA ReadGood ==
  ASSUME NEW s, Good(s), NEW file, disk[file] \in Seq(Definition),
         NEW is_libcell \in BOOLEAN
  PROVE  LET t == read_file(s, file, is_libcell)
         IN  /\ Good(t) /\ Grows(s, t) /\ t.missing = s.missing
             /\ \A m \in 1 .. Len(s.mods) : t.mods[m] = s.mods[m]
<1> DEFINE defs == disk[file]
           new  == NewModules(defs, is_libcell)
           refs == [i \in DOMAIN defs |-> NewRef(s, i)]
           by(name) == Defining(defs, name)
           tab  == [n \in Names |-> IF by(n) = {} THEN s.table[n] ELSE NewRef(s, Max(by(n)))]
           gone == s.replaced \cup {n \in Names : by(n) # {} /\
                                      (s.table[n] # 0 \/ Cardinality(by(n)) > 1)}
           ms   == s.mods \o new
           nd   == s.need \o refs
           t    == read_file(s, file, is_libcell)
<1>1. /\ s \in NetType /\ s.mods \in Seq(ModuleType) /\ s.table \in [Names -> Nat]
      /\ s.need \in Seq(Nat) /\ s.missing \subseteq Names /\ s.libsDone \in BOOLEAN
      /\ s.replaced \subseteq Names
  BY DEF Good, NetType
<1>2. t = [s EXCEPT !.mods = ms, !.table = tab, !.need = nd, !.replaced = gone]
  BY <1>1 DEF read_file, NewModules, NetType
<1>3. Len(s.mods) \in Nat /\ Len(defs) \in Nat /\ DOMAIN defs = 1 .. Len(defs)
  BY <1>1
<1>4. /\ new \in Seq(ModuleType) /\ Len(new) = Len(defs)
      /\ \A i \in 1 .. Len(defs) :
           new[i].name = defs[i].name /\ GoodModule(ms, new[i])
  BY NewModulesGood
<1>5. refs \in Seq(Nat) /\ Len(refs) = Len(defs)
  <2>1. refs \in [1 .. Len(defs) -> Nat]
    BY <1>3 DEF NewRef
  <2> HIDE DEF refs
  <2> QED
    BY <1>3, <2>1, SeqDef
<1>6. \A i \in 1 .. Len(refs) : refs[i] = Len(s.mods) + i
  BY <1>3, <1>5 DEF NewRef
<1>7. ASSUME NEW n \in Names
      PROVE  \/ tab[n] = s.table[n] /\ by(n) = {}
             \/ \E i \in 1 .. Len(defs) : defs[i].name = n /\ tab[n] = Len(s.mods) + i
  <2>1. CASE by(n) = {}
    BY <2>1
  <2>2. CASE by(n) # {}
    <3>1. by(n) \subseteq 1 .. Len(defs)
      BY <1>3 DEF Defining
    <3>2. Max(by(n)) \in by(n)
      BY <1>3, <2>2, <3>1, Greatest
    <3>3. defs[Max(by(n))].name = n
      BY <3>2 DEF Defining
    <3> QED
      BY <2>2, <3>1, <3>2, <3>3 DEF NewRef
  <2> QED
    BY <2>1, <2>2
<1>8. gone \subseteq Names
  BY <1>1
<1> HIDE DEF refs, new, gone, defs
<1>9. /\ ms \in Seq(ModuleType) /\ Len(ms) = Len(s.mods) + Len(defs)
      /\ \A m \in 1 .. Len(s.mods) : m \in 1 .. Len(ms) /\ ms[m] = s.mods[m]
      /\ \A i \in 1 .. Len(defs) :
           Len(s.mods) + i \in 1 .. Len(ms) /\ ms[Len(s.mods) + i] = new[i]
      /\ \A m \in 1 .. Len(ms) :
           m \in 1 .. Len(s.mods) \/ \E i \in 1 .. Len(defs) : m = Len(s.mods) + i
  <2>1. s.mods \in Seq(ModuleType) /\ new \in Seq(ModuleType)
    BY <1>1, <1>4
  <2>2. ms \in Seq(ModuleType) /\ Joining(ms, s.mods, new)
    BY <2>1, Joined
  <2> QED
    BY <1>4, <2>2 DEF Joining
<1>10. /\ nd \in Seq(Nat)
       /\ \A i \in 1 .. Len(s.need) : nd[i] = s.need[i]
       /\ \A i \in 1 .. Len(defs) : nd[Len(s.need) + i] = refs[i]
       /\ \A m \in 1 .. Len(nd) :
            m \in 1 .. Len(s.need) \/ \E i \in 1 .. Len(defs) : m = Len(s.need) + i
  <2>1. s.need \in Seq(Nat) /\ refs \in Seq(Nat)
    BY <1>1, <1>5
  <2>2. nd \in Seq(Nat) /\ Joining(nd, s.need, refs)
    BY <2>1, Joined
  <2> QED
    BY <1>5, <2>2 DEF Joining
<1>11. \A i \in 1 .. Len(defs) :
           Len(s.mods) + i \in 1 .. Len(ms) /\ ms[Len(s.mods) + i] = new[i]
  BY <1>9
<1> HIDE DEF tab, ms, nd
<1>12. tab \in [Names -> Nat]
  <2>1. \A n \in Names : tab[n] \in Nat
    <3> TAKE n \in Names
    <3>1. s.table[n] \in Nat
      BY <1>1
    <3>2. \A i \in 1 .. Len(defs) : Len(s.mods) + i \in Nat
      BY <1>3
    <3> QED
      BY <1>7, <3>1, <3>2
  <2>2. tab = [n \in Names |-> tab[n]]
    BY DEF tab
  <2> QED
    BY <2>1, <2>2
<1>13. ASSUME NEW i \in 1 .. Len(nd)
       PROVE  nd[i] \in 1 .. Len(ms)
  <2>1. CASE i \in 1 .. Len(s.need)
    <3>1. s.need[i] \in 1 .. Len(s.mods)
      BY <2>1 DEF Good
    <3> QED
      BY <1>9, <1>10, <2>1, <3>1
  <2>2. CASE \E j \in 1 .. Len(defs) : i = Len(s.need) + j
    <3>1. PICK j \in 1 .. Len(defs) : i = Len(s.need) + j
      BY <2>2
    <3>2. nd[i] = Len(s.mods) + j
      BY <1>5, <1>6, <1>10, <3>1
    <3> QED
      BY <1>9, <3>2
  <2> QED
    BY <1>10, <2>1, <2>2
<1>14. /\ t.mods = ms /\ t.table = tab /\ t.need = nd /\ t.missing = s.missing
       /\ t \in NetType
  <2>1. ms \in Seq(ModuleType) /\ nd \in Seq(Nat)
    BY <1>9, <1>10
  <2> QED
    BY <1>1, <1>2, <1>12, <1>8, <2>1 DEF NetType
<1> HIDE DEF t
<1>15. ASSUME NEW m \in 1 .. Len(ms)
       PROVE  GoodModule(ms, ms[m])
  <2>1. CASE m \in 1 .. Len(s.mods)
    <3>1. GoodModule(s.mods, ms[m])
      BY <1>9, <2>1 DEF Good
    <3> QED
      BY <1>9, <3>1 DEF GoodModule
  <2>2. CASE \E i \in 1 .. Len(defs) : m = Len(s.mods) + i
    <3>1. PICK i \in 1 .. Len(defs) : m = Len(s.mods) + i
      BY <2>2
    <3>2. ms[m] = new[i]
      BY <3>1, <1>11
    <3>3. GoodModule(ms, new[i])
      BY <1>4
    <3> QED
      BY <3>2, <3>3
  <2> QED
    BY <1>9, <2>1, <2>2
<1>16. ASSUME NEW n \in Names, tab[n] # 0
       PROVE  tab[n] \in 1 .. Len(ms) /\ ms[tab[n]].name = n
  <2>1. CASE tab[n] = s.table[n]
    <3>1. s.table[n] \in 1 .. Len(s.mods) /\ s.mods[s.table[n]].name = n
      BY <1>16, <2>1 DEF Good
    <3> QED
      BY <1>9, <2>1, <3>1
  <2>2. CASE \E i \in 1 .. Len(defs) : defs[i].name = n /\ tab[n] = Len(s.mods) + i
    <3>1. PICK i \in 1 .. Len(defs) : defs[i].name = n /\ tab[n] = Len(s.mods) + i
      BY <2>2
    <3>2. ms[tab[n]] = new[i]
      BY <3>1, <1>11
    <3>3. new[i].name = n
      BY <1>4, <3>1
    <3> QED
      BY <3>1, <3>2, <3>3, <1>11
  <2> QED
    BY <1>7, <2>1, <2>2
<1>17. Good(t)
  BY <1>13, <1>14, <1>15, <1>16 DEF Good
<1>18. \A n \in Names : s.table[n] # 0 => tab[n] # 0
  BY <1>3, <1>7
<1>19. Grows(s, t)
  BY <1>3, <1>9, <1>14, <1>18 DEF Grows
<1> QED
  BY <1>9, <1>14, <1>17, <1>19 DEF t

(* Growing twice is growing. *)
LEMMA GrowsOn ==
  ASSUME NEW s, NEW t, NEW u, Grows(s, t), Grows(t, u), Good(s), Good(t), Good(u)
  PROVE  Grows(s, u)
<1>1. /\ Len(s.mods) \in Nat /\ Len(t.mods) \in Nat /\ Len(u.mods) \in Nat
      /\ Len(s.mods) <= Len(t.mods) /\ Len(t.mods) <= Len(u.mods)
  BY DEF Grows, Good, NetType
<1>2. ASSUME NEW m \in 1 .. Len(s.mods)
      PROVE  /\ u.mods[m].name = s.mods[m].name
             /\ Len(u.mods[m].cells) = Len(s.mods[m].cells)
             /\ \A c \in 1 .. Len(s.mods[m].cells) :
                  u.mods[m].cells[c].submodname = s.mods[m].cells[c].submodname
  <2>1. m \in 1 .. Len(t.mods)
    BY <1>1
  <2> QED
    BY <2>1 DEF Grows
<1>3. /\ \A n \in Names : s.table[n] # 0 => u.table[n] # 0
      /\ s.missing \subseteq u.missing
  BY DEF Grows
<1> QED
  BY <1>1, <1>2, <1>3 DEF Grows

(* Reading the libraries does what reading a file does, or nothing.        *)
LEMMA LibrariesGood ==
  ASSUME NEW s, Good(s), disk[Library] \in Seq(Definition)
  PROVE  LET t == read_libraries(s)
         IN  /\ Good(t) /\ Grows(s, t) /\ t.missing = s.missing
             /\ \A m \in 1 .. Len(s.mods) : t.mods[m] = s.mods[m]
<1> DEFINE r == [s EXCEPT !.libsDone = TRUE]
<1>1. CASE s.libsDone
  <2>1. read_libraries(s) = s
    BY <1>1 DEF read_libraries
  <2>2. Grows(s, s)
    BY DEF Grows, Good, NetType
  <2> QED
    BY <2>1, <2>2
<1>2. CASE ~ s.libsDone
  <2>1. /\ r.mods = s.mods /\ r.table = s.table /\ r.need = s.need
        /\ r.missing = s.missing /\ r \in NetType
    BY DEF Good, NetType
  <2>2. read_libraries(s) = read_file(r, Library, TRUE)
    BY <1>2 DEF read_libraries
  <2> HIDE DEF r
  <2>3. Good(r)
    BY <2>1 DEF Good
  <2>4. LET t == read_file(r, Library, TRUE)
        IN  /\ Good(t) /\ Grows(r, t) /\ t.missing = r.missing
            /\ \A m \in 1 .. Len(r.mods) : t.mods[m] = r.mods[m]
    <3>1. TRUE \in BOOLEAN
      OBVIOUS
    <3> QED
      BY <2>3, <3>1, ReadGood
  <2>5. Grows(r, read_file(r, Library, TRUE)) => Grows(s, read_file(r, Library, TRUE))
    BY <2>1 DEF Grows
  <2> QED
    BY <2>1, <2>2, <2>4, <2>5
<1> QED
  BY <1>1, <1>2

(* A step that leaves the table alone. *)
Relinks(s, t) ==
  Good(t) /\ Grows(s, t) /\ t.table = s.table /\ t.missing = s.missing

(* A cell of a module changed, with the count of the module's net.         *)
SetCell(s, m, c, cell, used) ==
  [s EXCEPT !.mods = [s.mods EXCEPT ![m] =
    [s.mods[m] EXCEPT !.cells = [s.mods[m].cells EXCEPT ![c] = cell], !.used = used]]]
CanBe(s, m, c, cell, used) ==
  /\ cell \in CellType /\ cell.submodname = s.mods[m].cells[c].submodname
  /\ cell.submod # 0 => /\ cell.submod \in 1 .. Len(s.mods)
                         /\ s.mods[cell.submod].name = cell.submodname
  /\ used \in Nat
  /\ used = Cardinality(Ports([s.mods[m].cells EXCEPT ![c] = cell]))

(* The netlist stays good, and its table as it was.                        *)
LEMMA ChangeCell ==
  ASSUME NEW s, Good(s), NEW m \in 1 .. Len(s.mods),
         NEW c \in 1 .. Len(s.mods[m].cells), NEW cell, NEW used,
         CanBe(s, m, c, cell, used)
  PROVE  LET t == SetCell(s, m, c, cell, used)
         IN  Relinks(s, t) /\ t.mods[m].cells[c] = cell
<1> DEFINE old   == s.mods[m]
           cells == [old.cells EXCEPT ![c] = cell]
           mod   == [old EXCEPT !.cells = cells, !.used = used]
           ms    == [s.mods EXCEPT ![m] = mod]
           t     == [s EXCEPT !.mods = ms]
<1>1. /\ cell \in CellType /\ cell.submodname = old.cells[c].submodname
      /\ cell.submod # 0 => /\ cell.submod \in 1 .. Len(s.mods)
                             /\ s.mods[cell.submod].name = cell.submodname
      /\ used \in Nat /\ used = Cardinality(Ports(cells))
  BY DEF CanBe
<1>2. s \in NetType /\ s.mods \in Seq(ModuleType) /\ GoodModule(s.mods, old)
  BY DEF Good, NetType
<1>3. old \in ModuleType /\ old.cells \in Seq(CellType)
  <2>1. old \in ModuleType
    BY <1>2
  <2> QED
    BY <2>1 DEF ModuleType
<1>4. /\ cells \in Seq(CellType) /\ Len(cells) = Len(old.cells) /\ cells[c] = cell
      /\ \A d \in 1 .. Len(old.cells) : d # c => cells[d] = old.cells[d]
  BY <1>1, <1>3, OneChanged
<1> HIDE DEF cells
<1>5. /\ mod \in ModuleType /\ mod.cells = cells /\ mod.used = used
      /\ mod.name = old.name
  BY <1>1, <1>3, <1>4 DEF ModuleType
<1> HIDE DEF mod
<1>6. GoodModule(s.mods, mod)
  <2>1. used = Cardinality(Ports(cells))
    BY <1>1
  <2>2. \A d \in 1 .. Len(cells) :
          cells[d].submod # 0 => /\ cells[d].submod \in 1 .. Len(s.mods)
                                 /\ s.mods[cells[d].submod].name = cells[d].submodname
    BY <1>1, <1>2, <1>4 DEF GoodModule
  <2> QED
    BY <1>5, <2>1, <2>2 DEF GoodModule
<1>7. /\ ms \in Seq(ModuleType) /\ Len(ms) = Len(s.mods) /\ ms[m] = mod
      /\ \A k \in 1 .. Len(s.mods) : k # m => ms[k] = s.mods[k]
  BY <1>2, <1>5, OneChanged
<1> HIDE DEF ms
<1>8. \A k \in 1 .. Len(ms) : ms[k].name = s.mods[k].name
  BY <1>5, <1>7
<1>9. \A k \in 1 .. Len(ms) : GoodModule(s.mods, ms[k])
  BY <1>6, <1>7 DEF Good
<1>10. Good(t)
  BY <1>7, <1>8, <1>9, ChangeMods
<1>11. t.mods = ms /\ t.table = s.table /\ t.missing = s.missing
  BY <1>2 DEF NetType
<1> HIDE DEF t
<1>12. ASSUME NEW k \in 1 .. Len(s.mods)
       PROVE  /\ ms[k].name = s.mods[k].name
              /\ Len(ms[k].cells) = Len(s.mods[k].cells)
              /\ \A d \in 1 .. Len(s.mods[k].cells) :
                   ms[k].cells[d].submodname = s.mods[k].cells[d].submodname
  BY <1>1, <1>4, <1>5, <1>7
<1>13. Len(s.mods) \in Nat
  BY <1>2
<1>14. Grows(s, t)
  BY <1>7, <1>11, <1>12, <1>13 DEF Grows
<1>15. t.mods[m].cells[c] = cell
  BY <1>4, <1>5, <1>7, <1>11
<1> QED
  BY <1>10, <1>11, <1>14, <1>15 DEF t, ms, mod, cells, SetCell, Relinks

(* A module taken off the top. *)
LEMMA ChangeTop ==
  ASSUME NEW s, Good(s), NEW k \in 1 .. Len(s.mods)
  PROVE  LET t == [s EXCEPT !.mods = [s.mods EXCEPT ![k] = [s.mods[k] EXCEPT !.top = FALSE]]]
         IN  /\ Relinks(s, t)
             /\ \A m \in 1 .. Len(s.mods) : t.mods[m].cells = s.mods[m].cells
<1> DEFINE mod == [s.mods[k] EXCEPT !.top = FALSE]
           ms  == [s.mods EXCEPT ![k] = mod]
           t   == [s EXCEPT !.mods = ms]
<1>1. s \in NetType /\ s.mods \in Seq(ModuleType) /\ GoodModule(s.mods, s.mods[k])
  BY DEF Good, NetType
<1>2. /\ mod \in ModuleType /\ mod.cells = s.mods[k].cells /\ mod.used = s.mods[k].used
      /\ mod.name = s.mods[k].name
  <2>1. s.mods[k] \in ModuleType
    BY <1>1
  <2> QED
    BY <2>1 DEF ModuleType
<1> HIDE DEF mod
<1>3. GoodModule(s.mods, mod)
  BY <1>1, <1>2 DEF GoodModule
<1>4. /\ ms \in Seq(ModuleType) /\ Len(ms) = Len(s.mods) /\ ms[k] = mod
      /\ \A m \in 1 .. Len(s.mods) : m # k => ms[m] = s.mods[m]
  BY <1>1, <1>2, OneChanged
<1> HIDE DEF ms
<1>5. \A m \in 1 .. Len(ms) : ms[m].name = s.mods[m].name /\ ms[m].cells = s.mods[m].cells
  BY <1>2, <1>4
<1>6. \A m \in 1 .. Len(ms) : GoodModule(s.mods, ms[m])
  BY <1>3, <1>4 DEF Good
<1>7. Good(t)
  BY <1>4, <1>5, <1>6, ChangeMods
<1>8. t.mods = ms /\ t.table = s.table /\ t.missing = s.missing
  BY <1>1 DEF NetType
<1>9. Len(s.mods) \in Nat
  BY <1>1
<1> HIDE DEF t
<1>10. Grows(s, t)
  BY <1>4, <1>5, <1>8, <1>9 DEF Grows
<1> QED
  BY <1>4, <1>5, <1>7, <1>8, <1>10 DEF t, ms, mod, Relinks

(* What a cell of a good netlist is. *)
LEMMA CellGood ==
  ASSUME NEW s, Good(s), NEW m \in 1 .. Len(s.mods), NEW c \in 1 .. Len(s.mods[m].cells)
  PROVE  LET mod == s.mods[m]   cell == s.mods[m].cells[c]
         IN  /\ mod \in ModuleType /\ mod.cells \in Seq(CellType) /\ cell \in CellType
             /\ mod.used = Cardinality(Ports(mod.cells))
             /\ cell.submod # 0 => /\ cell.submod \in 1 .. Len(s.mods)
                                   /\ s.mods[cell.submod].name = cell.submodname
<1>1. s.mods \in Seq(ModuleType) /\ GoodModule(s.mods, s.mods[m])
  BY DEF Good, NetType
<1>2. s.mods[m] \in ModuleType
  BY <1>1
<1>3. s.mods[m].cells \in Seq(CellType)
  BY <1>2 DEF ModuleType
<1>4. s.mods[m].cells[c] \in CellType
  BY <1>3
<1> QED
  BY <1>1, <1>2, <1>3, <1>4 DEF GoodModule

(* Linking a cell to the module that the table has under its name.         *)
LEMMA GutsGood ==
  ASSUME NEW s, Good(s), NEW m \in 1 .. Len(s.mods), NEW c \in 1 .. Len(s.mods[m].cells)
  PROVE  LET t == _link_guts(s, m, c)
             name == s.mods[m].cells[c].submodname
         IN  /\ Relinks(s, t)
             /\ IsLinked(t, m, c) <=> (IsLinked(s, m, c) \/ s.table[name] # 0)
<1> DEFINE old  == s.mods[m]
           cell == old.cells[c]
           sm   == s.table[cell.submodname]
           new  == [cell EXCEPT !.submod = sm]
           t    == _link_guts(s, m, c)
<1>1. /\ old \in ModuleType /\ old.cells \in Seq(CellType) /\ cell \in CellType
      /\ old.used = Cardinality(Ports(old.cells))
      /\ s \in NetType /\ s.mods \in Seq(ModuleType)
  BY CellGood DEF Good, NetType
<1>2. CASE IsLinked(s, m, c) \/ sm = 0
  <2>1. t = s
    BY <1>2 DEF _link_guts
  <2>2. Grows(s, s)
    BY DEF Grows, Good, NetType
  <2> HIDE DEF t
  <2> QED
    BY <1>2, <2>1, <2>2 DEF t, Relinks
<1>3. CASE ~ (IsLinked(s, m, c) \/ sm = 0)
  <2> DEFINE cells == [old.cells EXCEPT ![c] = new]
             mod   == [old EXCEPT !.cells = cells, !.used = old.used]
             t1    == SetCell(s, m, c, new, old.used)
             t2    == [t1 EXCEPT !.mods = [t1.mods EXCEPT ![sm] =
                                             [t1.mods[sm] EXCEPT !.top = FALSE]]]
  <2>1. cell.submodname \in Names /\ sm \in 1 .. Len(s.mods) /\ s.mods[sm].name = cell.submodname
    BY <1>1, <1>3 DEF CellType, Good
  <2>2. new \in CellType /\ new.submodname = cell.submodname /\ new.submod = sm
    <3>1. sm \in Nat
      BY <2>1
    <3> HIDE DEF sm
    <3> QED
      BY <1>1, <3>1 DEF CellType
  <2>3. new.port <=> cell.port
    BY <1>1 DEF CellType
  <2>4. t = [s EXCEPT !.mods[m].cells[c].submod = sm, !.mods[sm].top = FALSE]
    BY <1>3 DEF _link_guts
  <2>5. mod = [old EXCEPT !.cells = cells]
    BY <1>1 DEF ModuleType
  <2>6. t = t2
    <3>1. t1 = [s EXCEPT !.mods = [s.mods EXCEPT ![m] = mod]]
      BY DEF SetCell
    <3> QED
      BY <1>1, <2>4, <2>5, <3>1 DEF NetType
  <2>7. Ports(cells) = Ports(old.cells)
    <3>1. /\ Len(cells) = Len(old.cells) /\ cells[c] = new
          /\ \A d \in 1 .. Len(old.cells) : d # c => cells[d] = old.cells[d]
      BY <1>1, <2>2, OneChanged
    <3> HIDE DEF cells
    <3> QED
      BY <2>3, <3>1 DEF Ports
  <2>8. CanBe(s, m, c, new, old.used)
    <3>1. old.used \in Nat /\ old.used = Cardinality(Ports(cells))
      BY <1>1, <2>7 DEF ModuleType
    <3>2. new.submod # 0 => /\ new.submod \in 1 .. Len(s.mods)
                            /\ s.mods[new.submod].name = new.submodname
      BY <2>1, <2>2
    <3> HIDE DEF new
    <3> QED
      BY <2>2, <3>1, <3>2 DEF CanBe
  <2> HIDE DEF new
  <2>9. Relinks(s, t1) /\ t1.mods[m].cells[c] = new
    BY <2>8, ChangeCell
  <2> HIDE DEF t1
  <2>10. Len(s.mods) <= Len(t1.mods) /\ Len(s.mods) \in Nat /\ Len(t1.mods) \in Nat
    BY <1>1, <2>9 DEF Relinks, Grows, Good, NetType
  <2>11. sm \in 1 .. Len(t1.mods) /\ m \in 1 .. Len(t1.mods)
    BY <2>1, <2>10
  <2>12. /\ Relinks(t1, t2)
         /\ \A k \in 1 .. Len(t1.mods) : t2.mods[k].cells = t1.mods[k].cells
    <3>1. Good(t1)
      BY <2>9 DEF Relinks
    <3> QED
      BY <2>11, <3>1, ChangeTop
  <2> HIDE DEF t2
  <2>13. Relinks(s, t2)
    BY <2>9, <2>12, GrowsOn DEF Relinks
  <2>14. t2.mods[m].cells[c].submod # 0
    BY <1>3, <2>2, <2>9, <2>11, <2>12
  <2> HIDE DEF t
  <2> QED
    BY <1>3, <2>6, <2>13, <2>14 DEF t, IsLinked
<1> QED
  BY <1>2, <1>3

(* Linking the pin of a cell: the count goes up with the linked pins.      *)
LEMMA PinGood ==
  ASSUME NEW s, Good(s), NEW m \in 1 .. Len(s.mods), NEW c \in 1 .. Len(s.mods[m].cells)
  PROVE  Relinks(s, PinLink(s, m, c))
<1> DEFINE old  == s.mods[m]
           cell == old.cells[c]
           new  == [cell EXCEPT !.port = TRUE]
           cells == [old.cells EXCEPT ![c] = new]
           used == old.used + 1
           mod  == [old EXCEPT !.cells = cells, !.used = used]
           t1   == SetCell(s, m, c, new, used)
           t    == PinLink(s, m, c)
<1>1. /\ old \in ModuleType /\ old.cells \in Seq(CellType) /\ cell \in CellType
      /\ old.used = Cardinality(Ports(old.cells))
      /\ cell.submod # 0 => /\ cell.submod \in 1 .. Len(s.mods)
                            /\ s.mods[cell.submod].name = cell.submodname
  BY CellGood
<1>2. s \in NetType /\ s.mods \in Seq(ModuleType)
  BY DEF Good, NetType
<1>3. CASE cell.port \/ cell.submod = 0 \/ ~ s.mods[cell.submod].port
  <2>1. t = s
    BY <1>3 DEF PinLink
  <2>2. Grows(s, s)
    BY DEF Grows, Good, NetType
  <2> HIDE DEF t
  <2> QED
    BY <2>1, <2>2 DEF t, Relinks
<1>4. CASE ~ (cell.port \/ cell.submod = 0 \/ ~ s.mods[cell.submod].port)
  <2>1. t = [s EXCEPT !.mods = [s.mods EXCEPT ![m] = LinkPort(old, c)]]
    BY <1>4 DEF PinLink
  <2>2. t = t1
    <3>1. LinkPort(old, c) = mod
      BY <1>1 DEF ModuleType, LinkPort
    <3> QED
      BY <2>1, <3>1 DEF SetCell
  <2>3. /\ new \in CellType /\ new.submodname = cell.submodname
        /\ new.submod = cell.submod
    BY <1>1 DEF CellType
  <2>4. new.port = TRUE
    BY <1>1 DEF CellType
  <2> HIDE DEF new
  <2>5. /\ Len(cells) = Len(old.cells) /\ cells[c] = new
        /\ \A d \in 1 .. Len(old.cells) : d # c => cells[d] = old.cells[d]
    BY <1>1, <2>3, OneChanged
  <2>6. Ports(cells) = Ports(old.cells) \cup {c}
    <3> HIDE DEF cells
    <3> QED
      BY <2>4, <2>5 DEF Ports
  <2>7. c \notin Ports(old.cells)
    BY <1>4 DEF Ports
  <2>8. IsFiniteSet(Ports(old.cells))
    <3>1. IsFiniteSet(1 .. Len(old.cells))
      <4>1. 1 \in Int /\ Len(old.cells) \in Int
        BY <1>1
      <4> QED
        BY <4>1, FS_Interval
    <3>2. Ports(old.cells) \subseteq 1 .. Len(old.cells)
      BY DEF Ports
    <3> QED
      BY <3>1, <3>2, FS_Subset
  <2>9. Cardinality(Ports(cells)) = Cardinality(Ports(old.cells)) + 1
    BY <2>6, <2>7, <2>8, FS_AddElement
  <2>10. CanBe(s, m, c, new, used)
    <3>1. used \in Nat /\ used = Cardinality(Ports(cells))
      BY <1>1, <2>9 DEF ModuleType
    <3>2. new.submod # 0 => /\ new.submod \in 1 .. Len(s.mods)
                            /\ s.mods[new.submod].name = new.submodname
      BY <1>1, <2>3
    <3> HIDE DEF used
    <3> QED
      BY <2>3, <3>1, <3>2 DEF CanBe
  <2>11. Relinks(s, t1)
    BY <2>10, ChangeCell
  <2> HIDE DEF t1, t
  <2> QED
    BY <2>2, <2>11 DEF t
<1> QED
  BY <1>3, <1>4

(* Remembering a missing module changes nothing else. *)
LEMMA RememberGood ==
  ASSUME NEW s, Good(s), NEW name \in Names
  PROVE  LET t == Remember(s, name)
         IN  Good(t) /\ Grows(s, t) /\ name \in t.missing
<1> DEFINE t == Remember(s, name)
<1>1. s \in NetType /\ Len(s.mods) \in Nat
  BY DEF Good, NetType
<1>2. /\ t.mods = s.mods /\ t.table = s.table /\ t.need = s.need
      /\ t.missing = s.missing \cup {name} /\ t \in NetType
  BY <1>1 DEF Remember, NetType
<1> HIDE DEF t
<1>3. Good(t)
  BY <1>2 DEF Good
<1>4. Grows(s, t)
  BY <1>1, <1>2 DEF Grows
<1> QED
  BY <1>2, <1>3, <1>4 DEF t

(* A cell is still there when the netlist grew. *)
LEMMA StillThere ==
  ASSUME NEW s, NEW t, Good(s), Good(t), Grows(s, t),
         NEW m \in 1 .. Len(s.mods), NEW c \in 1 .. Len(s.mods[m].cells)
  PROVE  /\ m \in 1 .. Len(t.mods) /\ c \in 1 .. Len(t.mods[m].cells)
         /\ t.mods[m].cells[c].submodname = s.mods[m].cells[c].submodname
<1>1. /\ Len(s.mods) \in Nat /\ Len(t.mods) \in Nat /\ Len(s.mods) <= Len(t.mods)
  BY DEF Good, NetType, Grows
<1>2. m \in 1 .. Len(t.mods)
  BY <1>1
<1>3. /\ Len(t.mods[m].cells) = Len(s.mods[m].cells)
      /\ t.mods[m].cells[c].submodname = s.mods[m].cells[c].submodname
  BY DEF Grows
<1> QED
  BY <1>2, <1>3

(* All that Cell::_link tries: afterwards the name is in the table, or it  *)
(* is remembered as missing.                                               *)
DiskGood == \A file \in Names \cup {Library} : disk[file] \in Seq(Definition)

(* Reading for a cell, and linking it, keeps the netlist good.             *)
LEMMA LinkReadGood ==
  ASSUME DiskGood, NEW s, Good(s), NEW m \in 1 .. Len(s.mods),
         NEW c \in 1 .. Len(s.mods[m].cells), ~ IsLinked(s, m, c)
  PROVE  LET t == LinkRead(s, m, c)
             name == s.mods[m].cells[c].submodname
         IN  Good(t) /\ Grows(s, t) /\ (t.table[name] # 0 \/ name \in t.missing)
<1> DEFINE name    == s.mods[m].cells[c].submodname
           read    == read_file(s, name, FALSE)
           direct  == _link_guts(read, m, c)
           libs    == read_libraries(direct)
           library == IF IsLinked(direct, m, c) THEN direct ELSE _link_guts(libs, m, c)
           again   == read_file(library, name, FALSE)
           t       == LinkRead(s, m, c)
<1>1. name \in Names
  BY CellGood DEF CellType
<1>2. disk[name] \in Seq(Definition) /\ disk[Library] \in Seq(Definition)
  BY <1>1 DEF DiskGood
<1>3. t = IF IsLinked(library, m, c) THEN library ELSE Remember(again, name)
  BY DEF LinkRead
<1> HIDE DEF name, t
<1>4. Good(read) /\ Grows(s, read) /\ read.mods[m] = s.mods[m]
  <2>1. FALSE \in BOOLEAN
    OBVIOUS
  <2> QED
    BY <1>2, <2>1, ReadGood
<1> HIDE DEF read
<1>5. /\ m \in 1 .. Len(read.mods) /\ c \in 1 .. Len(read.mods[m].cells)
      /\ read.mods[m].cells[c].submodname = name
  BY <1>4, StillThere DEF name
<1>6. ~ IsLinked(read, m, c)
  BY <1>4 DEF IsLinked
<1>7. /\ Relinks(read, direct)
      /\ IsLinked(direct, m, c) => read.table[name] # 0
  BY <1>4, <1>5, <1>6, GutsGood
<1> HIDE DEF direct
<1>8. /\ Good(direct) /\ Grows(s, direct)
      /\ IsLinked(direct, m, c) => direct.table[name] # 0
  BY <1>4, <1>7, GrowsOn DEF Relinks
<1>9. /\ Good(libs) /\ Grows(direct, libs)
      /\ \A k \in 1 .. Len(direct.mods) : libs.mods[k] = direct.mods[k]
  BY <1>2, <1>8, LibrariesGood
<1> HIDE DEF libs
<1>10. Grows(s, libs)
  BY <1>8, <1>9, GrowsOn
<1>11. /\ m \in 1 .. Len(libs.mods) /\ c \in 1 .. Len(libs.mods[m].cells)
       /\ libs.mods[m].cells[c].submodname = name
  BY <1>9, <1>10, StillThere DEF name
<1>12. m \in 1 .. Len(direct.mods)
  BY <1>8, StillThere
<1>13. /\ Good(library) /\ Grows(s, library)
       /\ IsLinked(library, m, c) => library.table[name] # 0
  <2>1. CASE IsLinked(direct, m, c)
    BY <1>8, <2>1
  <2>2. CASE ~ IsLinked(direct, m, c)
    <3> DEFINE guts == _link_guts(libs, m, c)
    <3>1. library = guts
      BY <2>2
    <3>2. ~ IsLinked(libs, m, c)
      BY <1>9, <1>12, <2>2 DEF IsLinked
    <3>3. /\ Relinks(libs, guts)
          /\ IsLinked(guts, m, c) => libs.table[name] # 0
      BY <1>9, <1>11, <3>2, GutsGood
    <3> HIDE DEF guts
    <3>4. /\ Good(guts) /\ Grows(s, guts)
          /\ IsLinked(guts, m, c) => guts.table[name] # 0
      BY <1>9, <1>10, <3>3, GrowsOn DEF Relinks
    <3> HIDE DEF library
    <3> QED
      BY <3>1, <3>4
  <2> QED
    BY <2>1, <2>2
<1> HIDE DEF library
<1>14. Good(again) /\ Grows(library, again)
  <2>1. FALSE \in BOOLEAN
    OBVIOUS
  <2> QED
    BY <1>2, <1>13, <2>1, ReadGood
<1> HIDE DEF again
<1>15. Grows(s, again)
  BY <1>13, <1>14, GrowsOn
<1>16. LET r == Remember(again, name)
       IN  Good(r) /\ Grows(again, r) /\ name \in r.missing
  BY <1>1, <1>14, RememberGood
<1>17. Grows(s, Remember(again, name))
  BY <1>14, <1>15, <1>16, GrowsOn
<1>18. Good(t) /\ Grows(s, t) /\ (t.table[name] # 0 \/ name \in t.missing)
  BY <1>3, <1>13, <1>16, <1>17
<1> QED
  BY <1>18 DEF t, name

-----------------------------------------------------------------------------
(* The invariant: besides the netlist, where link() is, and that a name    *)
(* for which files were read is in the table now or remembered as missing. *)
CursorGood ==
  /\ todo \subseteq 1 .. Len(mods) /\ at \in 0 .. Len(mods)
  /\ at # 0 => left \subseteq 1 .. Len(mods[at].cells)
  /\ phase = "out" => at = 0
TriesGood ==
  /\ tried \in [Names -> Nat]
  /\ \A n \in Names : tried[n] <= 1 /\ (tried[n] = 1 => table[n] # 0 \/ n \in missing)
NetInv == disk \in Disks /\ Good(self) /\ CursorGood /\ TriesGood

(* The netlist as one value, and its parts. *)
LEMMA Fields ==
  /\ self.mods = mods /\ self.table = table /\ self.need = need
  /\ self.missing = missing /\ self.libsDone = libsDone /\ self.replaced = replaced
BY DEF self

(* The same after a step. *)
LEMMA FieldsNext ==
  /\ self'.mods = mods' /\ self'.table = table' /\ self'.need = need'
  /\ self'.missing = missing' /\ self'.libsDone = libsDone' /\ self'.replaced = replaced'
BY DEF self

(* What the netlist becomes. *)
LEMMA BecomesThat ==
  ASSUME NEW s \in NetType, Becomes(s)
  PROVE  self' = s
BY DEF Becomes, self, NetType

(* Every file of a disk is a sequence of definitions. *)
LEMMA DisksGood ==
  ASSUME disk \in Disks
  PROVE  DiskGood
BY NetAssumption DEF DiskGood

(* The invariant holds at the start. *)
LEMMA InitGood == NetInit => NetInv
<1> SUFFICES ASSUME NetInit PROVE NetInv
  OBVIOUS
<1>1. /\ mods = <<>> /\ need = <<>> /\ Len(mods) = 0 /\ Len(need) = 0
      /\ table = [n \in Names |-> 0] /\ missing = {} /\ libsDone = FALSE /\ replaced = {}
  BY DEF NetInit
<1>2. self \in NetType
  <2>1. mods \in Seq(ModuleType) /\ need \in Seq(Nat) /\ table \in [Names -> Nat]
    BY <1>1
  <2>2. libsDone \in BOOLEAN /\ missing \in SUBSET Names /\ replaced \in SUBSET Names
    BY <1>1
  <2> QED
    BY <2>1, <2>2 DEF self, NetType
<1>3. Good(self)
  BY <1>1, <1>2, Fields DEF Good
<1>4. CursorGood
  BY <1>1 DEF NetInit, CursorGood
<1>5. TriesGood
  BY DEF NetInit, TriesGood
<1> QED
  BY <1>3, <1>4, <1>5 DEF NetInit, NetInv

(* What a step needs that lets the netlist grow and leaves the list, the   *)
(* pass and the cell it is at where they are.                              *)
LEMMA GrownCursor ==
  ASSUME NetInv, Good(self'), Grows(self, self'), UNCHANGED <<phase, todo, at>>,
         left' \subseteq left
  PROVE  CursorGood'
<1>1. /\ Len(mods) \in Nat /\ Len(mods') \in Nat /\ Len(mods) <= Len(mods')
  BY Fields, FieldsNext DEF NetInv, Good, NetType, Grows
<1>2. ASSUME at # 0
      PROVE  Len(mods'[at].cells) = Len(mods[at].cells)
  BY <1>1, <1>2, Fields, FieldsNext DEF NetInv, CursorGood, Grows
<1> QED
  BY <1>1, <1>2 DEF NetInv, CursorGood

(* Linking a cell. *)
LEMMA LinkCellGood == NetInv /\ LinkCell => NetInv'
<1> SUFFICES ASSUME NetInv, LinkCell PROVE NetInv'
  OBVIOUS
<1>1. PICK c \in left :
        LET found == _link_guts(self, at, c)
            name  == mods[at].cells[c].submodname
        IN  /\ at # 0
            /\ Becomes(PinLink(IF Reads(found, at, c) THEN LinkRead(found, at, c)
                               ELSE found, at, c))
            /\ tried' = IF Reads(found, at, c) THEN [tried EXCEPT ![name] = @ + 1] ELSE tried
            /\ left' = left \ {c}
            /\ UNCHANGED <<disk, phase, todo, at, linked>>
  BY DEF LinkCell
<1> DEFINE found == _link_guts(self, at, c)
           name  == mods[at].cells[c].submodname
           t     == IF Reads(found, at, c) THEN LinkRead(found, at, c) ELSE found
           u     == PinLink(t, at, c)
<1>2. at \in 1 .. Len(self.mods) /\ c \in 1 .. Len(self.mods[at].cells)
  BY <1>1, Fields DEF NetInv, CursorGood
<1>3. name \in Names /\ self.mods[at].cells[c].submodname = name
  <2>1. self.mods[at].cells[c] \in CellType
    BY <1>2, CellGood DEF NetInv
  <2> QED
    BY <2>1, Fields DEF CellType
<1>4. /\ Relinks(self, found)
      /\ IsLinked(found, at, c) <=> (IsLinked(self, at, c) \/ table[name] # 0)
  BY <1>2, <1>3, Fields, GutsGood DEF NetInv
<1>5. /\ Becomes(u) /\ left' \subseteq left /\ UNCHANGED <<disk, phase, todo, at>>
      /\ tried' = IF Reads(found, at, c) THEN [tried EXCEPT ![name] = @ + 1] ELSE tried
  BY <1>1
<1> HIDE DEF found, name
<1>6. Good(found) /\ Grows(self, found) /\ found.table = table /\ found.missing = missing
  BY <1>4, Fields DEF Relinks
<1>7. /\ at \in 1 .. Len(found.mods) /\ c \in 1 .. Len(found.mods[at].cells)
      /\ found.mods[at].cells[c].submodname = name
  BY <1>2, <1>3, <1>6, StillThere DEF NetInv
<1>8. /\ Good(t) /\ Grows(self, t)
      /\ Reads(found, at, c) => t.table[name] # 0 \/ name \in t.missing
  <2>1. CASE Reads(found, at, c)
    <3> DEFINE r == LinkRead(found, at, c)
    <3>1. ~ IsLinked(found, at, c) /\ DiskGood
      BY <2>1, DisksGood DEF Reads, NetInv
    <3>2. Good(r) /\ Grows(found, r) /\ (r.table[name] # 0 \/ name \in r.missing)
      BY <1>6, <1>7, <3>1, LinkReadGood
    <3>3. t = r
      BY <2>1
    <3> HIDE DEF r, t
    <3>4. Grows(self, r)
      BY <1>6, <3>2, GrowsOn DEF NetInv
    <3> QED
      BY <3>2, <3>3, <3>4
  <2>2. CASE ~ Reads(found, at, c)
    BY <1>6, <2>2
  <2> QED
    BY <2>1, <2>2
<1> HIDE DEF t
<1>9. at \in 1 .. Len(t.mods) /\ c \in 1 .. Len(t.mods[at].cells)
  BY <1>2, <1>8, StillThere DEF NetInv
<1>10. Relinks(t, u)
  BY <1>8, <1>9, PinGood
<1> HIDE DEF u
<1>11. /\ Good(u) /\ Grows(self, u)
       /\ Reads(found, at, c) => u.table[name] # 0 \/ name \in u.missing
  BY <1>8, <1>10, GrowsOn DEF Relinks, NetInv
<1>12. self' = u
  BY <1>5, <1>11, BecomesThat DEF Good
<1>13. CursorGood'
  BY <1>5, <1>11, <1>12, GrownCursor
<1>14. TriesGood'
  <2>1. \A n \in Names : table[n] # 0 \/ n \in missing => table'[n] # 0 \/ n \in missing'
    BY <1>11, <1>12, Fields, FieldsNext DEF Grows
  <2>2. CASE Reads(found, at, c)
    <3>1. table[name] = 0 /\ name \notin missing
      BY <1>4, <1>6, <1>7, <2>2 DEF Reads
    <3>2. tried[name] = 0
      BY <1>3, <3>1 DEF NetInv, TriesGood
    <3>3. tried' = [tried EXCEPT ![name] = @ + 1]
      BY <1>5, <2>2
    <3>4. table'[name] # 0 \/ name \in missing'
      BY <1>11, <1>12, <2>2, FieldsNext
    <3> QED
      BY <1>3, <2>1, <3>2, <3>3, <3>4 DEF NetInv, TriesGood
  <2>3. CASE ~ Reads(found, at, c)
    <3>1. tried' = tried
      BY <1>5, <2>3
    <3> QED
      BY <2>1, <3>1 DEF NetInv, TriesGood
  <2> QED
    BY <2>2, <2>3
<1> QED
  BY <1>5, <1>11, <1>12, <1>13, <1>14 DEF NetInv

(* The steps that leave the netlist alone. *)
LEMMA SameNet ==
  ASSUME NetInv, UNCHANGED <<disk, data, replaced, tried>>
  PROVE  (disk \in Disks)' /\ Good(self') /\ TriesGood'
<1>1. self' = self /\ UNCHANGED <<disk, table, missing, tried>>
  BY DEF self, data
<1> QED
  BY <1>1 DEF NetInv, TriesGood

(* Moving from module to module, and beginning and ending a link().        *)
LEMMA WalkGood ==
  ASSUME NetInv, ModuleDone \/ LinkStart \/ StartPass \/ PassModule \/ LinkEnd
  PROVE  NetInv'
<1>1. UNCHANGED <<disk, data, replaced, tried>>
  BY DEF ModuleDone, LinkStart, StartPass, PassModule, LinkEnd
<1> SUFFICES CursorGood'
  BY <1>1, SameNet DEF NetInv
<1>2. mods' = mods /\ Len(mods) \in Nat
  BY <1>1, Fields DEF data, NetInv, Good, NetType
<1>3. CASE ModuleDone
  BY <1>2, <1>3 DEF ModuleDone, NetInv, CursorGood
<1>4. CASE LinkStart
  BY <1>2, <1>4 DEF LinkStart, NetInv, CursorGood
<1>5. CASE StartPass
  <2>1. InTable \subseteq 1 .. Len(mods)
    BY Fields DEF InTable, Range, NetInv, Good, NetType
  <2> QED
    BY <1>2, <1>5, <2>1 DEF StartPass, Pass, NetInv, CursorGood
<1>6. CASE PassModule
  <2>1. PICK m \in todo : /\ phase = "pass" /\ at' = m /\ left' = DOMAIN mods[m].cells
                          /\ todo' = todo \ {m} /\ phase' = phase
    BY <1>6 DEF PassModule
  <2>2. m \in 1 .. Len(mods)
    BY DEF NetInv, CursorGood
  <2>3. mods[m].cells \in Seq(CellType)
    <3>1. mods[m] \in ModuleType
      BY <2>2, Fields DEF NetInv, Good, NetType
    <3> QED
      BY <3>1 DEF ModuleType
  <2>4. left' = 1 .. Len(mods[m].cells)
    BY <2>1, <2>3
  <2> QED
    BY <1>2, <2>1, <2>2, <2>4 DEF NetInv, CursorGood
<1>7. CASE LinkEnd
  BY <1>2, <1>7 DEF LinkEnd, NetInv, CursorGood
<1> QED
  BY <1>3, <1>4, <1>5, <1>6, <1>7

(* Taking the last module off the list. *)
LEMMA PopGood == NetInv /\ PopModule => NetInv'
<1> SUFFICES ASSUME NetInv, PopModule PROVE NetInv'
  OBVIOUS
<1> DEFINE t == [self EXCEPT !.need = Front(need)]
<1>1. /\ Good(self) /\ self \in NetType /\ need \in Seq(Nat) /\ need # <<>>
      /\ mods \in Seq(ModuleType)
  BY Fields DEF NetInv, Good, NetType, PopModule
<1>2. /\ UNCHANGED <<disk, mods, table, missing, libsDone, phase, todo, replaced, tried>>
      /\ need' = Front(need) /\ at' = Last(need)
      /\ left' = DOMAIN mods[Last(need)].cells /\ phase = "need"
  BY DEF PopModule
<1>3. Len(need) \in Nat /\ Len(need) > 0
  BY <1>1
<1>4. /\ Front(need) \in Seq(Nat) /\ Len(Front(need)) = Len(need) - 1
      /\ \A i \in 1 .. Len(Front(need)) : Front(need)[i] = need[i]
      /\ Last(need) = need[Len(need)]
  <2>1. /\ Front(need) \in Seq(Nat) /\ Len(Front(need)) = Len(need) - 1
        /\ \A i \in 1 .. (Len(need) - 1) : Front(need)[i] = need[i]
    BY <1>1, FrontLast
  <2>2. Last(need) = need[Len(need)]
    BY DEF Last
  <2> QED
    BY <2>1, <2>2
<1> HIDE DEF t
<1>5. self' = [self EXCEPT !.need = Front(need)]
  BY <1>2 DEF self
<1>6. t.mods = mods /\ t.table = table /\ t.need = Front(need) /\ t \in NetType
  BY <1>1, <1>4, Fields DEF t, NetType
<1>7. \A i \in 1 .. Len(need) : need[i] \in 1 .. Len(mods)
  BY Fields DEF NetInv, Good
<1>8. Good(t)
  <2>1. \A i \in 1 .. Len(t.need) : t.need[i] \in 1 .. Len(t.mods)
    <3>1. \A i \in 1 .. (Len(need) - 1) : Front(need)[i] \in 1 .. Len(mods)
      BY <1>3, <1>4, <1>7
    <3> QED
      BY <1>4, <1>6, <3>1
  <2> QED
    <3>1. /\ \A m \in 1 .. Len(mods) : GoodModule(mods, mods[m])
          /\ \A n \in Names : table[n] # 0 =>
               table[n] \in 1 .. Len(mods) /\ mods[table[n]].name = n
      BY Fields DEF NetInv, Good
    <3> QED
      BY <1>6, <2>1, <3>1 DEF Good
<1>9. Good(self')
  BY <1>5, <1>8 DEF t
<1>10. Last(need) \in 1 .. Len(mods)
  BY <1>3, <1>4, <1>7
<1>11. left' = 1 .. Len(mods[Last(need)].cells)
  <2>1. mods[Last(need)] \in ModuleType
    BY <1>1, <1>10
  <2> QED
    BY <1>2, <2>1 DEF ModuleType
<1>12. CursorGood'
  <2>1. Len(mods) \in Nat
    BY <1>1
  <2> QED
    BY <1>2, <1>10, <1>11, <2>1 DEF NetInv, CursorGood
<1>13. TriesGood'
  BY <1>2 DEF NetInv, TriesGood
<1> QED
  BY <1>2, <1>9, <1>12, <1>13 DEF NetInv

(* The program reads a file. *)
LEMMA ReadFileGood == NetInv /\ ReadFile => NetInv'
<1> SUFFICES ASSUME NetInv, ReadFile PROVE NetInv'
  OBVIOUS
<1>1. PICK file \in Names :
        Becomes(read_file(self, file, FALSE)) /\ UNCHANGED <<disk, linkVar, tried>>
  BY DEF ReadFile
<1> DEFINE t == read_file(self, file, FALSE)
<1>2. Good(t) /\ Grows(self, t) /\ t.missing = self.missing
  <2>1. FALSE \in BOOLEAN /\ disk[file] \in Seq(Definition)
    BY DisksGood DEF NetInv, DiskGood
  <2> QED
    BY <2>1, ReadGood DEF NetInv
<1> HIDE DEF t
<1>3. self' = t
  BY <1>1, <1>2, BecomesThat DEF Good, t
<1>4. CursorGood'
  BY <1>1, <1>2, <1>3, GrownCursor DEF linkVar
<1>5. \A n \in Names : table[n] # 0 \/ n \in missing => table'[n] # 0 \/ n \in missing'
  BY <1>2, <1>3, Fields, FieldsNext DEF Grows
<1>6. TriesGood'
  BY <1>1, <1>5 DEF NetInv, TriesGood
<1> QED
  BY <1>1, <1>2, <1>3, <1>4, <1>6 DEF NetInv

(* A module of the table is there, under its own name.                     *)
LEMMA FromTable ==
  ASSUME NetInv, NEW m \in InTable
  PROVE  m \in 1 .. Len(mods) /\ mods[m].name \in Names /\ table[mods[m].name] = m
<1>1. PICK n \in DOMAIN table : m = table[n] /\ m # 0
  BY DEF InTable, Range
<1>2. n \in Names
  BY <1>1, Fields DEF NetInv, Good, NetType
<1>3. m \in 1 .. Len(mods) /\ mods[m].name = n
  BY <1>1, <1>2, Fields DEF NetInv, Good
<1> QED
  BY <1>1, <1>2, <1>3

(* One module changed, but not its name, while link() is not running.      *)
LEMMA OneModule ==
  ASSUME NetInv, NEW m \in 1 .. Len(mods), NEW mod \in ModuleType,
         mod.name = mods[m].name, GoodModule(mods, mod)
  PROVE  LET ms == [mods EXCEPT ![m] = mod]
         IN  Good([self EXCEPT !.mods = ms]) /\ Len(ms) = Len(mods) /\ ms[m] = mod
<1> DEFINE ms == [mods EXCEPT ![m] = mod]
<1>1. Good(self) /\ mods \in Seq(ModuleType)
  BY Fields DEF NetInv, Good, NetType
<1>2. /\ ms \in Seq(ModuleType) /\ Len(ms) = Len(mods) /\ ms[m] = mod
      /\ \A k \in 1 .. Len(mods) : k # m => ms[k] = mods[k]
  BY <1>1, OneChanged
<1> HIDE DEF ms
<1>3. \A k \in 1 .. Len(ms) : ms[k].name = self.mods[k].name
  BY <1>2, Fields
<1>4. \A k \in 1 .. Len(ms) : GoodModule(self.mods, ms[k])
  BY <1>1, <1>2, Fields DEF Good
<1>5. Len(ms) = Len(self.mods)
  BY <1>2, Fields
<1>6. Good([self EXCEPT !.mods = ms])
  BY <1>1, <1>2, <1>3, <1>4, <1>5, ChangeMods
<1> QED
  BY <1>2, <1>6 DEF ms

(* A step that changes one module and nothing else. *)
LEMMA OneModuleStep ==
  ASSUME NetInv, NEW m \in 1 .. Len(mods), NEW mod \in ModuleType,
         mod.name = mods[m].name, GoodModule(mods, mod),
         mods' = [mods EXCEPT ![m] = mod], phase = "out",
         UNCHANGED <<disk, table, need, missing, libsDone, linkVar, replaced, tried>>
  PROVE  NetInv'
<1>1. /\ Good([self EXCEPT !.mods = mods']) /\ Len(mods') = Len(mods)
  BY OneModule
<1>2. self' = [self EXCEPT !.mods = mods']
  <2>1. UNCHANGED <<table, need, missing, libsDone, replaced>>
    OBVIOUS
  <2> DEFINE ms == mods'
  <2>2. self' = [mods |-> ms, table |-> table, need |-> need, missing |-> missing,
                 libsDone |-> libsDone, replaced |-> replaced]
    BY <2>1, Zenon DEF self
  <2> HIDE DEF ms
  <2>3. self' = [self EXCEPT !.mods = ms]
    BY <2>2 DEF self
  <2> QED
    BY <2>3 DEF ms
<1>3. CursorGood'
  <2>1. at = 0 /\ todo \subseteq 1 .. Len(mods) /\ UNCHANGED <<phase, todo, at>>
    BY DEF NetInv, CursorGood, linkVar
  <2>2. Len(mods) \in Nat
    BY Fields DEF NetInv, Good, NetType
  <2> QED
    BY <1>1, <2>1, <2>2 DEF CursorGood
<1>4. TriesGood'
  BY DEF NetInv, TriesGood
<1> QED
  BY <1>1, <1>2, <1>3, <1>4 DEF NetInv

(* What is known of a module of the netlist. *)
LEMMA ModuleGood ==
  ASSUME NetInv, NEW m \in 1 .. Len(mods)
  PROVE  mods[m] \in ModuleType /\ mods[m].cells \in Seq(CellType) /\ GoodModule(mods, mods[m])
<1>1. mods \in Seq(ModuleType) /\ GoodModule(mods, mods[m])
  BY Fields DEF NetInv, Good, NetType
<1>2. mods[m] \in ModuleType
  BY <1>1
<1> QED
  BY <1>1, <1>2 DEF ModuleType

(* The program adds a cell. *)
LEMMA NewCellGood == NetInv /\ NewCell => NetInv'
<1> SUFFICES ASSUME NetInv, NewCell PROVE NetInv'
  OBVIOUS
<1>1. PICK m \in InTable, name \in Names :
        /\ phase = "out" /\ mods' = [mods EXCEPT ![m].cells = Append(@, Cell(name))]
        /\ UNCHANGED <<disk, table, need, missing, libsDone, linkVar, replaced, tried>>
  BY DEF NewCell
<1> DEFINE old == mods[m]
           new == Cell(name)
           cells == Append(old.cells, new)
           mod == [old EXCEPT !.cells = cells]
<1>2. m \in 1 .. Len(mods)
  BY FromTable
<1>3. old \in ModuleType /\ old.cells \in Seq(CellType) /\ GoodModule(mods, old)
  BY <1>2, ModuleGood
<1>4. new \in CellType /\ new.submod = 0 /\ new.port = FALSE
  BY DEF Cell, CellType
<1> HIDE DEF new
<1>5. /\ cells \in Seq(CellType) /\ Len(cells) = Len(old.cells) + 1
      /\ cells[Len(old.cells) + 1] = new
      /\ \A c \in 1 .. Len(old.cells) : cells[c] = old.cells[c]
  BY <1>3, <1>4
<1> HIDE DEF cells
<1>6. Len(old.cells) \in Nat
  BY <1>3
<1>7. Ports(cells) = Ports(old.cells)
  BY <1>4, <1>5, <1>6 DEF Ports
<1>8. /\ mod \in ModuleType /\ mod.name = old.name /\ mod.cells = cells
      /\ mod.used = old.used
  BY <1>3, <1>5 DEF ModuleType
<1> HIDE DEF mod
<1>9. GoodModule(mods, mod)
  <2>1. \A c \in 1 .. Len(cells) : cells[c].submod # 0 => c \in 1 .. Len(old.cells)
    BY <1>4, <1>5, <1>6
  <2> QED
    BY <1>3, <1>5, <1>7, <1>8, <2>1 DEF GoodModule
<1>10. mods' = [mods EXCEPT ![m] = mod]
  BY <1>1 DEF mod, cells, new
<1> QED
  BY <1>1, <1>2, <1>8, <1>9, <1>10, OneModuleStep

(* Removing an element of a sequence moves down those that come after it.  *)
Skip(c, i) == IF i < c THEN i ELSE i + 1

(* Its length and elements. *)
LEMMA Removed ==
  ASSUME NEW S, NEW s \in Seq(S), NEW c \in 1 .. Len(s)
  PROVE  LET t == RemoveAt(s, c)
         IN  /\ t \in Seq(S) /\ Len(t) = Len(s) - 1
             /\ \A i \in 1 .. Len(t) : t[i] = s[Skip(c, i)]
<1>1. Len(s) \in Nat /\ c \in Nat /\ 1 <= c /\ c <= Len(s)
  OBVIOUS
<1> DEFINE a == SubSeq(s, 1, c - 1)
           b == SubSeq(s, c + 1, Len(s))
           t == a \o b
<1>2. /\ a \in Seq(S) /\ Len(a) = c - 1 /\ \A i \in 1 .. (c - 1) : a[i] = s[i]
  <2>1. c - 1 \in Nat /\ c - 1 <= Len(s)
    BY <1>1
  <2> QED
    BY <2>1, Prefix
<1>3. b \in Seq(S)
  <2>1. \A i \in (c + 1) .. Len(s) : s[i] \in S
    BY <1>1
  <2> QED
    BY <1>1, <2>1
<1>4. Len(b) = Len(s) - c
  BY <1>1
<1>5. \A i \in 1 .. (Len(s) - c) : b[i] = s[c + i]
  <2> TAKE i \in 1 .. (Len(s) - c)
  <2>1. (c + 1) + i - 1 = c + i
    BY <1>1
  <2> QED
    BY <1>1, <2>1
<1> HIDE DEF a, b
<1>6. /\ t \in Seq(S) /\ Len(t) = Len(a) + Len(b)
      /\ \A i \in 1 .. Len(a) : t[i] = a[i]
      /\ \A i \in 1 .. Len(b) : t[Len(a) + i] = b[i]
      /\ \A i \in 1 .. Len(t) :
           i \in 1 .. Len(a) \/ \E k \in 1 .. Len(b) : i = Len(a) + k
  <2>1. a \in Seq(S) /\ b \in Seq(S)
    BY <1>2, <1>3
  <2>2. t \in Seq(S) /\ Joining(t, a, b)
    BY <2>1, Joined
  <2> QED
    BY <2>2 DEF Joining
<1> HIDE DEF t
<1>7. Len(t) = Len(s) - 1
  BY <1>1, <1>2, <1>4, <1>6
<1>8. ASSUME NEW i \in 1 .. Len(t)
      PROVE  t[i] = s[Skip(c, i)]
  <2>1. CASE i \in 1 .. Len(a)
    <3>1. Skip(c, i) = i
      BY <1>1, <1>2, <2>1 DEF Skip
    <3> QED
      BY <1>2, <1>6, <2>1, <3>1
  <2>2. CASE \E k \in 1 .. Len(b) : i = Len(a) + k
    <3>1. PICK k \in 1 .. Len(b) : i = Len(a) + k
      BY <2>2
    <3>2. t[i] = s[c + k]
      BY <1>4, <1>5, <1>6, <3>1
    <3>3. Skip(c, i) = c + k
      BY <1>1, <1>2, <1>4, <3>1 DEF Skip
    <3> QED
      BY <3>2, <3>3
  <2> QED
    BY <1>6, <2>1, <2>2
<1>9. RemoveAt(s, c) = t
  BY DEF RemoveAt, t, a, b
<1> QED
  BY <1>6, <1>7, <1>8, <1>9

(* So the linked ports that are left are as many as before, without it.    *)
LEMMA PortsWithout ==
  ASSUME NEW cells \in Seq(CellType), NEW c \in 1 .. Len(cells)
  PROVE  LET n == Cardinality(Ports(cells))
         IN  Cardinality(Ports(RemoveAt(cells, c))) =
               IF cells[c].port THEN _used_in_dec(n) ELSE n
<1> DEFINE rest == RemoveAt(cells, c)
           T == Ports(rest)
           U == Ports(cells) \ {c}
           f == [i \in T |-> Skip(c, i)]
<1>1. /\ rest \in Seq(CellType) /\ Len(rest) = Len(cells) - 1
      /\ \A i \in 1 .. Len(rest) : rest[i] = cells[Skip(c, i)]
  BY Removed
<1>2. Len(cells) \in Nat /\ c \in Nat /\ 1 <= c /\ c <= Len(cells)
  OBVIOUS
<1> HIDE DEF rest
<1>3. IsFiniteSet(Ports(cells)) /\ IsFiniteSet(T)
  <2>1. 1 \in Int /\ Len(cells) \in Int /\ Len(rest) \in Int
    BY <1>1
  <2>2. IsFiniteSet(1 .. Len(cells)) /\ IsFiniteSet(1 .. Len(rest))
    BY <2>1, FS_Interval
  <2>3. Ports(cells) \subseteq 1 .. Len(cells) /\ T \subseteq 1 .. Len(rest)
    BY DEF Ports
  <2> QED
    BY <2>2, <2>3, FS_Subset
<1>4. f \in Bijection(T, U)
  <2>1. ASSUME NEW i \in T
        PROVE  Skip(c, i) \in U
    <3>1. i \in 1 .. Len(rest) /\ rest[i].port
      BY DEF Ports
    <3>2. Skip(c, i) \in 1 .. Len(cells) /\ Skip(c, i) # c
      BY <1>1, <1>2, <3>1 DEF Skip
    <3>3. cells[Skip(c, i)].port
      BY <1>1, <3>1
    <3> QED
      BY <3>2, <3>3 DEF Ports
  <2>2. ASSUME NEW i \in T, NEW j \in T, Skip(c, i) = Skip(c, j)
        PROVE  i = j
    <3>1. i \in Nat /\ j \in Nat
      BY <1>1, <1>2 DEF Ports
    <3> QED
      BY <1>2, <2>2, <3>1 DEF Skip
  <2>3. ASSUME NEW k \in U
        PROVE  \E i \in T : Skip(c, i) = k
    <3>1. k \in 1 .. Len(cells) /\ k # c /\ cells[k].port
      BY DEF Ports
    <3> DEFINE i == IF k < c THEN k ELSE k - 1
    <3>2. i \in 1 .. Len(rest) /\ Skip(c, i) = k
      BY <1>1, <1>2, <3>1 DEF Skip
    <3>3. rest[i].port
      BY <1>1, <3>1, <3>2
    <3> QED
      BY <3>2, <3>3 DEF Ports
  <2>4. f \in [T -> U]
    BY <2>1
  <2>5. \A i, j \in T : f[i] = f[j] => i = j
    BY <2>2
  <2>6. \A k \in U : \E i \in T : f[i] = k
    BY <2>3
  <2> HIDE DEF f, T, U
  <2> QED
    BY <2>4, <2>5, <2>6, Fun_IsBij
<1>5. Cardinality(T) = Cardinality(U)
  <2> HIDE DEF f, T, U
  <2> QED
    BY <1>3, <1>4, Fun_ExistsBij, FS_Bijection
<1>6. CASE cells[c].port
  <2>1. c \in Ports(cells)
    BY <1>6 DEF Ports
  <2>2. Cardinality(U) = Cardinality(Ports(cells)) - 1
    BY <1>3, <2>1, FS_RemoveElement
  <2>3. Cardinality(Ports(cells)) \in Nat /\ Cardinality(Ports(cells)) # 0
    BY <1>3, <2>1, FS_CardinalityType, FS_EmptySet
  <2> QED
    BY <1>5, <1>6, <2>2, <2>3 DEF _used_in_dec, rest
<1>7. CASE ~ cells[c].port
  <2>1. U = Ports(cells)
    BY <1>7 DEF Ports
  <2> QED
    BY <1>5, <1>7, <2>1 DEF rest
<1> QED
  BY <1>6, <1>7

(* The program deletes a cell. *)
LEMMA DeleteCellGood == NetInv /\ DeleteCell => NetInv'
<1> SUFFICES ASSUME NetInv, DeleteCell PROVE NetInv'
  OBVIOUS
<1>1. PICK m \in InTable : \E c \in DOMAIN mods[m].cells :
        /\ phase = "out"
        /\ mods' = [mods EXCEPT ![m].cells = RemoveAt(@, c),
                                ![m].used = IF mods[m].cells[c].port THEN _used_in_dec(@)
                                            ELSE @]
        /\ UNCHANGED <<disk, table, need, missing, libsDone, linkVar, replaced, tried>>
  BY DEF DeleteCell
<1>2. PICK c \in DOMAIN mods[m].cells :
        /\ phase = "out"
        /\ mods' = [mods EXCEPT ![m].cells = RemoveAt(@, c),
                                ![m].used = IF mods[m].cells[c].port THEN _used_in_dec(@)
                                            ELSE @]
        /\ UNCHANGED <<disk, table, need, missing, libsDone, linkVar, replaced, tried>>
  BY <1>1
<1> DEFINE old == mods[m]
           cells == RemoveAt(old.cells, c)
           used == IF old.cells[c].port THEN _used_in_dec(old.used) ELSE old.used
           mod == [old EXCEPT !.cells = cells, !.used = used]
<1>3. m \in 1 .. Len(mods) /\ mods \in Seq(ModuleType)
  BY FromTable, Fields DEF NetInv, Good, NetType
<1>4. old \in ModuleType /\ old.cells \in Seq(CellType) /\ GoodModule(mods, old)
  BY <1>3, ModuleGood
<1>5. c \in 1 .. Len(old.cells)
  BY <1>4
<1>6. /\ cells \in Seq(CellType) /\ Len(cells) = Len(old.cells) - 1
      /\ \A i \in 1 .. Len(cells) : cells[i] = old.cells[Skip(c, i)]
  BY <1>4, <1>5, Removed
<1>7. used = Cardinality(Ports(cells))
  <2>1. old.used = Cardinality(Ports(old.cells))
    BY <1>4 DEF GoodModule
  <2> QED
    BY <1>4, <1>5, <2>1, PortsWithout
<1>8. used \in Nat
  BY <1>4 DEF ModuleType, _used_in_dec
<1>9. mods' = [mods EXCEPT ![m] = mod]
  <2> DEFINE mid == [old EXCEPT !.cells = cells]
  <2>1. mod = [mid EXCEPT !.used = used] /\ mid.used = old.used
    BY <1>4 DEF ModuleType
  <2> DEFINE ms == [mods EXCEPT ![m] = mid]
  <2>2. ms[m] = mid
    BY <1>3
  <2>3. mods' = [ms EXCEPT ![m] = [ms[m] EXCEPT !.used =
                   IF mods[m].cells[c].port THEN _used_in_dec(ms[m].used) ELSE ms[m].used]]
    BY <1>2
  <2>4. mods' = [ms EXCEPT ![m] = mod]
    BY <2>1, <2>2, <2>3
  <2> HIDE DEF mod, mid
  <2> QED
    BY <1>3, <2>4
<1> HIDE DEF cells, used
<1>10. /\ mod \in ModuleType /\ mod.name = old.name /\ mod.cells = cells
       /\ mod.used = used
  BY <1>4, <1>6, <1>8 DEF ModuleType
<1> HIDE DEF mod
<1>11. GoodModule(mods, mod)
  <2>1. \A i \in 1 .. Len(cells) : Skip(c, i) \in 1 .. Len(old.cells)
    BY <1>4, <1>5, <1>6 DEF Skip
  <2> QED
    BY <1>4, <1>6, <1>7, <1>10, <2>1 DEF GoodModule
<1> QED
  BY <1>2, <1>3, <1>9, <1>10, <1>11, OneModuleStep

(* Deleting a module empties it, and takes its name out of the table.      *)
LEMMA DeleteModuleGood == NetInv /\ DeleteModule => NetInv'
<1> SUFFICES ASSUME NetInv, DeleteModule PROVE NetInv'
  OBVIOUS
<1>1. PICK m \in InTable :
        /\ phase = "out"
        /\ mods' = [mods EXCEPT ![m].cells = <<>>, ![m].port = FALSE, ![m].used = 0]
        /\ table' = [table EXCEPT ![mods[m].name] = 0]
        /\ replaced' = replaced \cup {mods[m].name}
        /\ tried' = [tried EXCEPT ![mods[m].name] = 0]
        /\ UNCHANGED <<disk, need, missing, libsDone, linkVar>>
  BY DEF DeleteModule
<1> DEFINE old == mods[m]
           mod == [old EXCEPT !.cells = <<>>, !.port = FALSE, !.used = 0]
           ms  == [mods EXCEPT ![m] = mod]
           t   == [self EXCEPT !.mods = ms]
<1>2. m \in 1 .. Len(mods) /\ mods \in Seq(ModuleType) /\ old.name \in Names
  BY FromTable, Fields DEF NetInv, Good, NetType
<1>3. old \in ModuleType
  BY <1>2, ModuleGood
<1>4. /\ mod \in ModuleType /\ mod.name = old.name /\ mod.cells = <<>> /\ mod.used = 0
  <2>1. <<>> \in Seq(CellType) /\ FALSE \in BOOLEAN
    OBVIOUS
  <2> QED
    BY <1>3, <2>1 DEF ModuleType
<1>5. mods' = ms
  BY <1>1, <1>2
<1> HIDE DEF mod
<1>6. GoodModule(mods, mod)
  <2>1. Len(mod.cells) = 0
    BY <1>4
  <2>2. Ports(mod.cells) = {}
    BY <2>1 DEF Ports
  <2>3. mod.used = Cardinality(Ports(mod.cells))
    BY <1>4, <2>2, FS_EmptySet
  <2>4. 1 .. Len(mod.cells) = {}
    BY <2>1
  <2> QED
    BY <2>3, <2>4 DEF GoodModule
<1>7. Good(t) /\ Len(ms) = Len(mods)
  BY <1>2, <1>4, <1>6, OneModule
<1> HIDE DEF ms
<1>8. /\ t.mods = ms /\ t.table = table /\ t.need = need /\ t.missing = missing
      /\ t.libsDone = libsDone /\ t.replaced = replaced /\ t \in NetType
  BY <1>7, Fields DEF Good, NetType, self
<1> HIDE DEF t
<1>9. /\ ms \in Seq(ModuleType) /\ table \in [Names -> Nat] /\ need \in Seq(Nat)
      /\ missing \subseteq Names /\ libsDone \in BOOLEAN /\ replaced \subseteq Names
  BY <1>8 DEF NetType
<1>10. /\ table' \in [Names -> Nat] /\ table'[old.name] = 0
       /\ \A n \in Names : n # old.name => table'[n] = table[n]
  BY <1>1, <1>2, <1>9
<1>11. replaced' \subseteq Names
  BY <1>1, <1>2, <1>9
<1>12. self' \in NetType
  BY <1>1, <1>5, <1>9, <1>10, <1>11 DEF self, NetType
<1>13. Good(self')
  <2>1. \A k \in 1 .. Len(ms) : GoodModule(ms, ms[k])
    BY <1>7, <1>8 DEF Good
  <2>2. \A n \in Names : table'[n] # 0 =>
          table'[n] \in 1 .. Len(ms) /\ ms[table'[n]].name = n
    BY <1>7, <1>8, <1>10 DEF Good
  <2>3. \A i \in 1 .. Len(need) : need[i] \in 1 .. Len(ms)
    BY <1>7, <1>8 DEF Good
  <2> QED
    BY <1>1, <1>5, <1>12, <2>1, <2>2, <2>3, FieldsNext DEF Good
<1>14. CursorGood'
  <2>1. at = 0 /\ todo \subseteq 1 .. Len(mods) /\ UNCHANGED <<phase, todo, at>>
    BY <1>1 DEF NetInv, CursorGood, linkVar
  <2>2. Len(mods) \in Nat
    BY <1>2
  <2> QED
    BY <1>5, <1>7, <2>1, <2>2 DEF CursorGood
<1>15. TriesGood'
  BY <1>1, <1>2, <1>10 DEF NetInv, TriesGood
<1> QED
  BY <1>1, <1>13, <1>14, <1>15 DEF NetInv

(* Every step keeps the invariant. *)
LEMMA NetStep == NetInv /\ [NetNext]_netVars => NetInv'
<1> SUFFICES ASSUME NetInv, [NetNext]_netVars PROVE NetInv'
  OBVIOUS
<1>1. CASE LinkCell
  BY <1>1, LinkCellGood
<1>2. CASE ModuleDone \/ LinkStart \/ StartPass \/ PassModule \/ LinkEnd
  BY <1>2, WalkGood
<1>3. CASE PopModule
  BY <1>3, PopGood
<1>4. CASE ReadFile
  BY <1>4, ReadFileGood
<1>5. CASE NewCell
  BY <1>5, NewCellGood
<1>6. CASE DeleteCell
  BY <1>6, DeleteCellGood
<1>7. CASE DeleteModule
  BY <1>7, DeleteModuleGood
<1>8. CASE UNCHANGED netVars
  <2>1. UNCHANGED <<disk, data, replaced, tried>> /\ UNCHANGED <<mods, linkVar>>
    BY <1>8 DEF netVars, data
  <2>2. CursorGood'
    BY <2>1 DEF NetInv, CursorGood, linkVar
  <2> QED
    BY <2>1, <2>2, SameNet DEF NetInv
<1> QED
  BY <1>1, <1>2, <1>3, <1>4, <1>5, <1>6, <1>7, <1>8 DEF NetNext

(* So it always holds. *)
LEMMA NetInvariance == NetSpec => []NetInv
BY InitGood, NetStep, PTL DEF NetSpec
-----------------------------------------------------------------------------
(* References lead to modules that exist and have the name asked for: a    *)
(* file read while the list is gone over, a module replaced or deleted     *)
(* leaves no cell linked to anything else.                                 *)
THEOREM ReferencesGood == NetSpec => []NetTypeOK
<1>1. NetInv => NetTypeOK
  <2> SUFFICES ASSUME NetInv PROVE NetTypeOK
    OBVIOUS
  <2>1. mods \in Seq(ModuleType) /\ need \in Seq(Nat) /\ table \in [Names -> Nat]
    BY Fields DEF NetInv, Good, NetType
  <2>2. ASSUME NEW m \in DOMAIN mods
        PROVE  /\ mods[m].used \in Nat /\ mods[m].name \in Names
               /\ \A c \in DOMAIN mods[m].cells : IsLinked(self, m, c) =>
                    mods[mods[m].cells[c].submod].name = mods[m].cells[c].submodname
    <3>1. m \in 1 .. Len(mods)
      BY <2>1
    <3>2. mods[m] \in ModuleType /\ mods[m].cells \in Seq(CellType) /\ GoodModule(mods, mods[m])
      BY <3>1, ModuleGood
    <3>3. DOMAIN mods[m].cells = 1 .. Len(mods[m].cells)
      BY <3>2
    <3>4. mods[m].used \in Nat /\ mods[m].name \in Names
      BY <3>2 DEF ModuleType
    <3> QED
      BY <3>2, <3>3, <3>4, Fields DEF GoodModule, IsLinked
  <2>3. \A n \in Names : table[n] # 0 =>
          table[n] \in 1 .. Len(mods) /\ mods[table[n]].name = n
    BY Fields DEF NetInv, Good
  <2>4. Range(need) \subseteq 1 .. Len(mods)
    <3>1. \A i \in 1 .. Len(need) : need[i] \in 1 .. Len(mods)
      BY Fields DEF NetInv, Good
    <3> QED
      BY <2>1, <3>1 DEF Range
  <2>5. InTable \subseteq 1 .. Len(mods)
    BY <2>1, <2>3 DEF InTable, Range
  <2>6. todo \subseteq 1 .. Len(mods) /\ DOMAIN mods = 1 .. Len(mods)
    BY <2>1 DEF NetInv, CursorGood
  <2> QED
    BY <2>2, <2>3, <2>4, <2>5, <2>6 DEF NetTypeOK
<1> QED
  BY <1>1, NetInvariance, PTL

(* A net's count is the number of linked pins on it, whatever is linked    *)
(* again, added or deleted, and in any order.                              *)
THEOREM CountsKept == NetSpec => []UsesCounted
<1>1. NetInv => UsesCounted
  <2> SUFFICES ASSUME NetInv, NEW m \in DOMAIN mods
               PROVE  mods[m].used =
                        Cardinality({c \in DOMAIN mods[m].cells : mods[m].cells[c].port})
    BY DEF UsesCounted
  <2>1. m \in 1 .. Len(mods)
    BY Fields DEF NetInv, Good, NetType
  <2>2. mods[m].cells \in Seq(CellType) /\ GoodModule(mods, mods[m])
    BY <2>1, ModuleGood
  <2>3. Ports(mods[m].cells) = {c \in DOMAIN mods[m].cells : mods[m].cells[c].port}
    BY <2>2 DEF Ports
  <2> QED
    BY <2>2, <2>3 DEF GoodModule
<1> QED
  BY <1>1, NetInvariance, PTL

(* Files are read for a name once, for any number of cells, modules, links *)
(* and files: either the name is in the table afterwards, or it is missing *)
(* for ever.                                                               *)
THEOREM ReadOnce == NetSpec => []TriedOnce
<1>1. NetInv => TriedOnce
  BY DEF NetInv, TriesGood, TriedOnce
<1> QED
  BY <1>1, NetInvariance, PTL
-----------------------------------------------------------------------------
(* What link() has done.  Down: a module that a cell is linked to is not   *)
(* of the top.  Only: a name that was not defined twice, nor deleted, is   *)
(* that of one module, which the table has.                                *)
Down(s) ==
  \A m \in 1 .. Len(s.mods) : \A c \in 1 .. Len(s.mods[m].cells) :
    IsLinked(s, m, c) => ~ s.mods[s.mods[m].cells[c].submod].top
Only(s) ==
  \A m \in 1 .. Len(s.mods) :
    s.mods[m].name \notin s.replaced => s.table[s.mods[m].name] = m
Sound(s) == Good(s) /\ Down(s) /\ Only(s)

(* No part of linking a cell undoes a link; and one that leaves the list   *)
(* empty found it empty, and created no modules.                           *)
Keeps(s, t) ==
  /\ \A m \in 1 .. Len(s.mods) : \A c \in 1 .. Len(s.mods[m].cells) :
       IsLinked(s, m, c) => IsLinked(t, m, c)
  /\ t.need = <<>> => s.need = <<>> /\ t.table = s.table /\ Len(t.mods) = Len(s.mods)

(* Links are made, to modules that leave the top, and nothing else that    *)
(* Sound speaks of changes.                                                *)
Links(s, t) ==
  /\ Len(t.mods) = Len(s.mods)
  /\ t.table = s.table /\ t.need = s.need /\ t.replaced = s.replaced
  /\ \A m \in 1 .. Len(s.mods) :
       /\ t.mods[m].name = s.mods[m].name
       /\ Len(t.mods[m].cells) = Len(s.mods[m].cells)
       /\ ~ s.mods[m].top => ~ t.mods[m].top
       /\ \A c \in 1 .. Len(s.mods[m].cells) :
            \/ t.mods[m].cells[c].submod = s.mods[m].cells[c].submod
            \/ /\ s.mods[m].cells[c].submod = 0
               /\ ~ t.mods[t.mods[m].cells[c].submod].top

(* It keeps what is sound so. *)
LEMMA LinksSound ==
  ASSUME NEW s, NEW t, Sound(s), Good(t), Links(s, t)
  PROVE  Sound(t) /\ Keeps(s, t)
<1>1. ASSUME NEW m \in 1 .. Len(s.mods), NEW c \in 1 .. Len(s.mods[m].cells)
      PROVE  /\ IsLinked(t, m, c) => ~ t.mods[t.mods[m].cells[c].submod].top
             /\ IsLinked(s, m, c) => IsLinked(t, m, c)
  <2>1. CASE t.mods[m].cells[c].submod = s.mods[m].cells[c].submod
    <3>1. IsLinked(t, m, c) <=> IsLinked(s, m, c)
      BY <2>1 DEF IsLinked
    <3>2. IsLinked(s, m, c) => s.mods[m].cells[c].submod \in 1 .. Len(s.mods)
      BY CellGood DEF IsLinked, Sound
    <3>3. IsLinked(s, m, c) => ~ s.mods[s.mods[m].cells[c].submod].top
      BY DEF Sound, Down
    <3>4. IsLinked(s, m, c) => ~ t.mods[s.mods[m].cells[c].submod].top
      BY <3>2, <3>3 DEF Links
    <3> QED
      BY <2>1, <3>1, <3>4
  <2>2. CASE /\ s.mods[m].cells[c].submod = 0
             /\ ~ t.mods[t.mods[m].cells[c].submod].top
    BY <2>2 DEF IsLinked
  <2> QED
    BY <2>1, <2>2 DEF Links
<1>2. Down(t)
  BY <1>1 DEF Down, Links
<1>3. Only(t)
  BY DEF Sound, Only, Links
<1>4. Keeps(s, t)
  BY <1>1 DEF Keeps, Links
<1> QED
  BY <1>2, <1>3, <1>4 DEF Sound

(* Linking a cell to the module that the table has. *)
LEMMA GutsLinks ==
  ASSUME NEW s, Good(s), NEW m \in 1 .. Len(s.mods), NEW c \in 1 .. Len(s.mods[m].cells)
  PROVE  Links(s, _link_guts(s, m, c))
<1> DEFINE old  == s.mods[m]
           cell == old.cells[c]
           sm   == s.table[cell.submodname]
           t    == _link_guts(s, m, c)
<1>1. /\ old \in ModuleType /\ old.cells \in Seq(CellType) /\ cell \in CellType
      /\ s \in NetType /\ s.mods \in Seq(ModuleType)
  BY CellGood DEF Good, NetType
<1>2. CASE IsLinked(s, m, c) \/ sm = 0
  <2>1. t = s
    BY <1>2 DEF _link_guts
  <2> HIDE DEF t
  <2> QED
    BY <2>1 DEF t, Links
<1>3. CASE ~ (IsLinked(s, m, c) \/ sm = 0)
  <2> DEFINE new == [cell EXCEPT !.submod = sm]
             cells == [old.cells EXCEPT ![c] = new]
             mod == [old EXCEPT !.cells = cells]
             ms1 == [s.mods EXCEPT ![m] = mod]
             low == [ms1[sm] EXCEPT !.top = FALSE]
             ms2 == [ms1 EXCEPT ![sm] = low]
  <2>1. t = [s EXCEPT !.mods = ms2]
    BY <1>1, <1>3 DEF _link_guts, NetType
  <2>2. cell.submodname \in Names /\ sm \in 1 .. Len(s.mods)
    BY <1>1, <1>3 DEF CellType, Good
  <2>3. new \in CellType /\ new.submod = sm
    <3>1. sm \in Nat
      BY <2>2
    <3> HIDE DEF sm
    <3> QED
      BY <1>1, <3>1 DEF CellType
  <2> HIDE DEF new
  <2>4. /\ cells \in Seq(CellType) /\ Len(cells) = Len(old.cells) /\ cells[c] = new
        /\ \A d \in 1 .. Len(old.cells) : d # c => cells[d] = old.cells[d]
    BY <1>1, <2>3, OneChanged
  <2> HIDE DEF cells
  <2>5. mod \in ModuleType /\ mod.cells = cells /\ mod.name = old.name /\ mod.top = old.top
    BY <1>1, <2>4 DEF ModuleType
  <2> HIDE DEF mod
  <2>6. /\ ms1 \in Seq(ModuleType) /\ Len(ms1) = Len(s.mods) /\ ms1[m] = mod
        /\ \A k \in 1 .. Len(s.mods) : k # m => ms1[k] = s.mods[k]
    BY <1>1, <2>5, OneChanged
  <2> HIDE DEF ms1, sm
  <2>7. /\ low \in ModuleType /\ low.cells = ms1[sm].cells /\ low.name = ms1[sm].name
        /\ low.top = FALSE
    <3>1. ms1[sm] \in ModuleType
      BY <2>2, <2>6
    <3> QED
      BY <3>1 DEF ModuleType
  <2> HIDE DEF low
  <2>8. /\ ms2 \in Seq(ModuleType) /\ Len(ms2) = Len(s.mods) /\ ms2[sm] = low
        /\ \A k \in 1 .. Len(s.mods) : k # sm => ms2[k] = ms1[k]
    BY <2>2, <2>6, <2>7, OneChanged
  <2>9. /\ t.mods = ms2 /\ t.table = s.table /\ t.need = s.need /\ t.replaced = s.replaced
    BY <1>1, <2>1 DEF NetType
  <2> HIDE DEF ms2, t
  <2>10. ASSUME NEW k \in 1 .. Len(s.mods)
         PROVE  /\ ms2[k].name = s.mods[k].name /\ ms2[k].cells = ms1[k].cells
                /\ ~ s.mods[k].top => ~ ms2[k].top
    BY <2>5, <2>6, <2>7, <2>8
  <2>11. ASSUME NEW k \in 1 .. Len(s.mods)
         PROVE  Len(ms1[k].cells) = Len(s.mods[k].cells)
    BY <2>4, <2>5, <2>6
  <2>12. ASSUME NEW k \in 1 .. Len(s.mods), NEW d \in 1 .. Len(s.mods[k].cells)
         PROVE  \/ ms1[k].cells[d].submod = s.mods[k].cells[d].submod
                \/ s.mods[k].cells[d].submod = 0 /\ ms1[k].cells[d].submod = sm
    <3>1. CASE k = m /\ d = c
      BY <1>3, <2>3, <2>4, <2>5, <2>6, <3>1 DEF IsLinked
    <3>2. CASE k = m /\ d # c
      BY <2>4, <2>5, <2>6, <3>2
    <3>3. CASE k # m
      BY <2>6, <3>3
    <3> QED
      BY <3>1, <3>2, <3>3
  <2>13. ~ ms2[sm].top
    BY <2>7, <2>8
  <2>14. ASSUME NEW k \in 1 .. Len(s.mods), NEW d \in 1 .. Len(s.mods[k].cells)
         PROVE  \/ t.mods[k].cells[d].submod = s.mods[k].cells[d].submod
                \/ /\ s.mods[k].cells[d].submod = 0
                   /\ ~ t.mods[t.mods[k].cells[d].submod].top
    <3>1. t.mods[k].cells[d].submod = ms1[k].cells[d].submod
      BY <2>9, <2>10
    <3> QED
      BY <2>9, <2>12, <2>13, <3>1
  <2>15. Links(s, t)
    BY <2>8, <2>9, <2>10, <2>11, <2>14 DEF Links
  <2> QED
    BY <2>15 DEF t
<1> QED
  BY <1>2, <1>3

(* Linking a pin links no cell. *)
LEMMA PinLinks ==
  ASSUME NEW s, Good(s), NEW m \in 1 .. Len(s.mods), NEW c \in 1 .. Len(s.mods[m].cells)
  PROVE  Links(s, PinLink(s, m, c))
<1> DEFINE old  == s.mods[m]
           cell == old.cells[c]
           new  == [cell EXCEPT !.port = TRUE]
           cells == [old.cells EXCEPT ![c] = new]
           used == old.used + 1
           mod  == [old EXCEPT !.cells = cells, !.used = used]
           ms   == [s.mods EXCEPT ![m] = mod]
           t    == PinLink(s, m, c)
<1>1. /\ old \in ModuleType /\ old.cells \in Seq(CellType) /\ cell \in CellType
      /\ s \in NetType /\ s.mods \in Seq(ModuleType)
  BY CellGood DEF Good, NetType
<1>2. CASE cell.port \/ cell.submod = 0 \/ ~ s.mods[cell.submod].port
  <2>1. t = s
    BY <1>2 DEF PinLink
  <2> HIDE DEF t
  <2> QED
    BY <2>1 DEF t, Links
<1>3. CASE ~ (cell.port \/ cell.submod = 0 \/ ~ s.mods[cell.submod].port)
  <2>1. t = [s EXCEPT !.mods = ms]
    <3>1. LinkPort(old, c) = mod
      BY <1>1 DEF ModuleType, LinkPort
    <3>2. t = [s EXCEPT !.mods = [s.mods EXCEPT ![m] = LinkPort(old, c)]]
      BY <1>3 DEF PinLink
    <3> QED
      BY <3>1, <3>2
  <2>2. new \in CellType /\ new.submod = cell.submod
    BY <1>1 DEF CellType
  <2> HIDE DEF new
  <2>3. /\ cells \in Seq(CellType) /\ Len(cells) = Len(old.cells) /\ cells[c] = new
        /\ \A d \in 1 .. Len(old.cells) : d # c => cells[d] = old.cells[d]
    BY <1>1, <2>2, OneChanged
  <2>4. /\ mod \in ModuleType /\ mod.cells = cells /\ mod.name = old.name
        /\ mod.top = old.top
    <3>1. used \in Nat
      BY <1>1 DEF ModuleType
    <3> HIDE DEF used, cells
    <3> QED
      BY <1>1, <2>3, <3>1 DEF ModuleType
  <2> HIDE DEF cells, mod
  <2>5. /\ Len(ms) = Len(s.mods) /\ ms[m] = mod
        /\ \A k \in 1 .. Len(s.mods) : k # m => ms[k] = s.mods[k]
    BY <1>1, <2>4, OneChanged
  <2>6. /\ t.mods = ms /\ t.table = s.table /\ t.need = s.need /\ t.replaced = s.replaced
    BY <1>1, <2>1 DEF NetType
  <2> HIDE DEF ms, t
  <2>7. \A d \in 1 .. Len(old.cells) : cells[d].submod = old.cells[d].submod
    BY <2>2, <2>3
  <2>8. ASSUME NEW k \in 1 .. Len(s.mods)
        PROVE  /\ ms[k].name = s.mods[k].name /\ ms[k].top = s.mods[k].top
               /\ Len(ms[k].cells) = Len(s.mods[k].cells)
               /\ \A d \in 1 .. Len(s.mods[k].cells) :
                    ms[k].cells[d].submod = s.mods[k].cells[d].submod
    BY <2>3, <2>4, <2>5, <2>7
  <2>9. Links(s, t)
    BY <2>5, <2>6, <2>8 DEF Links
  <2> QED
    BY <2>9 DEF t
<1> QED
  BY <1>2, <1>3

(* Nor does remembering that a module is missing. *)
LEMMA RememberLinks ==
  ASSUME NEW s, Good(s), NEW name \in Names
  PROVE  Links(s, Remember(s, name))
<1> DEFINE t == Remember(s, name)
<1>1. s \in NetType
  BY DEF Good
<1>2. t.mods = s.mods /\ t.table = s.table /\ t.need = s.need /\ t.replaced = s.replaced
  BY <1>1 DEF Remember, NetType
<1> HIDE DEF t
<1>3. Links(s, t)
  BY <1>2 DEF Links
<1> QED
  BY <1>3 DEF t

(* Two elements make a cardinality above one. *)
LEMMA Two ==
  ASSUME NEW S, IsFiniteSet(S), NEW i \in S, NEW j \in S, i # j
  PROVE  Cardinality(S) > 1
<1>1. Cardinality(S) \in Nat /\ Cardinality(S \ {i}) = Cardinality(S) - 1
      /\ IsFiniteSet(S \ {i})
  BY FS_CardinalityType, FS_RemoveElement
<1>2. j \in S \ {i}
  OBVIOUS
<1>3. Cardinality(S \ {i}) \in Nat /\ Cardinality(S \ {i}) # 0
  BY <1>1, <1>2, FS_CardinalityType, FS_EmptySet
<1> QED
  BY <1>1, <1>3

(* The modules of a file are linked nowhere yet, and are the only ones of  *)
(* their names, or the names are noted as replaced.                        *)
LEMMA ReadSound ==
  ASSUME NEW s, Sound(s), NEW file, disk[file] \in Seq(Definition),
         NEW is_libcell \in BOOLEAN
  PROVE  LET t == read_file(s, file, is_libcell)
         IN  Sound(t) /\ Keeps(s, t)
<1> DEFINE defs == disk[file]
           new  == NewModules(defs, is_libcell)
           refs == [i \in DOMAIN defs |-> NewRef(s, i)]
           by(name) == Defining(defs, name)
           tab  == [n \in Names |-> IF by(n) = {} THEN s.table[n] ELSE NewRef(s, Max(by(n)))]
           gone == s.replaced \cup {n \in Names : by(n) # {} /\
                                      (s.table[n] # 0 \/ Cardinality(by(n)) > 1)}
           ms   == s.mods \o new
           nd   == s.need \o refs
           t    == read_file(s, file, is_libcell)
<1>1. /\ Good(s) /\ s \in NetType /\ s.mods \in Seq(ModuleType)
      /\ s.table \in [Names -> Nat] /\ s.need \in Seq(Nat) /\ s.replaced \subseteq Names
      /\ Len(s.mods) \in Nat /\ Len(defs) \in Nat /\ DOMAIN defs = 1 .. Len(defs)
  BY DEF Sound, Good, NetType
<1>2. t = [s EXCEPT !.mods = ms, !.table = tab, !.need = nd, !.replaced = gone]
  BY <1>1 DEF read_file, NewModules, NetType
<1>3. t.mods = ms /\ t.table = tab /\ t.need = nd /\ t.replaced = gone
  BY <1>1, <1>2 DEF NetType
<1>4. Good(t)
  BY <1>1, ReadGood
<1>5. /\ new \in Seq(ModuleType) /\ Len(new) = Len(defs)
      /\ \A i \in 1 .. Len(defs) : new[i].name = defs[i].name
  BY NewModulesGood
<1>6. ASSUME NEW i \in 1 .. Len(defs), NEW c \in 1 .. Len(new[i].cells)
      PROVE  new[i].cells[c].submod = 0
  <2> DEFINE cells == [d \in DOMAIN defs[i].cells |-> Cell(defs[i].cells[d])]
  <2>1. new[i].cells = cells
    BY <1>1 DEF NewModules, new_module
  <2>2. new[i] \in ModuleType
    BY <1>5
  <2>3. new[i].cells \in Seq(CellType)
    BY <2>2 DEF ModuleType
  <2>4. c \in DOMAIN cells
    BY <2>1, <2>3
  <2> QED
    BY <2>1, <2>4 DEF Cell
<1>7. refs \in Seq(Nat) /\ Len(refs) = Len(defs)
  <2>1. refs \in [1 .. Len(defs) -> Nat]
    BY <1>1 DEF NewRef
  <2>2. Len(defs) \in Nat
    BY <1>1
  <2> HIDE DEF refs
  <2> QED
    BY <2>1, <2>2, SeqDef
<1>8. ASSUME NEW n \in Names
      PROVE  by(n) \subseteq 1 .. Len(defs) /\ IsFiniteSet(by(n))
  <2>1. by(n) \subseteq 1 .. Len(defs)
    BY <1>1 DEF Defining
  <2>2. IsFiniteSet(1 .. Len(defs))
    BY <1>1, FS_Interval
  <2> QED
    BY <2>1, <2>2, FS_Subset
<1>9. \A n \in Names : by(n) = {} => tab[n] = s.table[n]
  OBVIOUS
<1>10. ASSUME NEW n \in Names, by(n) # {}
       PROVE  tab[n] = Len(s.mods) + Max(by(n)) /\ Max(by(n)) \in by(n)
  BY <1>1, <1>8, <1>10, Greatest DEF NewRef
<1>11. \A n \in Names : n \notin gone =>
         n \notin s.replaced /\ (by(n) # {} => s.table[n] = 0 /\ ~ (Cardinality(by(n)) > 1))
  OBVIOUS
<1>12. \A i \in 1 .. Len(defs) : i \in by(defs[i].name) /\ defs[i].name \in Names
  <2> TAKE i \in 1 .. Len(defs)
  <2>1. defs[i] \in Definition
    OBVIOUS
  <2> QED
    BY <1>1, <2>1 DEF Defining, Definition
<1> HIDE DEF refs, new, gone, by, tab
<1>13. ms \in Seq(ModuleType) /\ Joining(ms, s.mods, new)
  BY <1>1, <1>5, Joined
<1>14. nd \in Seq(Nat) /\ Joining(nd, s.need, refs)
  BY <1>1, <1>7, Joined
<1> HIDE DEF ms, nd, t, defs
<1>15. \A m \in 1 .. Len(s.mods) : ms[m] = s.mods[m]
  BY <1>13 DEF Joining
<1>16. \A i \in 1 .. Len(defs) : ms[Len(s.mods) + i] = new[i]
  BY <1>5, <1>13 DEF Joining
<1>17. \A m \in 1 .. Len(ms) : m \in 1 .. Len(s.mods)
                               \/ \E i \in 1 .. Len(defs) : m = Len(s.mods) + i
  BY <1>5, <1>13 DEF Joining
<1>18. Down(t)
  <2>1. ASSUME NEW m \in 1 .. Len(ms), NEW c \in 1 .. Len(ms[m].cells),
               ms[m].cells[c].submod # 0
        PROVE  ~ ms[ms[m].cells[c].submod].top
    <3>1. CASE m \in 1 .. Len(s.mods)
      <4>1. ms[m] = s.mods[m]
        BY <1>15, <3>1
      <4>2. s.mods[m].cells[c].submod \in 1 .. Len(s.mods)
        BY <1>1, <2>1, <3>1, <4>1, CellGood
      <4>3. ~ s.mods[s.mods[m].cells[c].submod].top
        BY <2>1, <3>1, <4>1 DEF Sound, Down, IsLinked
      <4> QED
        BY <1>15, <4>1, <4>2, <4>3
    <3>2. CASE \E i \in 1 .. Len(defs) : m = Len(s.mods) + i
      BY <1>6, <1>16, <2>1, <3>2
    <3> QED
      BY <1>17, <3>1, <3>2
  <2> QED
    BY <1>3, <2>1 DEF Down, IsLinked
<1>19. Only(t)
  <2>1. ASSUME NEW m \in 1 .. Len(ms), ms[m].name \notin gone
        PROVE  tab[ms[m].name] = m
    <3>1. CASE m \in 1 .. Len(s.mods)
      <4>1. ms[m] = s.mods[m] /\ s.mods[m] \in ModuleType
        BY <1>1, <1>15, <3>1
      <4>2. s.mods[m].name \in Names
        BY <4>1 DEF ModuleType
      <4>3. s.table[s.mods[m].name] = m
        BY <1>11, <2>1, <3>1, <4>1, <4>2 DEF Sound, Only
      <4>4. m # 0
        BY <3>1
      <4> QED
        BY <1>9, <1>11, <2>1, <4>1, <4>2, <4>3, <4>4
    <3>2. CASE \E i \in 1 .. Len(defs) : m = Len(s.mods) + i
      <4>1. PICK i \in 1 .. Len(defs) : m = Len(s.mods) + i
        BY <3>2
      <4> DEFINE n == defs[i].name
      <4>2. ms[m].name = n /\ n \in Names /\ i \in by(n)
        BY <1>5, <1>12, <1>16, <4>1
      <4> HIDE DEF n
      <4>3. ~ (Cardinality(by(n)) > 1)
        BY <1>11, <2>1, <4>2
      <4>4. \A j \in by(n) : j = i
        BY <1>8, <4>2, <4>3, Two
      <4>5. tab[n] = Len(s.mods) + i
        BY <1>10, <4>2, <4>4
      <4> QED
        BY <4>1, <4>2, <4>5
    <3> QED
      BY <1>17, <3>1, <3>2
  <2> QED
    BY <1>3, <2>1 DEF Only
<1>20. Keeps(s, t)
  <2>1. \A m \in 1 .. Len(s.mods) : \A c \in 1 .. Len(s.mods[m].cells) :
          IsLinked(s, m, c) => IsLinked(t, m, c)
    BY <1>3, <1>15 DEF IsLinked
  <2>2. ASSUME nd = <<>>
        PROVE  s.need = <<>> /\ tab = s.table /\ Len(ms) = Len(s.mods)
    <3>1. Len(s.need) = 0 /\ Len(defs) = 0
      BY <1>1, <1>7, <1>14, <2>2 DEF Joining
    <3>2. s.need = <<>> /\ Len(ms) = Len(s.mods)
      BY <1>1, <1>5, <1>13, <3>1 DEF Joining
    <3>3. \A n \in Names : by(n) = {}
      BY <1>8, <3>1
    <3>4. tab = [n \in Names |-> tab[n]]
      BY DEF tab
    <3> QED
      BY <1>1, <1>9, <3>2, <3>3, <3>4
  <2> QED
    BY <1>3, <2>1, <2>2 DEF Keeps
<1> QED
  BY <1>4, <1>18, <1>19, <1>20 DEF Sound, t

(* Nothing is undone in two steps either. *)
LEMMA KeepsOn ==
  ASSUME NEW s, NEW t, NEW u, Good(s), Good(t), Grows(s, t), Keeps(s, t), Keeps(t, u)
  PROVE  Keeps(s, u)
<1>1. ASSUME NEW m \in 1 .. Len(s.mods), NEW c \in 1 .. Len(s.mods[m].cells),
             IsLinked(s, m, c)
      PROVE  IsLinked(u, m, c)
  <2>1. m \in 1 .. Len(t.mods) /\ c \in 1 .. Len(t.mods[m].cells)
    BY StillThere
  <2>2. IsLinked(t, m, c)
    BY <1>1 DEF Keeps
  <2> QED
    BY <2>1, <2>2 DEF Keeps
<1> QED
  BY <1>1 DEF Keeps

(* The libraries are files like others. *)
LEMMA LibrariesSound ==
  ASSUME NEW s, Sound(s), disk[Library] \in Seq(Definition)
  PROVE  LET t == read_libraries(s)
         IN  Sound(t) /\ Keeps(s, t)
<1> DEFINE r == [s EXCEPT !.libsDone = TRUE]
           t == read_file(r, Library, TRUE)
<1>1. CASE s.libsDone
  BY <1>1 DEF read_libraries, Keeps
<1>2. CASE ~ s.libsDone
  <2>1. s \in NetType /\ Good(s)
    BY DEF Sound, Good
  <2>2. /\ r.mods = s.mods /\ r.table = s.table /\ r.need = s.need
        /\ r.replaced = s.replaced /\ r \in NetType
    BY <2>1 DEF NetType
  <2>3. read_libraries(s) = t
    BY <1>2 DEF read_libraries
  <2> HIDE DEF r
  <2>4. Good(r)
    BY <2>1, <2>2 DEF Good
  <2>5. Sound(r)
    BY <2>2, <2>4 DEF Sound, Down, Only, IsLinked
  <2>6. Sound(t) /\ Keeps(r, t)
    <3>1. TRUE \in BOOLEAN
      OBVIOUS
    <3> QED
      BY <2>5, <3>1, ReadSound
  <2> HIDE DEF t
  <2>7. Keeps(s, t)
    BY <2>2, <2>6 DEF Keeps, IsLinked
  <2> QED
    BY <2>3, <2>6, <2>7
<1> QED
  BY <1>1, <1>2

(* Linking or remembering, after what was done before. *)
LEMMA LinksOn ==
  ASSUME NEW s, NEW t, NEW u, Good(s), Grows(s, t), Keeps(s, t), Sound(t), Good(u),
         Links(t, u)
  PROVE  Sound(u) /\ Keeps(s, u)
<1>1. Good(t) /\ Sound(u) /\ Keeps(t, u)
  BY LinksSound DEF Sound
<1> QED
  BY <1>1, KeepsOn

(* All that Cell::_link tries. *)
LEMMA LinkReadSound ==
  ASSUME DiskGood, NEW s, Sound(s), NEW m \in 1 .. Len(s.mods),
         NEW c \in 1 .. Len(s.mods[m].cells), ~ IsLinked(s, m, c)
  PROVE  LET t == LinkRead(s, m, c)
         IN  Sound(t) /\ Keeps(s, t)
<1> DEFINE name    == s.mods[m].cells[c].submodname
           read    == read_file(s, name, FALSE)
           direct  == _link_guts(read, m, c)
           libs    == read_libraries(direct)
           guts    == _link_guts(libs, m, c)
           library == IF IsLinked(direct, m, c) THEN direct ELSE guts
           again   == read_file(library, name, FALSE)
           found   == Remember(again, name)
           t       == LinkRead(s, m, c)
<1>1. name \in Names /\ Good(s)
  BY CellGood DEF CellType, Sound
<1>2. /\ disk[name] \in Seq(Definition) /\ disk[Library] \in Seq(Definition)
      /\ FALSE \in BOOLEAN
  BY <1>1 DEF DiskGood
<1>3. t = IF IsLinked(library, m, c) THEN library ELSE found
  BY DEF LinkRead
<1> HIDE DEF name, t
<1>4. Good(read) /\ Grows(s, read)
  BY <1>1, <1>2, ReadGood
<1>5. Sound(read) /\ Keeps(s, read)
  BY <1>2, ReadSound
<1> HIDE DEF read
<1>6. m \in 1 .. Len(read.mods) /\ c \in 1 .. Len(read.mods[m].cells)
  BY <1>1, <1>4, StillThere
<1>7. Good(direct) /\ Grows(read, direct) /\ Links(read, direct)
  BY <1>4, <1>6, GutsGood, GutsLinks DEF Relinks
<1> HIDE DEF direct
<1>8. Grows(s, direct)
  BY <1>1, <1>4, <1>7, GrowsOn
<1>9. Sound(direct) /\ Keeps(s, direct)
  BY <1>1, <1>4, <1>5, <1>7, LinksOn
<1>10. Good(libs) /\ Grows(direct, libs)
  BY <1>2, <1>7, LibrariesGood
<1>11. Sound(libs) /\ Keeps(direct, libs)
  BY <1>2, <1>9, LibrariesSound
<1> HIDE DEF libs
<1>12. Grows(s, libs)
  BY <1>1, <1>7, <1>8, <1>10, GrowsOn
<1>13. Keeps(s, libs)
  BY <1>1, <1>7, <1>8, <1>9, <1>11, KeepsOn
<1>14. m \in 1 .. Len(libs.mods) /\ c \in 1 .. Len(libs.mods[m].cells)
  BY <1>1, <1>10, <1>12, StillThere
<1>15. Good(guts) /\ Grows(libs, guts) /\ Links(libs, guts)
  BY <1>10, <1>14, GutsGood, GutsLinks DEF Relinks
<1> HIDE DEF guts
<1>16. Grows(s, guts)
  BY <1>1, <1>10, <1>12, <1>15, GrowsOn
<1>17. Sound(guts) /\ Keeps(s, guts)
  BY <1>1, <1>11, <1>12, <1>13, <1>15, LinksOn
<1>18. Good(library) /\ Grows(s, library) /\ Sound(library) /\ Keeps(s, library)
  BY <1>7, <1>8, <1>9, <1>15, <1>16, <1>17
<1> HIDE DEF library
<1>19. Good(again) /\ Grows(library, again)
  BY <1>2, <1>18, ReadGood
<1>20. Sound(again) /\ Keeps(library, again)
  BY <1>2, <1>18, ReadSound
<1> HIDE DEF again
<1>21. Grows(s, again)
  BY <1>1, <1>18, <1>19, GrowsOn
<1>22. Keeps(s, again)
  BY <1>1, <1>18, <1>20, KeepsOn
<1>23. Good(found) /\ Links(again, found)
  BY <1>1, <1>19, RememberGood, RememberLinks
<1> HIDE DEF found
<1>24. Sound(found) /\ Keeps(s, found)
  BY <1>1, <1>20, <1>21, <1>22, <1>23, LinksOn
<1>25. Sound(t) /\ Keeps(s, t)
  BY <1>3, <1>18, <1>24
<1> QED
  BY <1>25 DEF t
-----------------------------------------------------------------------------
(* The cells that link() has been over: once it may no longer go over any  *)
(* list, those of the modules that it is done with.                        *)
Done(m, c) == table[mods[m].cells[c].submodname] # 0 => IsLinked(self, m, c)
DoneSoFar ==
  phase = "pass" /\ need = <<>> =>
    \A m \in InTable \ todo : \A c \in 1 .. Len(mods[m].cells) :
      Done(m, c) \/ (m = at /\ c \in left)
DoneAll ==
  linked => /\ phase = "out"
            /\ need = <<>> =>
                 \A m \in InTable : \A c \in 1 .. Len(mods[m].cells) : Done(m, c)
LinkInv == NetInv /\ Sound(self) /\ DoneSoFar /\ DoneAll

(* It holds at the start. *)
LEMMA InitDone == NetInit => LinkInv
<1> SUFFICES ASSUME NetInit PROVE LinkInv
  OBVIOUS
<1>1. mods = <<>> /\ Len(mods) = 0 /\ phase = "out" /\ ~ linked
  BY DEF NetInit
<1>2. NetInv /\ Good(self)
  BY InitGood DEF NetInv
<1>3. Down(self) /\ Only(self)
  BY <1>1, Fields DEF Down, Only
<1>4. DoneSoFar /\ DoneAll
  BY <1>1 DEF DoneSoFar, DoneAll
<1> QED
  BY <1>2, <1>3, <1>4 DEF LinkInv, Sound

(* Linking a cell links it, if its module is in the table.                 *)
LEMMA LinkCellDone == LinkInv /\ LinkCell => LinkInv'
<1> SUFFICES ASSUME LinkInv, LinkCell PROVE LinkInv'
  OBVIOUS
<1>0. NetInv /\ Sound(self) /\ Good(self) /\ NetInv'
  BY LinkCellGood DEF LinkInv, NetInv
<1>1. PICK c \in left :
        LET found == _link_guts(self, at, c)
        IN  /\ at # 0
            /\ Becomes(PinLink(IF Reads(found, at, c) THEN LinkRead(found, at, c)
                               ELSE found, at, c))
            /\ left' = left \ {c}
            /\ UNCHANGED <<disk, phase, todo, at, linked>>
  BY DEF LinkCell
<1> DEFINE found == _link_guts(self, at, c)
           name  == mods[at].cells[c].submodname
           t     == IF Reads(found, at, c) THEN LinkRead(found, at, c) ELSE found
           u     == PinLink(t, at, c)
<1>2. at \in 1 .. Len(self.mods) /\ c \in 1 .. Len(self.mods[at].cells)
  BY <1>0, <1>1, Fields DEF NetInv, CursorGood
<1>3. self.mods[at].cells[c].submodname = name
  BY Fields
<1>4. /\ Good(found) /\ Grows(self, found) /\ Links(self, found)
      /\ table[name] # 0 => IsLinked(found, at, c)
  BY <1>0, <1>2, <1>3, Fields, GutsGood, GutsLinks DEF Relinks
<1>5. /\ Becomes(u) /\ left' = left \ {c} /\ UNCHANGED <<disk, phase, todo, at, linked>>
  BY <1>1
<1> HIDE DEF found, name
<1>6. Sound(found) /\ Keeps(self, found)
  BY <1>0, <1>4, LinksSound
<1>7. at \in 1 .. Len(found.mods) /\ c \in 1 .. Len(found.mods[at].cells)
  BY <1>0, <1>2, <1>4, StillThere
<1>8. Good(t) /\ Grows(found, t) /\ Sound(t) /\ Keeps(found, t)
  <2>1. CASE Reads(found, at, c)
    <3> DEFINE r == LinkRead(found, at, c)
    <3>1. ~ IsLinked(found, at, c) /\ DiskGood
      BY <1>0, <2>1, DisksGood DEF Reads, NetInv
    <3>2. Good(r) /\ Grows(found, r)
      BY <1>4, <1>7, <3>1, LinkReadGood
    <3>3. Sound(r) /\ Keeps(found, r)
      BY <1>6, <1>7, <3>1, LinkReadSound
    <3>4. t = r
      BY <2>1
    <3> HIDE DEF r, t
    <3> QED
      BY <3>2, <3>3, <3>4
  <2>2. CASE ~ Reads(found, at, c)
    <3>1. t = found
      BY <2>2
    <3>2. Grows(found, found) /\ Keeps(found, found)
      BY <1>4 DEF Grows, Keeps, Good, NetType
    <3> QED
      BY <1>4, <1>6, <3>1, <3>2
  <2> QED
    BY <2>1, <2>2
<1> HIDE DEF t
<1>9. Grows(self, t)
  BY <1>0, <1>4, <1>8, GrowsOn
<1>10. at \in 1 .. Len(t.mods) /\ c \in 1 .. Len(t.mods[at].cells)
  BY <1>0, <1>2, <1>8, <1>9, StillThere
<1>11. Good(u) /\ Grows(t, u) /\ Links(t, u)
  BY <1>8, <1>10, PinGood, PinLinks DEF Relinks
<1> HIDE DEF u
<1>12. Sound(u) /\ Keeps(found, u)
  BY <1>4, <1>8, <1>11, LinksOn
<1>13. Keeps(self, u)
  BY <1>0, <1>4, <1>6, <1>12, KeepsOn
<1>14. Grows(self, u)
  BY <1>0, <1>8, <1>9, <1>11, GrowsOn
<1>15. self' = u
  BY <1>5, <1>11, BecomesThat DEF Good
<1>16. IsLinked(found, at, c) => IsLinked(u, at, c)
  BY <1>7, <1>12 DEF Keeps
<1>17. DoneSoFar'
  <2> SUFFICES ASSUME phase = "pass", need' = <<>>, NEW m \in InTable' \ todo,
                      NEW d \in 1 .. Len(mods'[m].cells)
               PROVE  Done(m, d)' \/ (m = at /\ d \in left \ {c})
    BY <1>5 DEF DoneSoFar
  <2>1. need = <<>> /\ table' = table /\ Len(mods') = Len(mods)
    BY <1>13, <1>15, Fields, FieldsNext DEF Keeps
  <2>2. m \in InTable
    BY <2>1 DEF InTable
  <2>3. m \in 1 .. Len(self.mods)
    BY <1>0, <2>2, FromTable, Fields
  <2>4. /\ d \in 1 .. Len(self.mods[m].cells)
        /\ mods'[m].cells[d].submodname = mods[m].cells[d].submodname
    BY <1>14, <1>15, <2>3, Fields, FieldsNext DEF Grows
  <2>5. Done(m, d) \/ (m = at /\ d \in left)
    BY <2>1, <2>2, <2>4, Fields DEF LinkInv, DoneSoFar
  <2>6. IsLinked(self, m, d) => IsLinked(self', m, d)
    BY <1>13, <1>15, <2>3, <2>4 DEF Keeps
  <2>7. CASE Done(m, d)
    BY <2>1, <2>4, <2>6, <2>7 DEF Done
  <2>8. CASE m = at /\ d = c
    <3>1. table[name] # 0 => IsLinked(self', m, d)
      BY <1>4, <1>15, <1>16, <2>8
    <3>2. mods[m].cells[d].submodname = name
      BY <2>8 DEF name
    <3> QED
      BY <2>1, <2>4, <3>1, <3>2 DEF Done
  <2> QED
    BY <2>5, <2>7, <2>8
<1>18. DoneAll'
  <2>1. phase # "out"
    BY <1>0, <1>1 DEF NetInv, CursorGood
  <2> QED
    BY <1>5, <2>1 DEF LinkInv, DoneAll
<1> QED
  BY <1>0, <1>12, <1>15, <1>17, <1>18 DEF LinkInv

(* Steps that leave the netlist and what is linked alone.                  *)
LEMMA WalkDone ==
  ASSUME LinkInv, ModuleDone \/ LinkStart \/ StartPass \/ PassModule \/ LinkEnd
  PROVE  LinkInv'
<1>1. NetInv /\ NetInv' /\ CursorGood
  BY WalkGood DEF LinkInv, NetInv
<1>2. UNCHANGED <<mods, table, need, missing, libsDone, replaced>>
  BY DEF ModuleDone, LinkStart, StartPass, PassModule, LinkEnd, data
<1>3. self' = self
  BY <1>2 DEF self
<1>4. Sound(self')
  BY <1>3 DEF LinkInv
<1>5. /\ InTable' = InTable
      /\ \A m, c : Done(m, c)' <=> Done(m, c)
  BY <1>2, <1>3 DEF InTable, Done
<1> SUFFICES DoneSoFar' /\ DoneAll'
  BY <1>1, <1>4 DEF LinkInv
<1>6. CASE ModuleDone
  <2>1. left = {} /\ UNCHANGED <<phase, todo, left, linked>>
    BY <1>6 DEF ModuleDone
  <2> QED
    BY <1>2, <1>5, <2>1 DEF LinkInv, DoneSoFar, DoneAll
<1>7. CASE LinkStart
  BY <1>7 DEF LinkStart, DoneSoFar, DoneAll
<1>8. CASE StartPass
  <2>1. phase = "need" /\ todo' = InTable /\ linked' = linked
    BY <1>8 DEF StartPass, Pass
  <2> QED
    BY <1>5, <2>1 DEF LinkInv, DoneSoFar, DoneAll
<1>9. CASE PassModule
  <2>1. PICK k \in todo : /\ phase = "pass" /\ at = 0 /\ at' = k /\ phase' = phase
                          /\ left' = DOMAIN mods[k].cells
                          /\ todo' = todo \ {k} /\ linked' = linked
    BY <1>9 DEF PassModule
  <2>2. DOMAIN mods[k].cells = 1 .. Len(mods[k].cells)
    <3>1. k \in 1 .. Len(mods)
      BY <1>1 DEF CursorGood
    <3> QED
      BY <1>1, <3>1, ModuleGood
  <2>3. ASSUME need = <<>>, NEW m \in InTable \ todo', NEW c \in 1 .. Len(mods[m].cells)
        PROVE  Done(m, c) \/ (m = at' /\ c \in left')
    <3>1. CASE m = k
      BY <2>1, <2>2, <3>1
    <3>2. CASE m # k
      <4>1. at # m
        BY <1>1, <2>1, FromTable
      <4> QED
        BY <2>1, <2>3, <3>2, <4>1 DEF LinkInv, DoneSoFar
    <3> QED
      BY <3>1, <3>2
  <2>4. DoneSoFar'
    BY <1>2, <1>5, <2>3 DEF DoneSoFar
  <2>5. DoneAll'
    BY <2>1 DEF LinkInv, DoneAll
  <2> QED
    BY <2>4, <2>5
<1>10. CASE LinkEnd
  <2>1. phase = "pass" /\ at = 0 /\ todo = {} /\ phase' = "out"
    BY <1>10 DEF LinkEnd
  <2>2. \A m \in InTable : at # m
    BY <1>1, <2>1, FromTable
  <2> QED
    BY <1>2, <1>5, <2>1, <2>2 DEF LinkInv, DoneSoFar, DoneAll
<1> QED
  BY <1>6, <1>7, <1>8, <1>9, <1>10

(* Taking a module off the list: the pass is still to come.                *)
LEMMA PopDone == LinkInv /\ PopModule => LinkInv'
<1> SUFFICES ASSUME LinkInv, PopModule PROVE LinkInv'
  OBVIOUS
<1>1. NetInv' /\ Good(self')
  BY PopGood DEF LinkInv, NetInv
<1>2. UNCHANGED <<mods, table, replaced, phase, linked>> /\ phase = "need"
  BY DEF PopModule
<1>3. Down(self') /\ Only(self')
  BY <1>2, Fields, FieldsNext DEF LinkInv, Sound, Down, Only, IsLinked
<1>4. DoneSoFar' /\ DoneAll'
  BY <1>2 DEF LinkInv, DoneSoFar, DoneAll
<1> QED
  BY <1>1, <1>3, <1>4 DEF LinkInv, Sound

(* What the program does between links: nothing is claimed to be linked.   *)
LEMMA BetweenDone ==
  ASSUME LinkInv, NetInv', Down(self'), Only(self'), phase = "out", phase' = phase,
         linked' = FALSE
  PROVE  LinkInv'
BY DEF LinkInv, NetInv, Sound, DoneSoFar, DoneAll

(* The program reads a file. *)
LEMMA ReadFileDone == LinkInv /\ ReadFile => LinkInv'
<1> SUFFICES ASSUME LinkInv, ReadFile PROVE LinkInv'
  OBVIOUS
<1>1. PICK file \in Names : /\ Becomes(read_file(self, file, FALSE)) /\ phase = "out"
                            /\ linked' = FALSE /\ UNCHANGED linkVar
  BY DEF ReadFile
<1>2. disk[file] \in Seq(Definition) /\ FALSE \in BOOLEAN
  BY DisksGood DEF LinkInv, NetInv, DiskGood
<1>3. Sound(read_file(self, file, FALSE))
  BY <1>2, ReadSound DEF LinkInv
<1>4. self' = read_file(self, file, FALSE)
  BY <1>1, <1>3, BecomesThat DEF Sound, Good
<1>5. NetInv'
  BY ReadFileGood DEF LinkInv
<1> QED
  BY <1>1, <1>3, <1>4, <1>5, BetweenDone DEF Sound, linkVar

(* The program changes a module, and links no cell.                        *)
LEMMA ChangeDone ==
  ASSUME LinkInv, NetInv', Len(mods') = Len(mods), phase = "out", phase' = phase,
         linked' = FALSE, replaced \subseteq replaced',
         \A n \in Names : n \notin replaced' => table'[n] = table[n],
         \A m \in 1 .. Len(mods) :
           /\ mods'[m].name = mods[m].name /\ mods'[m].top = mods[m].top
           /\ \A c \in 1 .. Len(mods'[m].cells) : mods'[m].cells[c].submod # 0 =>
                \E d \in 1 .. Len(mods[m].cells) :
                  mods'[m].cells[c].submod = mods[m].cells[d].submod
  PROVE  LinkInv'
<1>1. Good(self) /\ mods \in Seq(ModuleType)
  BY Fields DEF LinkInv, NetInv, Good, NetType
<1>2. ASSUME NEW m \in 1 .. Len(mods'), NEW c \in 1 .. Len(mods'[m].cells),
             mods'[m].cells[c].submod # 0
      PROVE  ~ mods'[mods'[m].cells[c].submod].top
  <2>1. m \in 1 .. Len(mods)
    OBVIOUS
  <2>2. PICK d \in 1 .. Len(mods[m].cells) :
          mods'[m].cells[c].submod = mods[m].cells[d].submod
    BY <1>2, <2>1
  <2>3. mods[m].cells[d].submod \in 1 .. Len(mods)
    BY <1>1, <1>2, <2>1, <2>2, CellGood, Fields
  <2>4. ~ mods[mods[m].cells[d].submod].top
    BY <1>2, <2>1, <2>2, Fields DEF LinkInv, Sound, Down, IsLinked
  <2> QED
    BY <2>2, <2>3, <2>4
<1>3. Down(self')
  BY <1>2, FieldsNext DEF Down, IsLinked
<1>4. Only(self')
  <2>1. ASSUME NEW m \in 1 .. Len(mods), mods[m].name \notin replaced'
        PROVE  table'[mods[m].name] = m
    <3>1. mods[m] \in ModuleType
      BY <1>1
    <3>2. mods[m].name \in Names
      BY <3>1 DEF ModuleType
    <3>3. table[mods[m].name] = m
      BY <2>1, Fields DEF LinkInv, Sound, Only
    <3> QED
      BY <2>1, <3>2, <3>3
  <2> QED
    BY <2>1, FieldsNext DEF Only
<1> QED
  BY <1>3, <1>4, BetweenDone

(* The program adds a cell. *)
LEMMA NewCellDone == LinkInv /\ NewCell => LinkInv'
<1> SUFFICES ASSUME LinkInv, NewCell PROVE LinkInv'
  OBVIOUS
<1>1. PICK m \in InTable, name \in Names :
        /\ phase = "out" /\ mods' = [mods EXCEPT ![m].cells = Append(@, Cell(name))]
        /\ linked' = FALSE
        /\ UNCHANGED <<disk, table, need, missing, libsDone, linkVar, replaced, tried>>
  BY DEF NewCell
<1>2. NetInv /\ NetInv'
  BY NewCellGood DEF LinkInv
<1> DEFINE old == mods[m]
           new == Cell(name)
           cells == Append(old.cells, new)
<1>3. m \in 1 .. Len(mods) /\ mods \in Seq(ModuleType)
  BY <1>2, FromTable, Fields DEF NetInv, Good, NetType
<1>4. old \in ModuleType /\ old.cells \in Seq(CellType)
  BY <1>2, <1>3, ModuleGood
<1>5. new.submod = 0
  BY DEF Cell
<1> HIDE DEF new
<1>6. \A c \in 1 .. Len(cells) : cells[c].submod # 0 =>
        c \in 1 .. Len(old.cells) /\ cells[c].submod = old.cells[c].submod
  <2> TAKE c \in 1 .. Len(cells)
  <2>1. Len(cells) = Len(old.cells) + 1 /\ Len(old.cells) \in Nat
    BY <1>4
  <2>2. CASE c = Len(cells)
    BY <1>4, <1>5, <2>1, <2>2
  <2>3. CASE c # Len(cells)
    <3>1. c \in 1 .. Len(old.cells)
      BY <2>1, <2>3
    <3> QED
      BY <1>4, <3>1
  <2> QED
    BY <2>2, <2>3
<1>7. /\ Len(mods') = Len(mods)
      /\ mods'[m] = [old EXCEPT !.cells = cells]
      /\ \A k \in 1 .. Len(mods) : k # m => mods'[k] = mods[k]
  BY <1>1, <1>3 DEF new
<1> HIDE DEF cells
<1>8. mods'[m].name = old.name /\ mods'[m].top = old.top /\ mods'[m].cells = cells
  BY <1>4, <1>7 DEF ModuleType
<1>9. \A k \in 1 .. Len(mods) :
        /\ mods'[k].name = mods[k].name /\ mods'[k].top = mods[k].top
        /\ \A c \in 1 .. Len(mods'[k].cells) : mods'[k].cells[c].submod # 0 =>
             \E d \in 1 .. Len(mods[k].cells) :
               mods'[k].cells[c].submod = mods[k].cells[d].submod
  BY <1>6, <1>7, <1>8
<1> QED
  BY <1>1, <1>2, <1>7, <1>9, ChangeDone DEF linkVar

(* The program deletes a cell. *)
LEMMA DeleteCellDone == LinkInv /\ DeleteCell => LinkInv'
<1> SUFFICES ASSUME LinkInv, DeleteCell PROVE LinkInv'
  OBVIOUS
<1>1. PICK m \in InTable : \E c \in DOMAIN mods[m].cells :
        /\ phase = "out" /\ linked' = FALSE
        /\ mods' = [mods EXCEPT ![m].cells = RemoveAt(@, c),
                                ![m].used = IF mods[m].cells[c].port THEN _used_in_dec(@)
                                            ELSE @]
        /\ UNCHANGED <<disk, table, need, missing, libsDone, linkVar, replaced, tried>>
  BY DEF DeleteCell
<1>2. PICK c \in DOMAIN mods[m].cells :
        /\ phase = "out" /\ linked' = FALSE
        /\ mods' = [mods EXCEPT ![m].cells = RemoveAt(@, c),
                                ![m].used = IF mods[m].cells[c].port THEN _used_in_dec(@)
                                            ELSE @]
        /\ UNCHANGED <<disk, table, need, missing, libsDone, linkVar, replaced, tried>>
  BY <1>1
<1>3. NetInv /\ NetInv'
  BY DeleteCellGood DEF LinkInv
<1> DEFINE old == mods[m]
           cells == RemoveAt(old.cells, c)
<1>4. m \in 1 .. Len(mods) /\ mods \in Seq(ModuleType)
  BY <1>3, FromTable, Fields DEF NetInv, Good, NetType
<1>5. old \in ModuleType /\ old.cells \in Seq(CellType)
  BY <1>3, <1>4, ModuleGood
<1>6. c \in 1 .. Len(old.cells) /\ Len(old.cells) \in Nat
  BY <1>5
<1>7. \A i \in 1 .. Len(cells) :
        Skip(c, i) \in 1 .. Len(old.cells) /\ cells[i] = old.cells[Skip(c, i)]
  <2>1. /\ Len(cells) = Len(old.cells) - 1
        /\ \A i \in 1 .. Len(cells) : cells[i] = old.cells[Skip(c, i)]
    BY <1>5, <1>6, Removed
  <2> HIDE DEF cells
  <2> QED
    BY <1>6, <2>1 DEF Skip
<1> HIDE DEF cells
<1>8. /\ Len(mods') = Len(mods)
      /\ mods'[m].name = old.name /\ mods'[m].top = old.top /\ mods'[m].cells = cells
      /\ \A k \in 1 .. Len(mods) : k # m => mods'[k] = mods[k]
  <2> DEFINE mid == [mods EXCEPT ![m].cells = cells]
             used == IF mods[m].cells[c].port THEN _used_in_dec(mid[m].used) ELSE mid[m].used
  <2>1. mods' = [mid EXCEPT ![m].used = used]
    BY <1>2 DEF cells
  <2>2. /\ Len(mid) = Len(mods) /\ m \in DOMAIN mid
        /\ mid[m] = [old EXCEPT !.cells = cells]
        /\ \A k \in 1 .. Len(mods) : k # m => mid[k] = mods[k]
    BY <1>4
  <2> HIDE DEF used, mid
  <2>3. /\ mods'[m] = [mid[m] EXCEPT !.used = used]
        /\ \A k \in 1 .. Len(mods) : k # m => mods'[k] = mid[k]
    BY <1>4, <2>1, <2>2
  <2>4. Len(mods') = Len(mods)
    <3>1. DOMAIN mods' = DOMAIN mid
      BY <2>1
    <3> QED
      BY <1>4, <2>1, <2>2, <3>1 DEF mid
  <2> QED
    BY <1>5, <2>2, <2>3, <2>4 DEF ModuleType
<1>9. \A k \in 1 .. Len(mods) :
        /\ mods'[k].name = mods[k].name /\ mods'[k].top = mods[k].top
        /\ \A i \in 1 .. Len(mods'[k].cells) : mods'[k].cells[i].submod # 0 =>
             \E d \in 1 .. Len(mods[k].cells) :
               mods'[k].cells[i].submod = mods[k].cells[d].submod
  <2>1. \A i \in 1 .. Len(cells) :
          \E d \in 1 .. Len(old.cells) : cells[i].submod = old.cells[d].submod
    BY <1>7
  <2> HIDE DEF old
  <2>2. mods'[m].name = mods[m].name /\ mods'[m].top = mods[m].top
    BY <1>8 DEF old
  <2>3. \A i \in 1 .. Len(mods'[m].cells) :
          \E d \in 1 .. Len(mods[m].cells) :
            mods'[m].cells[i].submod = mods[m].cells[d].submod
    BY <1>8, <2>1 DEF old
  <2> TAKE k \in 1 .. Len(mods)
  <2>4. CASE k = m
    BY <2>2, <2>3, <2>4
  <2>5. CASE k # m
    <3>1. mods'[k] = mods[k]
      BY <1>8, <2>5
    <3> QED
      BY <3>1
  <2> QED
    BY <2>4, <2>5
<1> QED
  BY <1>2, <1>3, <1>8, <1>9, ChangeDone DEF linkVar

(* The program deletes a module: its name is noted. *)
LEMMA DeleteModuleDone == LinkInv /\ DeleteModule => LinkInv'
<1> SUFFICES ASSUME LinkInv, DeleteModule PROVE LinkInv'
  OBVIOUS
<1>1. PICK m \in InTable :
        /\ phase = "out" /\ linked' = FALSE
        /\ mods' = [mods EXCEPT ![m].cells = <<>>, ![m].port = FALSE, ![m].used = 0]
        /\ table' = [table EXCEPT ![mods[m].name] = 0]
        /\ replaced' = replaced \cup {mods[m].name}
        /\ UNCHANGED linkVar
  BY DEF DeleteModule
<1>2. NetInv /\ NetInv'
  BY DeleteModuleGood DEF LinkInv
<1> DEFINE old == mods[m]
           mod == [old EXCEPT !.cells = <<>>, !.port = FALSE, !.used = 0]
<1>3. m \in 1 .. Len(mods) /\ mods \in Seq(ModuleType) /\ table \in [Names -> Nat]
  BY <1>2, FromTable, Fields DEF NetInv, Good, NetType
<1>4. old \in ModuleType
  BY <1>2, <1>3, ModuleGood
<1>5. mods' = [mods EXCEPT ![m] = mod]
  BY <1>1, <1>3
<1>6. mod.name = old.name /\ mod.top = old.top /\ mod.cells = <<>>
  BY <1>4 DEF ModuleType
<1> HIDE DEF mod
<1>7. /\ Len(mods') = Len(mods) /\ mods'[m] = mod
      /\ \A k \in 1 .. Len(mods) : k # m => mods'[k] = mods[k]
  BY <1>3, <1>5
<1>8. \A k \in 1 .. Len(mods) :
        /\ mods'[k].name = mods[k].name /\ mods'[k].top = mods[k].top
        /\ \A i \in 1 .. Len(mods'[k].cells) : mods'[k].cells[i].submod # 0 =>
             \E d \in 1 .. Len(mods[k].cells) :
               mods'[k].cells[i].submod = mods[k].cells[d].submod
  BY <1>6, <1>7
<1>9. replaced \subseteq replaced' /\ \A n \in Names : n \notin replaced' => table'[n] = table[n]
  BY <1>1, <1>3
<1> QED
  BY <1>1, <1>2, <1>7, <1>8, <1>9, ChangeDone DEF linkVar

(* Every step keeps the invariant. *)
LEMMA LinkStep == LinkInv /\ [NetNext]_netVars => LinkInv'
<1> SUFFICES ASSUME LinkInv, [NetNext]_netVars PROVE LinkInv'
  OBVIOUS
<1>1. CASE LinkCell
  BY <1>1, LinkCellDone
<1>2. CASE ModuleDone \/ LinkStart \/ StartPass \/ PassModule \/ LinkEnd
  BY <1>2, WalkDone
<1>3. CASE PopModule
  BY <1>3, PopDone
<1>4. CASE ReadFile
  BY <1>4, ReadFileDone
<1>5. CASE NewCell
  BY <1>5, NewCellDone
<1>6. CASE DeleteCell
  BY <1>6, DeleteCellDone
<1>7. CASE DeleteModule
  BY <1>7, DeleteModuleDone
<1>8. CASE UNCHANGED netVars
  <2>1. NetInv'
    BY <1>8, NetStep DEF LinkInv
  <2>2. self' = self /\ UNCHANGED <<mods, table, need, phase, todo, at, left, linked>>
    BY <1>8 DEF netVars, data, linkVar, self
  <2>3. InTable' = InTable /\ \A m, c : Done(m, c)' <=> Done(m, c)
    BY <2>2 DEF InTable, Done
  <2>4. DoneSoFar' /\ DoneAll'
    BY <2>2, <2>3 DEF LinkInv, DoneSoFar, DoneAll
  <2> QED
    BY <2>1, <2>2, <2>4 DEF LinkInv
<1> QED
  BY <1>1, <1>2, <1>3, <1>4, <1>5, <1>6, <1>7, <1>8 DEF NetNext

(* When link() returns and no module is left on the list, every cell of    *)
(* the table's modules is linked if its module is in the table, although   *)
(* the list and the table grew while they were gone over, and its module   *)
(* is not of the top unless its name was replaced.                         *)
THEOREM LinkingComplete == NetSpec => []LinkComplete
<1>1. LinkInv => LinkComplete
  <2> SUFFICES ASSUME LinkInv, linked, need = <<>>, NEW m \in InTable,
                      NEW c \in DOMAIN mods[m].cells,
                      table[mods[m].cells[c].submodname] # 0
               PROVE  LET name == mods[m].cells[c].submodname
                      IN  /\ IsLinked(self, m, c)
                          /\ name \notin replaced => ~ mods[table[name]].top
    BY DEF LinkComplete
  <2> DEFINE cell == mods[m].cells[c]
             name == cell.submodname
  <2>1. NetInv /\ m \in 1 .. Len(mods)
    BY FromTable DEF LinkInv
  <2>2. c \in 1 .. Len(mods[m].cells)
    BY <2>1, ModuleGood
  <2>3. IsLinked(self, m, c)
    BY <2>2 DEF LinkInv, DoneAll, Done
  <2>4. cell.submod \in 1 .. Len(mods) /\ mods[cell.submod].name = name
    BY <2>1, <2>2, <2>3, CellGood, Fields DEF NetInv, IsLinked
  <2>5. ~ mods[cell.submod].top
    BY <2>1, <2>2, <2>3, Fields DEF LinkInv, Sound, Down, IsLinked
  <2>6. name \notin replaced => table[name] = cell.submod
    BY <2>4, Fields DEF LinkInv, Sound, Only
  <2> QED
    BY <2>3, <2>5, <2>6
<1> QED
  BY <1>1, InitDone, LinkStep, PTL DEF NetSpec
=============================================================================
