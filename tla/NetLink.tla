------------------------------ MODULE NetLink ------------------------------
(***************************************************************************)
(* Linking a netlist (Netlist.pm, Netlist/Module.pm, Cell.pm, Pin.pm):     *)
(* link() takes modules off a list and links their cells; a cell whose     *)
(* module is not known reads files, whose modules join the list and the    *)
(* table that link() is going over.  Between links the program reads files *)
(* and adds and deletes cells and modules.                                 *)
(* Hashes have no order: a module's cells, and the modules of the second   *)
(* pass, are linked in any.  Interfaces are linked as modules are, files   *)
(* have nothing to link.  A file is the modules it defines.                *)
(***************************************************************************)
EXTENDS Naturals, FiniteSets, SequencesExt, Functions

CONSTANTS
  Names,        \* names of modules, and of the files looked for under them
  Library,      \* the file that options->library names
  Disks,        \* the disks: what each file defines, in order, if it is there
  CellBound,    \* bound: cells of a module to which the program adds one
  ObjectBound   \* bound: modules created before the program adds more

Definition == [name : Names, port : BOOLEAN, cells : Seq(Names)]
ASSUME NetAssumption ==
  /\ Library \notin Names /\ {CellBound, ObjectBound} \subseteq Nat
  /\ Disks \subseteq [Names \cup {Library} -> Seq(Definition)]

VARIABLES
  disk,
  mods,      \* the modules ever created; a reference is an index
  table,     \* _modules: by name, the module, or 0
  need,      \* _need_link
  missing,   \* _missing_submod
  libsDone,  \* _libraries_done
  phase,     \* where link() is: "out" of it, at the "need" list, in a "pass"
  todo,      \* the modules left to link in the pass
  at,        \* the module being linked, or 0
  left,      \* its cells not linked yet
  linked,    \* history: link() returned, and nothing was changed since
  replaced,  \* history: the names that were defined twice, or deleted
  tried      \* history: how often files were read to find each name

data    == <<mods, table, need, missing, libsDone>>
linkVar == <<phase, todo, at, left>>
netVars == <<disk, data, linkVar, linked, replaced, tried>>

(* The netlist as one value, for what reads it and changes it in turn. *)
self == [mods |-> mods, table |-> table, need |-> need, missing |-> missing,
         libsDone |-> libsDone, replaced |-> replaced]
Becomes(s) ==
  /\ mods' = s.mods /\ table' = s.table /\ need' = s.need
  /\ missing' = s.missing /\ libsDone' = s.libsDone /\ replaced' = s.replaced

(* A cell has one pin, on a net that its module declares; `port` once it   *)
(* is linked to a port.  A module has one net for the pins of its cells.   *)
Cell(name) == [submodname |-> name, submod |-> 0, port |-> FALSE]
InTable == Range(table) \ {0}
-----------------------------------------------------------------------------
(* new_module, for the modules of a file in turn: of two with one name the *)
(* table keeps the last.  A file that is not there gives nothing, nor an   *)
(* error that ends link().  Mutant: one off.                               *)
MutNewRef(s, i) == Len(s.mods) + i - 1
NewRef(s, i) == Len(s.mods) + i
new_module(def, is_libcell) ==
  [name |-> def.name, lib |-> is_libcell, top |-> TRUE, port |-> def.port, used |-> 0,
   cells |-> [c \in DOMAIN def.cells |-> Cell(def.cells[c])]]

Defining(defs, name) == {i \in DOMAIN defs : defs[i].name = name}
read_file(s, file, is_libcell) ==
  LET defs == disk[file]
      by(name) == Defining(defs, name)
  IN  [s EXCEPT !.mods  = @ \o [i \in DOMAIN defs |-> new_module(defs[i], is_libcell)],
                !.table = [n \in Names |-> IF by(n) = {} THEN @[n] ELSE NewRef(s, Max(by(n)))],
                !.need  = @ \o [i \in DOMAIN defs |-> NewRef(s, i)],
                !.replaced = @ \cup {n \in Names : by(n) # {} /\
                                       (s.table[n] # 0 \/ Cardinality(by(n)) > 1)}]
read_libraries(s) ==
  IF s.libsDone THEN s ELSE read_file([s EXCEPT !.libsDone = TRUE], Library, TRUE)

IsLinked(s, m, c) == s.mods[m].cells[c].submod # 0

(* Cell::_link_guts *)
_link_guts(s, m, c) ==
  LET sm == s.table[s.mods[m].cells[c].submodname]
  IN  IF IsLinked(s, m, c) \/ sm = 0 THEN s
      ELSE [s EXCEPT !.mods[m].cells[c].submod = sm, !.mods[sm].top = FALSE]

(* The tries of Cell::_link: the file of that name, the libraries, and for *)
(* the sake of the message the file of that name again.                    *)
(* Mutant: what is missing is not remembered.                              *)
MutRemember(s, name) == s
Remember(s, name) == [s EXCEPT !.missing = @ \cup {name}]
LinkRead(s, m, c) ==
  LET name    == s.mods[m].cells[c].submodname
      direct  == _link_guts(read_file(s, name, FALSE), m, c)
      library == IF IsLinked(direct, m, c) THEN direct
                 ELSE _link_guts(read_libraries(direct), m, c)
  IN  IF IsLinked(library, m, c) THEN library
      ELSE Remember(read_file(library, name, FALSE), name)

(* Pin::_link: what is linked already is not counted again.                *)
LinkPort(mod, c) == [mod EXCEPT !.cells[c].port = TRUE, !.used = @ + 1]
(* Mutant: every link counts.                                              *)
MutPinLink(s, m, c) ==
  LET cell == s.mods[m].cells[c]
  IN  IF cell.submod = 0 \/ ~ s.mods[cell.submod].port THEN s
      ELSE [s EXCEPT !.mods[m] = LinkPort(@, c)]
PinLink(s, m, c) ==
  LET cell == s.mods[m].cells[c]
  IN  IF cell.port \/ cell.submod = 0 \/ ~ s.mods[cell.submod].port THEN s
      ELSE [s EXCEPT !.mods[m] = LinkPort(@, c)]

(* Cell::_link.  The cells of libraries read nothing. *)
Reads(s, m, c) ==
  /\ ~ IsLinked(s, m, c) /\ ~ s.mods[m].lib
  /\ s.mods[m].cells[c].submodname \notin s.missing
LinkCell ==
  \E c \in left :
    LET found == _link_guts(self, at, c)
        name  == mods[at].cells[c].submodname
    IN  /\ at # 0
        /\ Becomes(PinLink(IF Reads(found, at, c) THEN LinkRead(found, at, c)
                           ELSE found, at, c))
        /\ tried' = IF Reads(found, at, c) THEN [tried EXCEPT ![name] = @ + 1] ELSE tried
        /\ left' = left \ {c}
        /\ UNCHANGED <<disk, phase, todo, at, linked>>

(* Module::link ends. *)
ModuleDone ==
  /\ at # 0 /\ left = {}
  /\ at' = 0
  /\ UNCHANGED <<disk, data, phase, todo, left, linked, replaced, tried>>
-----------------------------------------------------------------------------
(* Netlist::link: the list, last first, then a pass over the table as it   *)
(* is when the pass begins.  Nothing asks for another pass.                *)
LinkStart ==
  /\ phase = "out" /\ phase' = "need" /\ linked' = FALSE
  /\ UNCHANGED <<disk, data, todo, at, left, replaced, tried>>
PopModule ==
  /\ phase = "need" /\ at = 0 /\ need # <<>>
  /\ need' = Front(need)
  /\ at' = Last(need) /\ left' = DOMAIN mods[Last(need)].cells
  /\ UNCHANGED <<disk, mods, table, missing, libsDone, phase, todo, linked, replaced, tried>>

(* Mutant: "The above should have gotten everything". *)
MutPass == {}
Pass == InTable
StartPass ==
  /\ phase = "need" /\ at = 0 /\ need = <<>>
  /\ phase' = "pass" /\ todo' = Pass
  /\ UNCHANGED <<disk, data, at, left, linked, replaced, tried>>
PassModule ==
  \E m \in todo :
    /\ phase = "pass" /\ at = 0
    /\ at' = m /\ left' = DOMAIN mods[m].cells
    /\ todo' = todo \ {m}
    /\ UNCHANGED <<disk, data, phase, linked, replaced, tried>>
LinkEnd ==
  /\ phase = "pass" /\ at = 0 /\ todo = {}
  /\ phase' = "out" /\ linked' = TRUE
  /\ UNCHANGED <<disk, data, todo, at, left, replaced, tried>>
-----------------------------------------------------------------------------
(* What the program does between links. *)
ReadFile ==
  \E file \in Names :
    /\ phase = "out" /\ Len(mods) < ObjectBound /\ disk[file] # <<>>
    /\ Becomes(read_file(self, file, FALSE))
    /\ linked' = FALSE
    /\ UNCHANGED <<disk, linkVar, tried>>

NewCell ==
  \E m \in InTable, name \in Names :
    /\ phase = "out" /\ Len(mods[m].cells) < CellBound
    /\ Len(mods) < ObjectBound
    /\ mods' = [mods EXCEPT ![m].cells = Append(@, Cell(name))]
    /\ linked' = FALSE
    /\ UNCHANGED <<disk, table, need, missing, libsDone, linkVar, replaced, tried>>

(* Its pins are deleted first, and a linked one leaves the net's count.    *)
_used_in_dec(n) == IF n = 0 THEN n ELSE n - 1
DeleteCell ==
  \E m \in InTable :
    \E c \in DOMAIN mods[m].cells :
      /\ phase = "out"
      /\ mods' = [mods EXCEPT ![m].cells = RemoveAt(@, c),
                              ![m].used = IF mods[m].cells[c].port THEN _used_in_dec(@)
                                          ELSE @]
      /\ linked' = FALSE
      /\ UNCHANGED <<disk, table, need, missing, libsDone, linkVar, replaced, tried>>

(* A module found in the table leaves it, and loses its nets, ports and    *)
(* cells; the cells linked to it still are, and it may be on the list.     *)
DeleteModule ==
  \E m \in InTable :
    /\ phase = "out"
    /\ mods' = [mods EXCEPT ![m].cells = <<>>, ![m].port = FALSE, ![m].used = 0]
    /\ table' = [table EXCEPT ![mods[m].name] = 0]
    /\ linked' = FALSE
    /\ replaced' = replaced \cup {mods[m].name}
    /\ tried' = [tried EXCEPT ![mods[m].name] = 0]
    /\ UNCHANGED <<disk, need, missing, libsDone, linkVar>>
-----------------------------------------------------------------------------
NetInit ==
  /\ disk \in Disks
  /\ mods = <<>> /\ table = [n \in Names |-> 0] /\ need = <<>>
  /\ missing = {} /\ libsDone = FALSE
  /\ phase = "out" /\ todo = {} /\ at = 0 /\ left = {}
  /\ linked = FALSE /\ replaced = {} /\ tried = [n \in Names |-> 0]

NetNext ==
  \/ LinkCell \/ ModuleDone
  \/ LinkStart \/ PopModule \/ StartPass \/ PassModule \/ LinkEnd
  \/ ReadFile \/ NewCell \/ DeleteCell \/ DeleteModule

NetSpec == NetInit /\ [][NetNext]_netVars
-----------------------------------------------------------------------------
(* References are to modules that exist, the table files each under its    *)
(* own name, and a linked cell's module has the name that the cell asks    *)
(* for, also after that module was replaced or deleted.                    *)
NetTypeOK ==
  /\ \A m \in DOMAIN mods : mods[m].used \in Nat /\ mods[m].name \in Names
  /\ Range(need) \cup InTable \cup todo \subseteq DOMAIN mods
  /\ \A n \in Names : table[n] # 0 => mods[table[n]].name = n
  /\ \A m \in DOMAIN mods : \A c \in DOMAIN mods[m].cells :
       IsLinked(self, m, c) =>
         mods[mods[m].cells[c].submod].name = mods[m].cells[c].submodname

(* After link(), if no module waits for another: every cell whose module   *)
(* is in the table is linked, whichever order files were read in, and a    *)
(* module of the top is one that no cell names, unless it replaced another.*)
LinkComplete ==
  linked /\ need = <<>> =>
    \A m \in InTable : \A c \in DOMAIN mods[m].cells :
      LET name == mods[m].cells[c].submodname
      IN  table[name] # 0 =>
            /\ IsLinked(self, m, c)
            /\ name \notin replaced => ~ mods[table[name]].top

(* The count of a net is the number of linked pins on it, however often    *)
(* link() goes over them and whatever was deleted.                         *)
UsesCounted ==
  \A m \in DOMAIN mods :
    mods[m].used = Cardinality({c \in DOMAIN mods[m].cells : mods[m].cells[c].port})

(* Files are read for a name once, and never again, however many cells     *)
(* name it and links there are; so link() comes to an end.                 *)
TriedOnce == \A n \in Names : tried[n] <= 1

(* "Resolves references between the different modules": no module is left  *)
(* waiting when link() returns.                                            *)
NoneWaits == linked => need = <<>>
=============================================================================
