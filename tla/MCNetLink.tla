------------------------------ MODULE MCNetLink ------------------------------
(* Disks for TLC: each of two files may be missing, or define one or two    *)
(* modules, under its own name or not, with and without a cell.             *)
EXTENDS NetLink

CONSTANTS a, b, l

Module(name, cells, port) == [name |-> name, cells |-> cells, port |-> port]

FilesA == {<<Module(a, <<b>>, FALSE)>>, <<Module(a, <<b, b>>, FALSE)>>,
           <<Module(a, <<b>>, TRUE), Module(b, <<a>>, TRUE)>>}
FilesB == {<<>>, <<Module(b, <<>>, TRUE)>>, <<Module(a, <<b>>, FALSE)>>,
           <<Module(b, <<a>>, FALSE)>>}
Libraries == {<<>>, <<Module(b, <<a>>, TRUE)>>}

MCDisks == {[f \in {a, b, l} |-> CASE f = a -> x [] f = b -> y [] OTHER -> z] :
              x \in FilesA, y \in FilesB, z \in Libraries}
=============================================================================
