---------------------------- MODULE MCParseScopes ----------------------------
(* The parser on one or two names of each kind. *)
EXTENDS ParseScopes

CONSTANT Places   \* how many entries there can be at once
MCIds  == 1 .. Places
MCKeys == PackageNames \cup TypeNames \cup OtherNames \cup {Anon, Qualified, New, Keyword}
=============================================================================
