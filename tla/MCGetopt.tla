------------------------------ MODULE MCGetopt ------------------------------
(* Getopt with a file that several directories have.                        *)
EXTENDS Getopt

MCNames   == <<"A">>
MCValues  == {<<"1">>}
MCDisk    == { << <<"inc">>, "f", ".vh" >>, << <<"lib">>, "f", ".v" >>,
               << <<"sub", "lib">>, "f", "" >> }
MCParamFiles ==
  "opts" :> <<Word("-y", <<>>), Word("word", <<"lib">>),
              Word("-v", <<>>), Word("word", <<"cells">>)>>
MCCommands == {
  <<Word("-D", <<"A">>)>>,
  <<Word("+define", << <<"A", "1">>, <<"A", "1">> >>), Word("word", <<"rest">>)>>,
  <<Word("-U", <<"A">>)>>,
  <<Word("+incdir", <<"inc">>)>>,
  <<Word("-I", <<"lib">>)>>,
  <<Word("+libext", <<".vh">>)>>,
  <<Word("-y", <<>>)>>,
  <<Word("word", <<"lib">>)>>,
  <<Word("-f", <<>>), Word("word", <<"sub", "opts">>)>>,
  <<Word("-F", <<>>), Word("word", <<"sub", "opts">>)>>,
  <<Word("-f", <<>>), Word("word", <<"gone">>)>> }

(* Values that do not fit on a command line; the second is taken for the    *)
(* definition of a macro named 2.                                           *)
MCTwoNames   == <<"2", "A">>
MCLostValues == {<<"0">>, <<"1", "2">>}
MCNoCommands == {}
=============================================================================
