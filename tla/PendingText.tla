---------------------------- MODULE PendingText ----------------------------
(***************************************************************************)
(* What the preprocessor's input promises: the abstract specification that *)
(* the stack of streams of VPreLex and flex's own buffer (module Streams)  *)
(* implement.                                                              *)
(*                                                                         *)
(* There is one text, `rest', still to be read.  Macro bodies and included *)
(* files are inserted at the place reached.  A file brings its own ending: *)
(* a newline that its last line may lack, an end-of-file event that stops  *)
(* constructs left open, the `line that leaves it, and the `line that      *)
(* resumes the file around it, when there is one.                          *)
(***************************************************************************)
EXTENDS TextItems

VARIABLES
  rest,      \* what is still to be read
  errs       \* an error was reported

IsResume(i) == i.kind = "resume after"

(* The file that goes on once text r is reached: the next one to end. *)
Around(r) == r[SelectInSeq(r, IsResume)].file

Read ==
  /\ rest # <<>> /\ ~ IsResume(Head(rest))
  /\ rest' = Tail(rest)
  /\ UNCHANGED errs

ResumeFile ==
  /\ rest # <<>> /\ IsResume(Head(rest))
  /\ rest' = IF Tail(rest) = <<>> THEN <<>>
             ELSE <<Enter(Around(Tail(rest)))>> \o Tail(rest)
  /\ UNCHANGED errs

Insert(s)  == rest' = s \o rest /\ UNCHANGED errs
Include(f) == rest' = Content[f] \o Ending(f) \o rest /\ UNCHANGED errs

Refuse == UNCHANGED rest /\ errs' = TRUE   \* nothing is inserted
GiveUp == rest' = <<>> /\ errs' = TRUE     \* nothing more is read

AbsInit == rest = <<>> /\ errs = FALSE

AbsNext ==
  \/ Read \/ ResumeFile
  \/ \E s \in Bodies : Insert(s)
  \/ \E f \in Files : Include(f)
  \/ Refuse \/ GiveUp

AbsSpec == AbsInit /\ [][AbsNext]_<<rest, errs>>
=============================================================================
