---------------------------- MODULE CondCompile ----------------------------
(***************************************************************************)
(* What `ifdef / `ifndef / `elsif / `else / `endif promise: the abstract   *)
(* specification that the preprocessor's stack of (on, everOn) pairs and   *)
(* its counter of disabled levels implement (module IfdefStack).           *)
(*                                                                         *)
(* An open chain is remembered by the conditions of the branches met so    *)
(* far, oldest first; `else is a branch whose condition is TRUE.  The text *)
(* now being read is passed on when, in every open chain, the branch it    *)
(* stands in is the first one whose condition held.                        *)
(***************************************************************************)
EXTENDS Naturals, Sequences

VARIABLES
  chains,   \* one sequence of branch conditions per open chain, outermost first
  passing   \* whether text read now reaches the output

(* The last branch of ch is the first of its branches that holds. *)
Taken(ch) ==
  /\ ch # <<>>
  /\ ch[Len(ch)]
  /\ \A j \in 1 .. (Len(ch) - 1) : ~ ch[j]

AllTaken(cs) == \A i \in 1 .. Len(cs) : Taken(cs[i])

Opened(c)   == chains' = Append(chains, <<c>>)
Branched(c) == /\ chains # <<>>
               /\ chains' = [chains EXCEPT ![Len(chains)] = Append(@, c)]
Closed      == /\ chains # <<>>
               /\ chains' = SubSeq(chains, 1, Len(chains) - 1)

AbsInit == chains = <<>> /\ passing = TRUE

AbsNext ==
  /\ \/ \E c \in BOOLEAN : Opened(c) \/ Branched(c)
     \/ Closed
  /\ passing' = AllTaken(chains')

AbsSpec == AbsInit /\ [][AbsNext]_<<chains, passing>>
=============================================================================
