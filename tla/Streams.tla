------------------------------ MODULE Streams ------------------------------
(***************************************************************************)
(* The input of the lexer (Preproc/VPreLex.l, VPreLex.h): m_streampStack,  *)
(* a stack of VPreStreams, each with its text, and flex's buffer, which is *)
(* refilled from the top stream only (YY_INPUT is inputToLex).             *)
(* Text is inserted at the place reached by saving what flex has not yet   *)
(* matched in the stream on top and pushing another stream.  flex may have *)
(* read ahead across the end of a stream, so the stream on top need not be *)
(* the one that the saved text came from.                                  *)
(*                                                                         *)
(* Characters are Items; so is a `line that the lexer forces into the      *)
(* input, which is read as one piece.                                      *)
(***************************************************************************)
EXTENDS TextItems, FiniteSetsExt

CONSTANTS
  MaxRead,        \* max_size: what flex asks for at once
  RecursionMax,   \* DEFINE_RECURSION_LEVEL_MAX
  IncludeMax,     \* INCLUDE_DEPTH_MAX
  MaxText         \* bound: text given to a stream that was stopped

ASSUME StreamsAssumption ==
  {MaxRead, RecursionMax, IncludeMax, MaxText} \subseteq Nat \ {0}

VARIABLES
  streams,   \* m_streampStack, top last; the first is the "EOF" stream
  depth,     \* m_streamDepth
  unread,    \* flex's buffer, from yy_c_buf_p on
  token,     \* what was matched last
  errs       \* an error was reported (and error() returned)

streamVars == <<streams, depth, unread, token, errs>>

Stream(fl, text, file) ==
  [fl |-> fl, text |-> text, eof |-> FALSE, file |-> file, term |-> 0]

top   == Last(streams)
isEof == top.eof

(* What a stream still holds: its text and, for a file, its ending. *)
Held(s) ==
  s.text \o (IF s.file THEN SubSeq(Ending(s.fl), s.term + 1, 4) ELSE <<>>)

(* What the streams of a stack hold, each from its n-th down. *)
HeldFrom(stack) ==
  LET held[n \in 0 .. Len(stack)] ==
        IF n = 0 THEN <<>> ELSE Held(stack[n]) \o held[n - 1]
  IN  held

(* The text still to be read, as PendingText has it. *)
Rest == IF isEof THEN <<>> ELSE unread \o HeldFrom(streams)[Len(streams)]

Abs == INSTANCE PendingText WITH rest <- Rest
-----------------------------------------------------------------------------
(* endOfStream, "midpoint of stream": exhausted macro streams are popped   *)
(* on the way to a stream that has something to say, the k-th.             *)
Spent(s) == ~ s.eof /\ ~ s.file /\ s.text = <<>>
Reaches(k) ==
  /\ k \in 1 .. Len(streams) /\ ~ Spent(streams[k])
  /\ \A j \in k + 1 .. Len(streams) : Spent(streams[j])

(* YY_INPUT.  No rule of the lexer looks past a newline, so flex asks for  *)
(* more only when it holds none.  Mutant: a rule that does look past one.  *)
MutAsksForMore == ~ isEof
AsksForMore == ~ isEof /\ \A i \in 1 .. Len(unread) : ~ EndsLine(unread[i])

(* What inputToLex leaves: the first k streams, the last of them as s, and *)
(* what flex received.  Mutant: the destructor does not count.             *)
MutFilled(k, s, got) ==
  /\ streams' = Append(SubSeq(streams, 1, k - 1), s)
  /\ unread' = unread \o got
  /\ UNCHANGED <<depth, token, errs>>
Filled(k, s, got) ==
  /\ streams' = Append(SubSeq(streams, 1, k - 1), s)
  /\ depth' = depth - (Len(streams) - k)
  /\ unread' = unread \o got
  /\ UNCHANGED <<token, errs>>

FillText(k) ==
  LET s == streams[k]
      n == Min({MaxRead, Len(s.text)})
  IN  /\ AsksForMore /\ Reaches(k) /\ s.text # <<>>
      /\ Filled(k, [s EXCEPT !.text = SubSeq(@, n + 1, Len(@))], SubSeq(s.text, 1, n))

(* The shutdown phases of a file: its final newline, the end-of-file event *)
(* (no characters), the `line that leaves it.                              *)
(* Mutants: the phase does not advance; one phase too many.                *)
Said(s) == CASE s.term = 0 -> <<Newline>>
             [] s.term = 2 -> <<Leave(s.fl)>>
             [] OTHER      -> <<>>
MutStuckEnding(k) ==
  LET s == streams[k]
  IN  /\ AsksForMore /\ Reaches(k) /\ s.file /\ s.text = <<>> /\ s.term < 3
      /\ Filled(k, s, Said(s))
MutLongEnding(k) ==
  LET s == streams[k]
  IN  /\ AsksForMore /\ Reaches(k) /\ s.file /\ s.text = <<>> /\ s.term <= 3
      /\ Filled(k, [s EXCEPT !.term = @ + 1], Said(s))
FillEnding(k) ==
  LET s == streams[k]
  IN  /\ AsksForMore /\ Reaches(k) /\ s.file /\ s.text = <<>> /\ s.term < 3
      /\ Filled(k, [s EXCEPT !.term = @ + 1], Said(s))

(* The last phase: the stream is popped and the one below resumes, or the  *)
(* bottom is reached, which inherits the place.                            *)
FillResume(k) ==
  LET s     == streams[k]
      below == streams[k - 1]
  IN  /\ AsksForMore /\ Reaches(k) /\ s.file /\ s.text = <<>> /\ s.term = 3
      /\ IF below.eof THEN Filled(k - 1, [below EXCEPT !.fl = s.fl], <<>>)
         ELSE Filled(k - 1, below, <<Enter(below.fl)>>)

(* A character of a token is matched. *)
Scan ==
  /\ ~ isEof /\ unread # <<>>
  /\ unread' = Tail(unread) /\ token' = Head(unread)
  /\ UNCHANGED <<streams, depth, errs>>
-----------------------------------------------------------------------------
(* scanSwitchStream: the unread text waits in the stream on top.           *)
(* Mutant: it is put behind what that stream still holds.                  *)
MutSwitchStream(s) ==
  /\ streams' = Append(Append(Front(streams),
                              [top EXCEPT !.text = @ \o unread]), s)
  /\ depth' = depth + 1
  /\ unread' = <<>> /\ token' = Newline
  /\ UNCHANGED errs
scanSwitchStream(s) ==
  /\ streams' = Append(Append(Front(streams),
                              [top EXCEPT !.text = unread \o @]), s)
  /\ depth' = depth + 1
  /\ unread' = <<>> /\ token' = Newline
  /\ UNCHANGED errs

(* "Fake it to stop recursion".  Mutant: in silence. *)
MutFakeEof(more) ==
  /\ streams' = Append(Front(streams), [top EXCEPT !.eof = TRUE,
                                                   !.text = @ \o more])
  /\ token' = Newline
  /\ UNCHANGED <<depth, unread, errs>>
FakeEof(more) ==
  /\ streams' = Append(Front(streams), [top EXCEPT !.eof = TRUE,
                                                   !.text = @ \o more])
  /\ errs' = TRUE /\ token' = Newline
  /\ UNCHANGED <<depth, unread>>

(* unputString, scanBytes: the text that a token stands for. *)
Unput(s) ==
  /\ ~ isEof /\ token.kind = "reference"
  /\ IF depth > RecursionMax THEN FakeEof(<<>>)
     ELSE scanSwitchStream(Stream(top.fl, s, FALSE))

(* VPreProcImp::openFile: by `include, or by the program when all has been *)
(* read.  Only the first limit looks at the file already open.             *)
OpenFile(f) ==
  /\ IF isEof THEN Len(top.text) < MaxText ELSE token.kind = "include"
  /\ \/ /\ ~ isEof /\ Len(streams) > IncludeMax
        /\ errs' = TRUE /\ token' = Newline
        /\ UNCHANGED <<streams, depth, unread>>
     \/ /\ isEof \/ Len(streams) <= IncludeMax
        /\ depth > RecursionMax
        /\ FakeEof(Content[f])
     \/ /\ isEof \/ Len(streams) <= IncludeMax
        /\ depth <= RecursionMax
        /\ scanSwitchStream(Stream(f, Content[f], TRUE))

(* initFirstBuffer. *)
StreamInit ==
  /\ streams = <<[Stream(NoFile, <<>>, FALSE) EXCEPT !.eof = TRUE]>>
  /\ depth = 1
  /\ unread = <<>> /\ token = Newline
  /\ errs = FALSE

Fill == \E k \in 1 .. Len(streams) :
          FillText(k) \/ FillEnding(k) \/ FillResume(k)
Reading   == Fill \/ Scan
Inserting == (\E s \in Bodies : Unput(s)) \/ (\E f \in Files : OpenFile(f))

StreamNext == Reading \/ Inserting

StreamSpec == StreamInit /\ [][StreamNext]_streamVars /\ WF_streamVars(Reading)
-----------------------------------------------------------------------------
StreamTypeOK ==
  /\ streams # <<>>
  /\ \A i \in 1 .. Len(streams) :
       /\ streams[i].fl \in Files \cup {NoFile}
       /\ streams[i].eof \in BOOLEAN /\ streams[i].file \in BOOLEAN
       /\ streams[i].term \in 0 .. 3
  /\ depth \in Nat /\ errs \in BOOLEAN

(* "EOF is entry 0": the bottom of the stack is the EOF stream and is      *)
(* never popped; above it only a stream that was stopped claims the end;   *)
(* and what stands on the EOF stream is a file.                            *)
EofIsEntryZero ==
  /\ streams[1].eof /\ ~ streams[1].file
  /\ Len(streams) > 1 => streams[2].file
  /\ \A i \in 2 .. Len(streams) : streams[i].eof => errs

(* m_streamDepth, kept by constructors and destructors, is the stack's size. *)
DepthIsSize == depth = Len(streams)

(* Nothing is left behind when the end is reached without an error: no     *)
(* saved text in a stream popped too early, none that flex still holds.    *)
NothingLeftAtEof ==
  isEof /\ ~ errs => unread = <<>> /\ Len(streams) = 1 /\ top.text = <<>>

(* Text is read in the order of plain textual insertion, each file's       *)
(* ending after its text, each resumption naming the file resumed.         *)
ImplementsPendingText == Abs!AbsSpec

(* Reading goes on to the end once no more is inserted. *)
Drains == <>[][~ Inserting]_streamVars => []<>isEof
=============================================================================
