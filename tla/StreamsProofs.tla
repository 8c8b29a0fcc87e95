---------------------------- MODULE StreamsProofs ----------------------------
(***************************************************************************)
(* The stack of streams, for any files, macros, sizes of refills and       *)
(* limits on nesting: the EOF stream stays at the bottom and is never      *)
(* popped; m_streamDepth, which the limit on recursion asks, is the size   *)
(* of the stack; the end is not reached before all text is read; and text  *)
(* is read in the order that PendingText gives.  The same of the expansion *)
(* of macros on it (MacroExpand).                                          *)
(***************************************************************************)
EXTENDS MacroExpand, SequenceLemmas, TLAPS

(* What flex is given: characters, and `lines that the lexer forces. *)
Pieces == {i \in Items : i.kind \notin {"file end", "resume after"}}

StreamSet == [fl : Files \cup {NoFile}, text : Seq(Pieces), eof : BOOLEAN,
              file : BOOLEAN, term : 0 .. 3]

StreamsKind ==
  /\ streams \in Seq(StreamSet) /\ streams # <<>>
  /\ unread \in Seq(Pieces) /\ token \in Pieces
  /\ depth \in Nat /\ errs \in BOOLEAN

(* Above the EOF stream only the one on top is ever stopped, and only when *)
(* the stack is full.  What a macro or a quote puts back belongs to the    *)
(* file below it.                                                          *)
TopStops ==
  \A i \in 2 .. Len(streams) :
    streams[i].eof => i = Len(streams) /\ depth > RecursionMax
FileKept ==
  \A i \in 2 .. Len(streams) :
    ~ streams[i].file => streams[i].fl = streams[i - 1].fl
StackInv == StreamsKind /\ EofIsEntryZero /\ DepthIsSize /\ TopStops /\ FileKept

(* "Fake it to stop recursion": nothing is read any more. *)
Stopped == isEof /\ depth > RecursionMax

(* A file that has begun to end has given its last newline or `line: that  *)
(* is the last of its text as long as there is text, also when the text    *)
(* was read and put back; when a stream lies on it there is some, for the  *)
(* token that put it there was followed by that newline; and flex, which   *)
(* asks for nothing behind a newline, has read it when it asks for more.   *)
HasEnded(s) == s.file /\ s.term >= 1
EndsKept ==
  \A i \in 1 .. Len(streams) :
    HasEnded(streams[i]) /\ streams[i].text # <<>> => EndsLine(Last(streams[i].text))
WaitingHold ==
  \A i \in 1 .. Len(streams) - 1 : HasEnded(streams[i]) => streams[i].text # <<>>
TopEnds ==
  HasEnded(top) /\ top.text = <<>> =>
    /\ unread # <<>> => EndsLine(Last(unread))
    /\ token.kind \in {"reference", "include"} => unread # <<>>
AllRead == streams[1].text = <<>> /\ (isEof => unread = <<>>)
LeftInv == ~ Stopped => EndsKept /\ WaitingHold /\ TopEnds /\ AllRead

-----------------------------------------------------------------------------
(* Parts of a text. *)
LEMMA PrefixProperties ==
  ASSUME NEW S, NEW s \in Seq(S), NEW n \in 0 .. Len(s)
  PROVE  /\ SubSeq(s, 1, n) \in Seq(S) /\ Len(SubSeq(s, 1, n)) = n
         /\ \A i \in 1 .. n : SubSeq(s, 1, n)[i] = s[i]
OBVIOUS

LEMMA SuffixProperties ==
  ASSUME NEW S, NEW s \in Seq(S), NEW n \in 1 .. Len(s)
  PROVE  /\ SubSeq(s, n + 1, Len(s)) \in Seq(S)
         /\ SubSeq(s, n + 1, Len(s)) # <<>> =>
              Last(SubSeq(s, n + 1, Len(s))) = Last(s)
         /\ SubSeq(s, n + 1, Len(s)) = <<>> => n = Len(s)
<1>1. Len(s) \in Nat /\ n \in Nat /\ n <= Len(s)
  OBVIOUS
<1>2. SubSeq(s, n + 1, Len(s)) \in Seq(S) /\ Len(SubSeq(s, n + 1, Len(s))) = Len(s) - n
  BY <1>1
<1>3. \A i \in 1 .. Len(s) - n : SubSeq(s, n + 1, Len(s))[i] = s[n + i]
  BY <1>1
<1> DEFINE rest == SubSeq(s, n + 1, Len(s))
<1> HIDE DEF rest
<1>4. rest \in Seq(S) /\ Len(rest) = Len(s) - n
      /\ \A i \in 1 .. Len(s) - n : rest[i] = s[n + i]
  BY <1>2, <1>3 DEF rest
<1>5. ASSUME rest # <<>> PROVE Last(rest) = Last(s)
  <2>1. Len(s) - n \in 1 .. Len(s) - n
    BY <1>1, <1>4, <1>5
  <2>2. rest[Len(s) - n] = s[n + (Len(s) - n)] /\ n + (Len(s) - n) = Len(s)
    BY <1>1, <1>4, <2>1
  <2> QED
    BY <1>4, <2>2 DEF Last
<1>6. rest = <<>> => n = Len(s)
  BY <1>1, <1>4
<1> QED
  BY <1>4, <1>5, <1>6 DEF rest

LEMMA ConcatLast ==
  ASSUME NEW S, NEW s \in Seq(S), NEW t \in Seq(S)
  PROVE  /\ s \o t \in Seq(S) /\ (s \o t = <<>> => s = <<>> /\ t = <<>>)
         /\ t # <<>> => Last(s \o t) = Last(t)
         /\ t = <<>> => s \o t = s
<1>1. Len(s \o t) = Len(s) + Len(t) /\ s \o t \in Seq(S) /\ Len(s) \in Nat /\ Len(t) \in Nat
  OBVIOUS
<1>2. ASSUME t # <<>> PROVE Last(s \o t) = Last(t)
  <2>1. Len(t) \in 1 .. Len(t)
    BY <1>1, <1>2
  <2>2. (s \o t)[Len(s) + Len(t)] = t[Len(t)]
    BY <1>1, <2>1
  <2> QED
    BY <1>1, <2>2 DEF Last
<1> QED
  BY <1>1, <1>2

LEMMA Singleton ==
  ASSUME NEW S, NEW i \in S
  PROVE  <<i>> \in Seq(S) /\ <<i>> # <<>> /\ Last(<<i>>) = i
BY DEF Last

LEMMA NewText ==
  ASSUME NEW s \in StreamSet, NEW t \in Seq(Pieces)
  PROVE  /\ [s EXCEPT !.text = t] \in StreamSet
         /\ [s EXCEPT !.text = t].text = t
         /\ [s EXCEPT !.text = t].eof = s.eof /\ [s EXCEPT !.text = t].file = s.file
         /\ [s EXCEPT !.text = t].term = s.term /\ [s EXCEPT !.text = t].fl = s.fl
BY DEF StreamSet

(* What becomes of the stack: streams are popped down to the k-th, which   *)
(* is now s.                                                               *)
LEMMA FilledShape ==
  ASSUME StreamsKind, NEW k \in 1 .. Len(streams), NEW s \in StreamSet,
         NEW got \in Seq(Pieces), Filled(k, s, got)
  PROVE  /\ streams' \in Seq(StreamSet) /\ Len(streams') = k
         /\ \A i \in 1 .. k - 1 : streams'[i] = streams[i]
         /\ streams'[k] = s
         /\ unread' = unread \o got /\ unread' \in Seq(Pieces)
         /\ depth' = depth - (Len(streams) - k)
         /\ token' = token /\ errs' = errs
<1> DEFINE below == SubSeq(streams, 1, k - 1)
<1>1. streams \in Seq(StreamSet) /\ Len(streams) \in Nat /\ k - 1 \in 0 .. Len(streams)
  BY DEF StreamsKind
<1>2. /\ below \in Seq(StreamSet) /\ Len(below) = k - 1
      /\ \A i \in 1 .. k - 1 : below[i] = streams[i]
  BY <1>1, PrefixProperties
<1>3. /\ streams' = Append(below, s) /\ unread' = unread \o got
      /\ depth' = depth - (Len(streams) - k) /\ token' = token /\ errs' = errs
  BY DEF Filled
<1> HIDE DEF below
<1>4. /\ streams' \in Seq(StreamSet) /\ Len(streams') = k /\ streams'[k] = s
      /\ \A i \in 1 .. k - 1 : streams'[i] = below[i]
  BY <1>2, <1>3
<1> QED
  BY <1>2, <1>3, <1>4 DEF StreamsKind

(* A stream is pushed; what flex had read waits in the one below.          *)
Saved(s) == [s EXCEPT !.text = unread \o @]
LEMMA SwitchedShape ==
  ASSUME StreamsKind, NEW s \in StreamSet, scanSwitchStream(s)
  PROVE  /\ streams' \in Seq(StreamSet) /\ Len(streams') = Len(streams) + 1
         /\ \A i \in 1 .. Len(streams) - 1 : streams'[i] = streams[i]
         /\ streams'[Len(streams)] = Saved(top) /\ Saved(top) \in StreamSet
         /\ streams'[Len(streams) + 1] = s
         /\ unread' = <<>> /\ token' = Newline /\ depth' = depth + 1 /\ errs' = errs
<1> DEFINE below == SubSeq(streams, 1, Len(streams) - 1)
<1>1. /\ streams \in Seq(StreamSet) /\ Len(streams) \in Nat /\ Len(streams) >= 1
      /\ top \in StreamSet
  BY DEF StreamsKind, top, Last
<1>2. /\ below \in Seq(StreamSet) /\ Len(below) = Len(streams) - 1
      /\ \A i \in 1 .. Len(streams) - 1 : below[i] = streams[i]
  <2>1. Len(streams) - 1 \in 0 .. Len(streams)
    BY <1>1
  <2> QED
    BY <1>1, <2>1, PrefixProperties
<1>3. Saved(top) \in StreamSet
  <2>1. top.text \in Seq(Pieces)
    BY <1>1 DEF StreamSet
  <2>2. unread \o top.text \in Seq(Pieces)
    BY <2>1, ConcatLast DEF StreamsKind
  <2> QED
    BY <1>1, <2>2, NewText DEF Saved
<1>4. /\ streams' = Append(Append(below, Saved(top)), s)
      /\ unread' = <<>> /\ token' = Newline /\ depth' = depth + 1 /\ errs' = errs
  BY DEF scanSwitchStream, Saved, Front
<1> HIDE DEF below
<1>5. /\ Append(below, Saved(top)) \in Seq(StreamSet)
      /\ Len(Append(below, Saved(top))) = Len(streams)
      /\ Append(below, Saved(top))[Len(streams)] = Saved(top)
      /\ \A i \in 1 .. Len(streams) - 1 : Append(below, Saved(top))[i] = below[i]
  BY <1>1, <1>2, <1>3
<1> DEFINE lower == Append(below, Saved(top))
<1>6. streams' = Append(lower, s)
  BY <1>4
<1>7. /\ lower \in Seq(StreamSet) /\ Len(lower) = Len(streams)
      /\ lower[Len(streams)] = Saved(top)
      /\ \A i \in 1 .. Len(streams) - 1 : lower[i] = streams[i]
  BY <1>2, <1>5
<1> HIDE DEF lower
<1>8. /\ streams' \in Seq(StreamSet) /\ Len(streams') = Len(streams) + 1
      /\ streams'[Len(streams) + 1] = s
      /\ \A i \in 1 .. Len(streams) : streams'[i] = lower[i]
  BY <1>1, <1>6, <1>7
<1> QED
  BY <1>1, <1>3, <1>4, <1>7, <1>8

LEMMA FakedShape ==
  ASSUME StreamsKind, NEW more \in Seq(Pieces), FakeEof(more)
  PROVE  /\ streams' \in Seq(StreamSet) /\ Len(streams') = Len(streams)
         /\ \A i \in 1 .. Len(streams) - 1 : streams'[i] = streams[i]
         /\ streams'[Len(streams)] = [top EXCEPT !.eof = TRUE, !.text = @ \o more]
         /\ token' = Newline /\ errs' = TRUE /\ UNCHANGED <<depth, unread>>
<1> DEFINE below == SubSeq(streams, 1, Len(streams) - 1)
           faked == [top EXCEPT !.eof = TRUE, !.text = @ \o more]
<1>1. /\ streams \in Seq(StreamSet) /\ Len(streams) \in Nat /\ Len(streams) >= 1
      /\ top \in StreamSet
  BY DEF StreamsKind, top, Last
<1>2. /\ below \in Seq(StreamSet) /\ Len(below) = Len(streams) - 1
      /\ \A i \in 1 .. Len(streams) - 1 : below[i] = streams[i]
  <2>1. Len(streams) - 1 \in 0 .. Len(streams)
    BY <1>1
  <2> QED
    BY <1>1, <2>1, PrefixProperties
<1>3. faked \in StreamSet
  <2>1. top.text \in Seq(Pieces)
    BY <1>1 DEF StreamSet
  <2>2. top.text \o more \in Seq(Pieces)
    BY <2>1, ConcatLast
  <2>3. [top EXCEPT !.eof = TRUE] \in StreamSet
    BY <1>1 DEF StreamSet
  <2>4. [[top EXCEPT !.eof = TRUE] EXCEPT !.text = top.text \o more] \in StreamSet
    BY <2>2, <2>3, NewText
  <2> QED
    BY <2>4
<1>4. /\ streams' = Append(below, faked)
      /\ token' = Newline /\ errs' = TRUE /\ UNCHANGED <<depth, unread>>
  BY DEF FakeEof, Front
<1> HIDE DEF below, faked
<1> QED
  BY <1>1, <1>2, <1>3, <1>4 DEF faked

LEMMA ItemKinds ==
  /\ Newline \in Pieces /\ EndsLine(Newline)
  /\ \A fl \in Files \cup {NoFile} :
       /\ Leave(fl) \in Pieces /\ EndsLine(Leave(fl))
       /\ Enter(fl) \in Pieces /\ EndsLine(Enter(fl))
  /\ \A i \in Pieces : EndsLine(i) => i.kind \notin {"reference", "include"}
<1> DEFINE Kept(kind) == \A fl \in Files \cup {NoFile} : Item(kind, fl) \in Pieces
<1>0. Kept("newline") /\ Kept("leave") /\ Kept("enter")
  <2>1. Kept("newline")
    BY LettersAssumption DEF Item, Items, Kinds, Marks, Pieces
  <2>2. Kept("leave")
    BY LettersAssumption DEF Item, Items, Kinds, Marks, Pieces
  <2>3. Kept("enter")
    BY LettersAssumption DEF Item, Items, Kinds, Marks, Pieces
  <2> QED
    BY <2>1, <2>2, <2>3
<1>1. Newline \in Pieces /\ EndsLine(Newline)
  <2>1. EndsLine(Newline)
    BY DEF Newline, Item, EndsLine
  <2> QED
    BY <1>0, <2>1 DEF Newline
<1>2. ASSUME NEW fl \in Files \cup {NoFile}
      PROVE  /\ Leave(fl) \in Pieces /\ EndsLine(Leave(fl))
             /\ Enter(fl) \in Pieces /\ EndsLine(Enter(fl))
  <2>1. EndsLine(Leave(fl)) /\ EndsLine(Enter(fl))
    BY DEF Leave, Enter, Item, EndsLine
  <2> QED
    BY <1>0, <2>1 DEF Leave, Enter
<1>3. ASSUME NEW i \in Pieces, EndsLine(i)
      PROVE  i.kind \notin {"reference", "include"}
  BY <1>3 DEF EndsLine
<1> QED
  BY <1>1, <1>2, <1>3

(* Texts hold characters only. *)
LEMMA TextsArePieces ==
  /\ \A f \in Files : Content[f] \in Seq(Pieces)
  /\ \A s \in Bodies : s \in Seq(Pieces)
<1>1. Chars \subseteq Pieces
  BY DEF Chars, Pieces, Marks
<1>2. ASSUME NEW s \in Seq(Chars) PROVE s \in Seq(Pieces)
  BY <1>1
<1> QED
  BY <1>2, TextAssumption

LEMMA StreamParts ==
  ASSUME StreamsKind
  PROVE  /\ Len(streams) \in Nat \ {0} /\ top = streams[Len(streams)]
         /\ \A i \in 1 .. Len(streams) :
              /\ streams[i] \in StreamSet /\ streams[i].text \in Seq(Pieces)
              /\ streams[i].fl \in Files \cup {NoFile} /\ streams[i].term \in 0 .. 3
              /\ streams[i].eof \in BOOLEAN /\ streams[i].file \in BOOLEAN
<1>1. Len(streams) \in Nat \ {0} /\ \A i \in 1 .. Len(streams) : streams[i] \in StreamSet
  BY DEF StreamsKind
<1> QED
  BY <1>1 DEF top, Last, StreamSet

LEMMA AboveOne ==
  ASSUME NEW n \in Nat \ {0}, n # 1
  PROVE  1 \in 1 .. n - 1 /\ n \in 2 .. n
OBVIOUS

LEMMA MinOfTwo ==
  ASSUME NEW a \in Nat \ {0}, NEW b \in Nat \ {0}
  PROVE  Min({a, b}) \in 1 .. b
<1>1. \E x \in {a, b} : \A y \in {a, b} : x <= y
  <2>1. CASE a <= b
    BY <2>1
  <2>2. CASE ~ (a <= b)
    BY <2>2
  <2> QED
    BY <2>1, <2>2
<1>2. Min({a, b}) \in {a, b} /\ \A y \in {a, b} : Min({a, b}) <= y
  BY <1>1 DEF Min
<1> QED
  BY <1>2

-----------------------------------------------------------------------------
(* The stack of streams. *)
LEMMA FilledStack ==
  ASSUME StackInv, NEW k \in 1 .. Len(streams), NEW s \in StreamSet,
         NEW got \in Seq(Pieces), Filled(k, s, got),
         s.eof = streams[k].eof, s.file = streams[k].file,
         k = 1 \/ s.fl = streams[k].fl, ~ isEof
  PROVE  StackInv'
<1>1. /\ streams' \in Seq(StreamSet) /\ Len(streams') = k
      /\ \A i \in 1 .. k - 1 : streams'[i] = streams[i]
      /\ streams'[k] = s /\ unread' \in Seq(Pieces)
      /\ depth' = depth - (Len(streams) - k) /\ token' = token /\ errs' = errs
  BY FilledShape DEF StackInv
<1>2. Len(streams) \in Nat \ {0} /\ k \in Nat \ {0} /\ k <= Len(streams)
  BY StreamParts DEF StackInv
<1>3. \A i \in 1 .. k : streams'[i].eof = streams[i].eof /\ streams'[i].file = streams[i].file
  BY <1>1, <1>2
<1>4. EofIsEntryZero'
  <2>1. /\ 1 \in 1 .. k /\ (k > 1 => 2 \in 1 .. k /\ Len(streams) > 1)
        /\ \A i \in 2 .. k : i \in 1 .. k /\ i \in 2 .. Len(streams)
    BY <1>2
  <2>2. EofIsEntryZero
    BY DEF StackInv
  <2> QED
    BY <1>1, <1>3, <2>1, <2>2 DEF EofIsEntryZero
<1>5. StreamsKind'
  BY <1>1, <1>2 DEF StreamsKind, StackInv, DepthIsSize
<1>6. \A i \in 2 .. Len(streams) : ~ streams[i].eof
  <2>1. \A i \in 2 .. Len(streams) : streams[i].eof => i = Len(streams)
    BY DEF StackInv, TopStops
  <2> QED
    BY <2>1, StreamParts DEF StackInv, isEof
<1>7. \A i \in 2 .. k : i \in 1 .. k /\ i \in 2 .. Len(streams) /\ i - 1 \in 1 .. k - 1
  BY <1>2
<1>8. TopStops'
  BY <1>1, <1>3, <1>6, <1>7 DEF TopStops
<1>9. FileKept'
  <2>1. \A i \in 2 .. k : streams'[i].fl = streams[i].fl
    BY <1>1, <1>2, <1>7
  <2> QED
    BY <1>1, <1>3, <1>7, <2>1 DEF FileKept, StackInv
<1> QED
  BY <1>1, <1>2, <1>4, <1>5, <1>8, <1>9 DEF StackInv, DepthIsSize

LEMMA SwitchedStack ==
  ASSUME StackInv, NEW s \in StreamSet, scanSwitchStream(s),
         ~ s.eof, Len(streams) = 1 => s.file, s.file \/ s.fl = top.fl,
         ~ (depth > RecursionMax)
  PROVE  StackInv'
<1>1. /\ streams' \in Seq(StreamSet) /\ Len(streams') = Len(streams) + 1
      /\ \A i \in 1 .. Len(streams) - 1 : streams'[i] = streams[i]
      /\ streams'[Len(streams)] = Saved(top)
      /\ streams'[Len(streams) + 1] = s
      /\ unread' = <<>> /\ token' = Newline /\ depth' = depth + 1 /\ errs' = errs
  BY SwitchedShape DEF StackInv
<1>2. Len(streams) \in Nat \ {0} /\ top = streams[Len(streams)] /\ top \in StreamSet
  BY StreamParts DEF StackInv
<1>3. Saved(top).eof = top.eof /\ Saved(top).file = top.file /\ Saved(top).fl = top.fl
  BY <1>2 DEF Saved, StreamSet
<1>4. \A i \in 1 .. Len(streams) :
        /\ streams'[i].eof = streams[i].eof /\ streams'[i].file = streams[i].file
        /\ streams'[i].fl = streams[i].fl
  BY <1>1, <1>2, <1>3
<1>5. EofIsEntryZero'
  <2> DEFINE n == Len(streams)
  <2>1. /\ 1 \in 1 .. n /\ (n > 1 => 2 \in 1 .. n)
        /\ \A i \in 2 .. n + 1 : i \in 2 .. n \/ i = n + 1
        /\ \A i \in 2 .. n : i \in 1 .. n
    BY <1>2
  <2>2. n = 1 => streams'[2].file
    BY <1>1
  <2>3. EofIsEntryZero
    BY DEF StackInv
  <2>4. streams'[1].eof /\ ~ streams'[1].file
    BY <1>4, <2>1, <2>3 DEF EofIsEntryZero
  <2>5. streams'[2].file
    <3>1. n = 1 \/ n > 1
      <4>1. n \in Nat /\ n # 0
        BY <1>2
      <4> HIDE DEF n
      <4> QED
        BY <4>1
    <3>2. CASE n > 1
      BY <1>4, <2>1, <2>3, <3>2 DEF EofIsEntryZero
    <3> QED
      BY <2>2, <3>1, <3>2
  <2>6. \A i \in 2 .. n + 1 : streams'[i].eof => errs'
    BY <1>1, <1>4, <2>1, <2>3 DEF EofIsEntryZero
  <2> QED
    BY <1>1, <2>4, <2>5, <2>6 DEF EofIsEntryZero
<1>6. StreamsKind'
  BY <1>1, <1>2, ItemKinds DEF StreamsKind, StackInv
<1>7. \A i \in 2 .. Len(streams) + 1 :
        \/ i \in 2 .. Len(streams) /\ i \in 1 .. Len(streams) /\ i - 1 \in 1 .. Len(streams)
        \/ i = Len(streams) + 1 /\ i - 1 = Len(streams) /\ i - 1 \in 1 .. Len(streams)
  BY <1>2
<1>8. TopStops'
  <2>1. \A i \in 2 .. Len(streams) : ~ streams[i].eof
    BY DEF StackInv, TopStops
  <2>2. \A i \in 2 .. Len(streams) + 1 : ~ streams'[i].eof
    BY <1>1, <1>4, <1>7, <2>1
  <2> QED
    BY <1>1, <2>2 DEF TopStops
<1>9. FileKept'
  <2>1. ASSUME NEW i \in 2 .. Len(streams) + 1, ~ streams'[i].file
        PROVE  streams'[i].fl = streams'[i - 1].fl
    <3>1. CASE i = Len(streams) + 1
      BY <1>1, <1>2, <1>4, <1>7, <2>1, <3>1
    <3>2. CASE i # Len(streams) + 1
      BY <1>4, <1>7, <2>1, <3>2 DEF StackInv, FileKept
    <3> QED
      BY <3>1, <3>2
  <2> QED
    BY <1>1, <2>1 DEF FileKept
<1> QED
  BY <1>1, <1>2, <1>5, <1>6, <1>8, <1>9 DEF StackInv, DepthIsSize

LEMMA FakedStack ==
  ASSUME StackInv, NEW more \in Seq(Pieces), FakeEof(more), depth > RecursionMax
  PROVE  StackInv' /\ Stopped'
<1> DEFINE faked == [top EXCEPT !.eof = TRUE, !.text = @ \o more]
<1>1. /\ streams' \in Seq(StreamSet) /\ Len(streams') = Len(streams)
      /\ \A i \in 1 .. Len(streams) - 1 : streams'[i] = streams[i]
      /\ streams'[Len(streams)] = faked
      /\ token' = Newline /\ errs' = TRUE /\ UNCHANGED <<depth, unread>>
  BY FakedShape DEF StackInv
<1>2. Len(streams) \in Nat \ {0} /\ top = streams[Len(streams)] /\ top \in StreamSet
  BY StreamParts DEF StackInv
<1>3. faked.eof = TRUE /\ faked.file = top.file /\ faked.fl = top.fl
  BY <1>2 DEF StreamSet
<1> HIDE DEF faked
<1>4. \A i \in 1 .. Len(streams) :
        /\ streams[i].eof => streams'[i].eof
        /\ streams'[i].file = streams[i].file /\ streams'[i].fl = streams[i].fl
        /\ i # Len(streams) => streams'[i].eof = streams[i].eof
  BY <1>1, <1>2, <1>3
<1>5. EofIsEntryZero'
  BY <1>1, <1>2, <1>4 DEF EofIsEntryZero, StackInv
<1>6. StreamsKind'
  BY <1>1, <1>2, ItemKinds DEF StreamsKind, StackInv
<1>7. \A i \in 2 .. Len(streams) :
        i \in 1 .. Len(streams) /\ i - 1 \in 1 .. Len(streams)
  BY <1>2
<1>8. TopStops'
  BY <1>1, <1>4, <1>7 DEF TopStops, StackInv
<1>9. FileKept'
  BY <1>1, <1>4, <1>7 DEF FileKept, StackInv
<1>10. Stopped'
  BY <1>1, <1>3 DEF Stopped, isEof, top, Last
<1> QED
  BY <1>1, <1>5, <1>6, <1>8, <1>9, <1>10 DEF StackInv, DepthIsSize
-----------------------------------------------------------------------------
(* The text that is left. *)

(* What the k-th stream, which is on top afterwards, must satisfy for a    *)
(* refill to leave nothing behind.                                         *)
LEMMA FilledLeft ==
  ASSUME StackInv, EndsKept, WaitingHold, AllRead,
         NEW k \in 1 .. Len(streams), NEW s \in StreamSet,
         NEW got \in Seq(Pieces), Filled(k, s, got),
         k > 1 \/ s.text = <<>>,
         HasEnded(s) /\ s.text # <<>> => EndsLine(Last(s.text)),
         s.eof => unread \o got = <<>>,
         HasEnded(s) /\ s.text = <<>> =>
           /\ unread \o got # <<>> => EndsLine(Last(unread \o got))
           /\ token.kind \in {"reference", "include"} => unread \o got # <<>>
  PROVE  LeftInv'
<1>1. /\ streams' \in Seq(StreamSet) /\ Len(streams') = k
      /\ \A i \in 1 .. k - 1 : streams'[i] = streams[i]
      /\ streams'[k] = s /\ unread' = unread \o got
      /\ token' = token /\ errs' = errs
  BY FilledShape DEF StackInv
<1>2. Len(streams) \in Nat \ {0} /\ k \in Nat \ {0} /\ k <= Len(streams)
  BY StreamParts DEF StackInv
<1>3. top' = s
  BY <1>1 DEF top, Last
<1>4. \A i \in 1 .. k : i = k \/ (i \in 1 .. k - 1 /\ i \in 1 .. Len(streams) - 1)
  BY <1>2
<1>5. EndsKept'
  BY <1>1, <1>2, <1>4 DEF EndsKept
<1>6. WaitingHold'
  BY <1>1, <1>2, <1>4 DEF WaitingHold
<1>7. TopEnds'
  BY <1>1, <1>3 DEF TopEnds
<1>8. streams'[1].text = <<>>
  <2>1. k = 1 \/ 1 \in 1 .. k - 1
    BY <1>2
  <2> QED
    BY <1>1, <2>1 DEF AllRead
<1>9. AllRead'
  BY <1>1, <1>3, <1>8 DEF AllRead, isEof
<1> QED
  BY <1>5, <1>6, <1>7, <1>9 DEF LeftInv

(* As long as there is something to read, none is stopped. *)
LEMMA NoneStopped ==
  ASSUME StackInv, ~ isEof
  PROVE  \A i \in 2 .. Len(streams) : ~ streams[i].eof
<1>1. \A i \in 2 .. Len(streams) : streams[i].eof => i = Len(streams)
  BY DEF StackInv, TopStops
<1> QED
  BY <1>1, StreamParts DEF StackInv, isEof

LEMMA FillTextKeeps ==
  ASSUME StackInv, LeftInv, NEW k \in 1 .. Len(streams), FillText(k)
  PROVE  StackInv' /\ LeftInv'
<1> DEFINE s == streams[k]
           n == Min({MaxRead, Len(s.text)})
           new == [s EXCEPT !.text = SubSeq(s.text, n + 1, Len(s.text))]
           got == SubSeq(s.text, 1, n)
<1>1. AsksForMore /\ Reaches(k) /\ s.text # <<>> /\ Filled(k, new, got)
  BY DEF FillText
<1>2. s \in StreamSet /\ s.text \in Seq(Pieces) /\ k \in Nat \ {0}
  BY StreamParts DEF StackInv
<1>3. n \in 1 .. Len(s.text)
  <2>1. Len(s.text) \in Nat \ {0} /\ MaxRead \in Nat \ {0}
    BY <1>1, <1>2, StreamsAssumption
  <2> QED
    BY <2>1, MinOfTwo
<1> HIDE DEF n
<1>4. /\ SubSeq(s.text, n + 1, Len(s.text)) \in Seq(Pieces)
      /\ SubSeq(s.text, n + 1, Len(s.text)) # <<>> =>
           Last(SubSeq(s.text, n + 1, Len(s.text))) = Last(s.text)
      /\ SubSeq(s.text, n + 1, Len(s.text)) = <<>> => n = Len(s.text)
  BY <1>2, <1>3, SuffixProperties
<1>5. /\ got \in Seq(Pieces) /\ Len(got) = n /\ got # <<>>
      /\ n = Len(s.text) => Last(got) = Last(s.text)
  <2>1. n \in 0 .. Len(s.text) /\ n \in 1 .. n /\ n \in Nat /\ n # 0
    BY <1>2, <1>3
  <2>2. got \in Seq(Pieces) /\ Len(got) = n /\ \A i \in 1 .. n : got[i] = s.text[i]
    BY <1>2, <2>1, PrefixProperties
  <2> HIDE DEF got
  <2> QED
    BY <2>1, <2>2 DEF Last
<1>6. /\ new \in StreamSet /\ new.text = SubSeq(s.text, n + 1, Len(s.text))
      /\ new.eof = s.eof /\ new.file = s.file /\ new.term = s.term /\ new.fl = s.fl
  BY <1>2, <1>4, NewText
<1> HIDE DEF new, got
<1>7. StackInv'
  BY <1>1, <1>5, <1>6, FilledStack DEF AsksForMore
<1>8. LeftInv'
  <2>1. EndsKept /\ WaitingHold /\ AllRead /\ unread \in Seq(Pieces)
    BY <1>1 DEF LeftInv, StackInv, StreamsKind, Stopped, AsksForMore
  <2>2. k > 1 /\ ~ s.eof
    <3>1. k # 1
      BY <1>1, <2>1 DEF AllRead
    <3>2. k \in 2 .. Len(streams)
      BY <1>2, <3>1
    <3> QED
      BY <1>1, <3>2, NoneStopped DEF AsksForMore
  <2>3. HasEnded(new) => EndsLine(Last(s.text))
    BY <1>1, <1>6, <2>1 DEF EndsKept, HasEnded
  <2>4. unread \o got # <<>> /\ Last(unread \o got) = Last(got)
    BY <1>5, <2>1, ConcatLast
  <2>5. new.text = <<>> => Last(unread \o got) = Last(s.text)
    BY <1>4, <1>5, <1>6, <2>4
  <2>6. new.text # <<>> => Last(new.text) = Last(s.text)
    BY <1>4, <1>6
  <2> QED
    BY <1>1, <1>5, <1>6, <2>1, <2>2, <2>3, <2>4, <2>5, <2>6, FilledLeft
<1> QED
  BY <1>7, <1>8

(* A file that is not on top and has begun to end still holds text: only   *)
(* the one on top can end.                                                 *)
LEMMA EndingIsOnTop ==
  ASSUME StackInv, LeftInv, AsksForMore, NEW k \in 1 .. Len(streams),
         HasEnded(streams[k]), streams[k].text = <<>>
  PROVE  /\ k = Len(streams) /\ unread = <<>>
         /\ token.kind \notin {"reference", "include"}
<1>0. WaitingHold /\ TopEnds
  BY DEF LeftInv, Stopped, AsksForMore
<1>1. Len(streams) \in Nat \ {0} /\ top = streams[Len(streams)] /\ k \in Nat
  BY StreamParts DEF StackInv
<1>2. k = Len(streams)
  <2>1. k \notin 1 .. Len(streams) - 1
    BY <1>0 DEF WaitingHold
  <2> QED
    BY <1>1, <2>1
<1>3. unread # <<>> => EndsLine(Last(unread))
  BY <1>0, <1>1, <1>2 DEF TopEnds
<1>4. unread = <<>>
  <2>1. unread \in Seq(Pieces)
    BY DEF StackInv, StreamsKind
  <2>2. unread # <<>> => Len(unread) \in 1 .. Len(unread)
    BY <2>1
  <2> QED
    BY <1>3, <2>2 DEF AsksForMore, Last
<1> QED
  BY <1>0, <1>1, <1>2, <1>4 DEF TopEnds

(* Only a stream above the EOF stream is a file. *)
LEMMA FilesLieAbove ==
  ASSUME StackInv, NEW k \in 1 .. Len(streams), streams[k].file
  PROVE  k \in 2 .. Len(streams) /\ (~ isEof => ~ streams[k].eof)
<1>1. k \in Nat \ {0} /\ Len(streams) \in Nat /\ k # 1
  BY StreamParts DEF StackInv, EofIsEntryZero
<1>2. k \in 2 .. Len(streams)
  BY <1>1
<1> QED
  BY <1>2, NoneStopped

LEMMA FillEndingKeeps ==
  ASSUME StackInv, LeftInv, NEW k \in 1 .. Len(streams), FillEnding(k)
  PROVE  StackInv' /\ LeftInv'
<1> DEFINE s == streams[k]
           new == [s EXCEPT !.term = s.term + 1]
           got == Said(s)
<1>1. AsksForMore /\ s.file /\ s.text = <<>> /\ s.term < 3 /\ Filled(k, new, got)
  BY DEF FillEnding
<1>2. s \in StreamSet /\ s.term \in 0 .. 3 /\ s.fl \in Files \cup {NoFile}
  BY StreamParts DEF StackInv
<1>3. /\ new \in StreamSet /\ new.text = s.text
      /\ new.eof = s.eof /\ new.file = s.file /\ new.fl = s.fl
  <2>1. s.term + 1 \in 0 .. 3
    BY <1>1, <1>2
  <2> QED
    BY <1>2, <2>1 DEF StreamSet
<1>4. /\ s.term = 1 => got = <<>>
      /\ s.term # 1 => \E i \in Pieces : EndsLine(i) /\ got = <<i>>
  <2>1. CASE s.term = 0
    BY <2>1, ItemKinds DEF Said
  <2>2. CASE s.term = 2
    BY <1>2, <2>2, ItemKinds DEF Said
  <2>3. CASE s.term = 1
    BY <2>3 DEF Said
  <2> QED
    BY <1>1, <1>2, <2>1, <2>2, <2>3
<1> HIDE DEF got
<1>5. got \in Seq(Pieces)
  <2>1. CASE s.term # 1
    <3>1. PICK i \in Pieces : got = <<i>>
      BY <1>4, <2>1
    <3> QED
      BY <3>1, Singleton
  <2>2. CASE s.term = 1
    BY <1>4, <2>2
  <2> QED
    BY <2>1, <2>2
<1> HIDE DEF new
<1>6. StackInv'
  BY <1>1, <1>3, <1>5, FilledStack DEF AsksForMore
<1>7. LeftInv'
  <2>1. EndsKept /\ WaitingHold /\ AllRead /\ unread \in Seq(Pieces) /\ ~ s.eof
    BY <1>1, FilesLieAbove DEF LeftInv, StackInv, StreamsKind, Stopped, AsksForMore
  <2>2. /\ unread \o got # <<>> => EndsLine(Last(unread \o got))
        /\ token.kind \in {"reference", "include"} => unread \o got # <<>>
    <3>1. CASE s.term = 1
      <4>1. HasEnded(s)
        BY <1>1, <3>1 DEF HasEnded
      <4>2. unread = <<>> /\ token.kind \notin {"reference", "include"}
        BY <1>1, <4>1, EndingIsOnTop
      <4> QED
        BY <1>4, <3>1, <4>2
    <3>2. CASE s.term # 1
      <4>1. PICK i \in Pieces : EndsLine(i) /\ got = <<i>>
        BY <1>4, <3>2
      <4>2. got # <<>> /\ Last(got) = i
        BY <4>1, Singleton
      <4>3. unread \o got # <<>> /\ Last(unread \o got) = i
        BY <1>5, <2>1, <4>2, ConcatLast
      <4> QED
        BY <4>1, <4>3
    <3> QED
      BY <3>1, <3>2
  <2> QED
    <3>1. k > 1
      BY <1>1, <1>2, FilesLieAbove
    <3> QED
      BY <1>1, <1>3, <1>5, <2>1, <2>2, <3>1, FilledLeft
<1> QED
  BY <1>6, <1>7

LEMMA FillResumeKeeps ==
  ASSUME StackInv, LeftInv, NEW k \in 1 .. Len(streams), FillResume(k)
  PROVE  StackInv' /\ LeftInv'
<1> DEFINE s == streams[k]
           below == streams[k - 1]
           new == IF below.eof THEN [below EXCEPT !.fl = s.fl] ELSE below
           got == IF below.eof THEN <<>> ELSE <<Enter(below.fl)>>
<1>1. AsksForMore /\ s.file /\ s.text = <<>> /\ s.term = 3 /\ Filled(k - 1, new, got)
  BY DEF FillResume
<1>2. /\ k \in 2 .. Len(streams) /\ k - 1 \in 1 .. Len(streams)
      /\ Len(streams) \in Nat
  <2>1. k \in 2 .. Len(streams) /\ Len(streams) \in Nat
    BY <1>1, FilesLieAbove, StreamParts DEF StackInv
  <2> QED
    BY <2>1
<1>3. s \in StreamSet /\ below \in StreamSet /\ below.fl \in Files \cup {NoFile}
      /\ s.fl \in Files \cup {NoFile} /\ below.text \in Seq(Pieces)
  BY <1>2, StreamParts DEF StackInv
<1>4. /\ new \in StreamSet /\ new.text = below.text /\ new.term = below.term
      /\ new.eof = below.eof /\ new.file = below.file
      /\ ~ below.eof => new.fl = below.fl
  BY <1>3 DEF StreamSet
<1>5. /\ below.eof => got = <<>>
      /\ ~ below.eof => got = <<Enter(below.fl)>>
      /\ Enter(below.fl) \in Pieces /\ EndsLine(Enter(below.fl))
  BY <1>3, ItemKinds
<1>6. got \in Seq(Pieces)
  BY <1>5
<1> HIDE DEF new, got
<1>7. below.eof => k - 1 = 1 /\ ~ below.file
  <2>1. below.eof => k - 1 \notin 2 .. Len(streams)
    BY <1>1, NoneStopped DEF AsksForMore
  <2>2. below.eof => k - 1 = 1
    BY <1>2, <2>1
  <2> QED
    BY <2>2 DEF StackInv, EofIsEntryZero
<1>8. LeftInv'
  <2>1. EndsKept /\ WaitingHold /\ AllRead /\ unread \in Seq(Pieces)
    BY <1>1 DEF LeftInv, StackInv, StreamsKind, Stopped, AsksForMore
  <2>2. HasEnded(s)
    BY <1>1 DEF HasEnded
  <2>3. unread = <<>>
    BY <1>1, <2>2, EndingIsOnTop
  <2>5. k - 1 > 1 \/ new.text = <<>>
    BY <1>2, <1>4, <2>1 DEF AllRead
  <2>6. HasEnded(new) /\ new.text # <<>> => EndsLine(Last(new.text))
    BY <1>2, <1>4, <2>1 DEF EndsKept, HasEnded
  <2>7. new.eof => unread \o got = <<>>
    BY <1>4, <1>5, <2>3
  <2>8. HasEnded(new) => unread \o got # <<>> /\ EndsLine(Last(unread \o got))
    <3>1. SUFFICES ASSUME HasEnded(new)
                   PROVE  unread \o got # <<>> /\ EndsLine(Last(unread \o got))
      OBVIOUS
    <3>2. got # <<>> /\ Last(got) = Enter(below.fl)
      <4>1. got = <<Enter(below.fl)>>
        BY <1>4, <1>5, <1>7, <3>1 DEF HasEnded
      <4> QED
        BY <1>5, <4>1, Singleton
    <3> QED
      BY <1>5, <1>6, <2>1, <3>2, ConcatLast
  <2> QED
    BY <1>1, <1>2, <1>4, <1>6, <2>1, <2>5, <2>6, <2>7, <2>8, FilledLeft
<1>9. StackInv'
  BY <1>1, <1>2, <1>4, <1>6, <1>7, FilledStack DEF AsksForMore
<1> QED
  BY <1>8, <1>9

LEMMA ScanKeeps ==
  ASSUME StackInv, LeftInv, Scan
  PROVE  StackInv' /\ LeftInv'
<1>1. /\ ~ isEof /\ unread # <<>> /\ unread' = Tail(unread) /\ token' = Head(unread)
      /\ streams' = streams /\ depth' = depth /\ errs' = errs
  BY DEF Scan
<1>2. unread \in Seq(Pieces) /\ Len(unread) \in Nat \ {0}
  BY <1>1 DEF StackInv, StreamsKind
<1>3. /\ Tail(unread) \in Seq(Pieces) /\ Head(unread) \in Pieces
      /\ Tail(unread) # <<>> => Last(Tail(unread)) = Last(unread)
      /\ Tail(unread) = <<>> => Head(unread) = Last(unread)
  <2>1. /\ Tail(unread) \in Seq(Pieces) /\ Len(Tail(unread)) = Len(unread) - 1
        /\ \A i \in 1 .. Len(unread) - 1 : Tail(unread)[i] = unread[i + 1]
        /\ Head(unread) = unread[1] /\ Head(unread) \in Pieces
    BY <1>1, <1>2
  <2>2. Tail(unread) = <<>> => Len(unread) = 1
    <3> DEFINE t == Tail(unread)
    <3>1. Len(t) = Len(unread) - 1
      BY <2>1
    <3> HIDE DEF t
    <3>2. t = <<>> => Len(t) = 0
      OBVIOUS
    <3>3. t = <<>> => Len(unread) = 1
      BY <1>2, <3>1, <3>2
    <3> QED
      BY <3>3 DEF t
  <2>3. Tail(unread) # <<>> =>
          Tail(unread)[Len(unread) - 1] = unread[(Len(unread) - 1) + 1]
    <3>1. Tail(unread) # <<>> => Len(unread) - 1 \in 1 .. Len(unread) - 1
      BY <1>2, <2>1
    <3> QED
      BY <2>1, <3>1
  <2>4. (Len(unread) - 1) + 1 = Len(unread)
    BY <1>2
  <2> QED
    BY <2>1, <2>2, <2>3, <2>4 DEF Last
<1>4. StackInv'
  BY <1>1, <1>3 DEF StackInv, StreamsKind, EofIsEntryZero, DepthIsSize, TopStops, FileKept
<1>5. EndsKept' /\ WaitingHold' /\ TopEnds' /\ AllRead'
  <2>1. EndsKept /\ WaitingHold /\ TopEnds /\ AllRead
    BY <1>1 DEF LeftInv, Stopped
  <2>2. EndsKept' /\ WaitingHold' /\ AllRead'
    BY <1>1, <2>1 DEF EndsKept, WaitingHold, AllRead, isEof, top
  <2>3. TopEnds'
    BY <1>1, <1>2, <1>3, <2>1, ItemKinds DEF TopEnds, top
  <2> QED
    BY <2>2, <2>3
<1> QED
  BY <1>1, <1>4, <1>5 DEF LeftInv

(* A stream that is put on another one, or on the EOF stream by the        *)
(* program, has not begun to end; the text it covers is not lost.          *)
LEMMA SwitchedLeft ==
  ASSUME StackInv, LeftInv, NEW s \in StreamSet, scanSwitchStream(s),
         ~ s.eof, s.term = 0, ~ (depth > RecursionMax),
         isEof \/ token.kind \in {"reference", "include"}
  PROVE  LeftInv'
<1>1. /\ streams' \in Seq(StreamSet) /\ Len(streams') = Len(streams) + 1
      /\ \A i \in 1 .. Len(streams) - 1 : streams'[i] = streams[i]
      /\ streams'[Len(streams)] = Saved(top)
      /\ streams'[Len(streams) + 1] = s
      /\ unread' = <<>> /\ token' = Newline /\ depth' = depth + 1 /\ errs' = errs
  BY SwitchedShape DEF StackInv
<1>2. /\ Len(streams) \in Nat \ {0} /\ top = streams[Len(streams)] /\ top \in StreamSet
      /\ top.text \in Seq(Pieces) /\ unread \in Seq(Pieces)
  BY StreamParts DEF StackInv, StreamsKind
<1>3. /\ Saved(top).text = unread \o top.text /\ Saved(top).file = top.file
      /\ Saved(top).term = top.term
  BY <1>2 DEF Saved, StreamSet
<1>4. /\ unread \o top.text = <<>> => unread = <<>> /\ top.text = <<>>
      /\ top.text # <<>> => Last(unread \o top.text) = Last(top.text)
      /\ top.text = <<>> => unread \o top.text = unread
  BY <1>2, ConcatLast
<1>5. SUFFICES EndsKept' /\ WaitingHold' /\ TopEnds' /\ AllRead'
  BY DEF LeftInv
<1>6. EndsKept /\ WaitingHold /\ TopEnds /\ AllRead
  BY DEF LeftInv, Stopped
<1>7. \A i \in 1 .. Len(streams) + 1 :
        i \in 1 .. Len(streams) - 1 \/ i = Len(streams) \/ i = Len(streams) + 1
  BY <1>2
<1>8. ~ HasEnded(s)
  BY DEF HasEnded
<1>9. HasEnded(top) /\ Saved(top).text # <<>> => EndsLine(Last(Saved(top).text))
  <2>1. HasEnded(top) /\ top.text # <<>> => EndsLine(Last(top.text))
    BY <1>2, <1>6 DEF EndsKept
  <2> QED
    BY <1>3, <1>4, <1>6, <2>1 DEF TopEnds
<1>10. HasEnded(top) => Saved(top).text # <<>>
  <2>1. HasEnded(top) => ~ isEof
    <3>1. HasEnded(top) => Len(streams) \in 2 .. Len(streams)
      BY <1>2, FilesLieAbove DEF HasEnded
    <3> QED
      BY <1>2, <3>1 DEF StackInv, TopStops, isEof
  <2> QED
    BY <1>3, <1>4, <1>6, <2>1 DEF TopEnds
<1>11. HasEnded(Saved(top)) = HasEnded(top)
  BY <1>3 DEF HasEnded
<1>12. EndsKept'
  <2>1. \A i \in 1 .. Len(streams) - 1 : i \in 1 .. Len(streams)
    BY <1>2
  <2> QED
    BY <1>1, <1>6, <1>7, <1>8, <1>9, <1>11, <2>1 DEF EndsKept
<1>13. WaitingHold'
  <2>1. Len(streams') - 1 = Len(streams)
    BY <1>1, <1>2
  <2>2. \A i \in 1 .. Len(streams) : i \in 1 .. Len(streams) - 1 \/ i = Len(streams)
    BY <1>2
  <2> QED
    BY <1>1, <1>6, <1>10, <1>11, <2>1, <2>2 DEF WaitingHold
<1>14. top' = s
  BY <1>1 DEF top, Last
<1>15. streams'[1].text = <<>>
  <2>1. CASE Len(streams) = 1
    <3>1. isEof
      BY <1>2, <2>1 DEF StackInv, EofIsEntryZero, isEof
    <3> QED
      BY <1>1, <1>2, <1>3, <1>4, <1>6, <2>1, <3>1 DEF AllRead
  <2>2. CASE Len(streams) # 1
    <3>1. 1 \in 1 .. Len(streams) - 1
      BY <1>2, <2>2, AboveOne
    <3> QED
      BY <1>1, <1>6, <3>1 DEF AllRead
  <2> QED
    BY <2>1, <2>2
<1> QED
  BY <1>8, <1>12, <1>13, <1>14, <1>15 DEF TopEnds, AllRead, isEof

LEMMA NewStream ==
  ASSUME NEW fl \in Files \cup {NoFile}, NEW text \in Seq(Pieces), NEW file \in BOOLEAN
  PROVE  /\ Stream(fl, text, file) \in StreamSet
         /\ ~ Stream(fl, text, file).eof /\ Stream(fl, text, file).term = 0
         /\ Stream(fl, text, file).file = file /\ Stream(fl, text, file).fl = fl
BY DEF Stream, StreamSet

LEMMA UnputKeeps ==
  ASSUME StackInv, LeftInv, NEW s \in Bodies, Unput(s)
  PROVE  StackInv' /\ LeftInv'
<1>1. ~ isEof /\ token.kind = "reference"
  BY DEF Unput
<1>2. s \in Seq(Pieces) /\ <<>> \in Seq(Pieces)
  BY TextsArePieces
<1>3. CASE depth > RecursionMax
  <2>1. FakeEof(<<>>)
    BY <1>3 DEF Unput
  <2> QED
    BY <1>2, <1>3, <2>1, FakedStack DEF LeftInv
<1>4. CASE ~ (depth > RecursionMax)
  <2> DEFINE new == Stream(top.fl, s, FALSE)
  <2>1. scanSwitchStream(new)
    BY <1>4 DEF Unput
  <2>2. Len(streams) # 1 /\ top.fl \in Files \cup {NoFile}
    BY <1>1, StreamParts DEF StackInv, EofIsEntryZero, isEof
  <2>3. new \in StreamSet /\ ~ new.eof /\ new.term = 0 /\ new.fl = top.fl
    BY <1>2, <2>2, NewStream
  <2> HIDE DEF new
  <2> QED
    BY <1>1, <1>4, <2>1, <2>2, <2>3, SwitchedStack, SwitchedLeft
<1> QED
  BY <1>3, <1>4

(* An insertion is refused, with an error. *)
LEMMA RefusedKeeps ==
  ASSUME StackInv, LeftInv, errs' = TRUE, token' = Newline,
         UNCHANGED <<streams, depth, unread>>
  PROVE  StackInv' /\ LeftInv'
<1>1. StackInv'
  BY ItemKinds DEF StackInv, StreamsKind, EofIsEntryZero, DepthIsSize, TopStops, FileKept
<1>2. Stopped' = Stopped /\ top' = top /\ isEof' = isEof
  BY DEF Stopped, top, isEof
<1>3. EndsKept /\ WaitingHold /\ AllRead /\ TopEnds =>
        EndsKept' /\ WaitingHold' /\ AllRead' /\ TopEnds'
  BY <1>2, ItemKinds DEF EndsKept, WaitingHold, AllRead, TopEnds
<1> QED
  BY <1>1, <1>2, <1>3 DEF LeftInv

LEMMA OpenFileKeeps ==
  ASSUME StackInv, LeftInv, NEW f \in Files, OpenFile(f)
  PROVE  StackInv' /\ LeftInv'
<1> DEFINE new == Stream(f, Content[f], TRUE)
<1>1. isEof \/ token.kind = "include"
  BY DEF OpenFile
<1>2. Content[f] \in Seq(Pieces) /\ f \in Files \cup {NoFile}
  BY TextsArePieces
<1>3. CASE errs' = TRUE /\ token' = Newline /\ UNCHANGED <<streams, depth, unread>>
  BY <1>3, RefusedKeeps
<1>4. CASE depth > RecursionMax /\ FakeEof(Content[f])
  BY <1>2, <1>4, FakedStack DEF LeftInv
<1>5. CASE ~ (depth > RecursionMax) /\ scanSwitchStream(new)
  <2>1. new \in StreamSet /\ ~ new.eof /\ new.term = 0 /\ new.file
    BY <1>2, NewStream
  <2> HIDE DEF new
  <2> QED
    BY <1>1, <1>5, <2>1, SwitchedStack, SwitchedLeft
<1> QED
  <2>1. depth <= RecursionMax => ~ (depth > RecursionMax)
    BY StreamsAssumption DEF StackInv, StreamsKind
  <2> QED
    BY <1>3, <1>4, <1>5, <2>1 DEF OpenFile

-----------------------------------------------------------------------------
StreamInv == StackInv /\ LeftInv

LEMMA InitGood == StreamInit => StreamInv
<1> SUFFICES ASSUME StreamInit PROVE StreamInv
  OBVIOUS
<1> DEFINE eofStream == [Stream(NoFile, <<>>, FALSE) EXCEPT !.eof = TRUE]
<1>1. eofStream \in StreamSet /\ eofStream.eof /\ ~ eofStream.file /\ eofStream.text = <<>>
  <2>1. <<>> \in Seq(Pieces)
    OBVIOUS
  <2>2. /\ Stream(NoFile, <<>>, FALSE) \in StreamSet
        /\ ~ Stream(NoFile, <<>>, FALSE).file /\ Stream(NoFile, <<>>, FALSE).text = <<>>
    BY <2>1 DEF Stream, StreamSet
  <2> QED
    BY <2>2 DEF StreamSet
<1>2. /\ streams = <<eofStream>> /\ depth = 1 /\ unread = <<>> /\ token = Newline
      /\ errs = FALSE
  BY DEF StreamInit
<1> HIDE DEF eofStream
<1>3. streams \in Seq(StreamSet) /\ Len(streams) = 1 /\ streams[1] = eofStream
  BY <1>1, <1>2
<1>4. top = eofStream
  BY <1>3 DEF top, Last
<1>5. StackInv
  <2>1. StreamsKind
    <3>1. <<>> \in Seq(Pieces) /\ streams # <<>> /\ depth \in Nat
      BY <1>2, <1>3
    <3> QED
      BY <1>2, <1>3, <3>1, ItemKinds DEF StreamsKind
  <2>2. EofIsEntryZero
    BY <1>1, <1>3 DEF EofIsEntryZero
  <2>3. TopStops /\ FileKept
    BY <1>3 DEF TopStops, FileKept
  <2> QED
    BY <1>2, <1>3, <2>1, <2>2, <2>3 DEF StackInv, DepthIsSize
<1>6. LeftInv
  BY <1>1, <1>2, <1>3, <1>4
     DEF LeftInv, EndsKept, WaitingHold, TopEnds, AllRead, HasEnded
<1> QED
  BY <1>5, <1>6 DEF StreamInv

LEMMA StepGood == StreamInv /\ [StreamNext]_streamVars => StreamInv'
<1> SUFFICES ASSUME StreamInv, [StreamNext]_streamVars PROVE StreamInv'
  OBVIOUS
<1> USE DEF StreamInv
<1>1. ASSUME NEW k \in 1 .. Len(streams), FillText(k) PROVE StreamInv'
  BY <1>1, FillTextKeeps
<1>2. ASSUME NEW k \in 1 .. Len(streams), FillEnding(k) PROVE StreamInv'
  BY <1>2, FillEndingKeeps
<1>3. ASSUME NEW k \in 1 .. Len(streams), FillResume(k) PROVE StreamInv'
  BY <1>3, FillResumeKeeps
<1>4. CASE Scan
  BY <1>4, ScanKeeps
<1>5. ASSUME NEW s \in Bodies, Unput(s) PROVE StreamInv'
  BY <1>5, UnputKeeps
<1>6. ASSUME NEW f \in Files, OpenFile(f) PROVE StreamInv'
  BY <1>6, OpenFileKeeps
<1>7. CASE UNCHANGED streamVars
  BY <1>7 DEF streamVars, StackInv, LeftInv, StreamsKind, EofIsEntryZero, DepthIsSize,
              TopStops, FileKept, Stopped, EndsKept, WaitingHold, TopEnds, AllRead,
              top, isEof
<1> QED
  BY <1>1, <1>2, <1>3, <1>4, <1>5, <1>6, <1>7
     DEF StreamNext, Reading, Inserting, Fill

LEMMA StreamInvAlways == StreamSpec => []StreamInv
  BY InitGood, StepGood, PTL DEF StreamSpec

(* The types of the stack, its count, what flex holds.                     *)
THEOREM StackTyped == StreamSpec => []StreamTypeOK
<1>1. StreamInv => StreamTypeOK
  BY StreamParts DEF StreamInv, StackInv, StreamsKind, StreamTypeOK
<1> QED
  BY <1>1, StreamInvAlways, PTL

(* "EOF is entry 0": the EOF stream is never popped, whatever is opened,   *)
(* inserted and refused.                                                   *)
THEOREM EofKept == StreamSpec => []EofIsEntryZero
<1>1. StreamInv => EofIsEntryZero
  BY DEF StreamInv, StackInv
<1> QED
  BY <1>1, StreamInvAlways, PTL

(* m_streamDepth is the size of the stack after every push and pop.        *)
THEOREM DepthKept == StreamSpec => []DepthIsSize
<1>1. StreamInv => DepthIsSize
  BY DEF StreamInv, StackInv
<1> QED
  BY <1>1, StreamInvAlways, PTL

(* For any files, macro bodies and sizes of refills: the EOF stream is     *)
(* back on top only when no text is left anywhere, unless an error was     *)
(* reported.                                                               *)
THEOREM AllTextRead == StreamSpec => []NothingLeftAtEof
<1>1. StreamInv => NothingLeftAtEof
  <2> SUFFICES ASSUME StreamInv, isEof, ~ errs
               PROVE  unread = <<>> /\ Len(streams) = 1 /\ top.text = <<>>
    BY DEF NothingLeftAtEof
  <2>1. Len(streams) \in Nat \ {0} /\ top = streams[Len(streams)]
    BY StreamParts DEF StreamInv, StackInv
  <2>2. Len(streams) \notin 2 .. Len(streams)
    BY <2>1 DEF StreamInv, StackInv, EofIsEntryZero, isEof
  <2>3. Len(streams) = 1
    BY <2>1, <2>2, AboveOne
  <2> QED
    BY <2>1, <2>3, StreamsAssumption DEF StreamInv, StackInv, DepthIsSize, LeftInv, Stopped, AllRead
<1> QED
  BY <1>1, StreamInvAlways, PTL
-----------------------------------------------------------------------------
(* The text that is left is the pending text. *)

(* Pieces and what streams hold are items; only endings resume a file.     *)
LEMMA PiecesAreItems ==
  \A t \in Seq(Pieces) :
    t \in Seq(Items) /\ \A i \in 1 .. Len(t) : ~ Abs!IsResume(t[i])
<1>1. Pieces \subseteq Items /\ \A i \in Pieces : ~ Abs!IsResume(i)
  BY DEF Pieces, Abs!IsResume
<1> QED
  BY <1>1

LEMMA EndingKinds ==
  ASSUME NEW fl \in Files \cup {NoFile}
  PROVE  /\ Ending(fl) \in Seq(Items) /\ Len(Ending(fl)) = 4
         /\ Ending(fl)[1] = Newline /\ Ending(fl)[2] = FileEnd
         /\ Ending(fl)[3] = Leave(fl)
         /\ \A i \in 1 .. 3 : ~ Abs!IsResume(Ending(fl)[i])
         /\ Abs!IsResume(Ending(fl)[4]) /\ Ending(fl)[4].file = fl
<1>1. /\ Newline \in Items /\ FileEnd \in Items /\ Leave(fl) \in Items
      /\ Resume(fl) \in Items
  BY DEF Newline, FileEnd, Leave, Resume, Item, Items, Kinds, Marks
<1>2. /\ ~ Abs!IsResume(Newline) /\ ~ Abs!IsResume(FileEnd) /\ ~ Abs!IsResume(Leave(fl))
      /\ Abs!IsResume(Resume(fl)) /\ Resume(fl).file = fl
  BY DEF Newline, FileEnd, Leave, Resume, Item, Abs!IsResume
<1>3. \A a \in Items, b \in Items, c \in Items, d \in Items :
        /\ <<a, b, c, d>> \in Seq(Items) /\ Len(<<a, b, c, d>>) = 4
        /\ <<a, b, c, d>>[1] = a /\ <<a, b, c, d>>[2] = b
        /\ <<a, b, c, d>>[3] = c /\ <<a, b, c, d>>[4] = d
  OBVIOUS
<1>4. /\ Ending(fl) \in Seq(Items) /\ Len(Ending(fl)) = 4
      /\ Ending(fl)[1] = Newline /\ Ending(fl)[2] = FileEnd
      /\ Ending(fl)[3] = Leave(fl) /\ Ending(fl)[4] = Resume(fl)
  BY <1>1, <1>3 DEF Ending
<1>5. \A i \in 1 .. 3 : i = 1 \/ i = 2 \/ i = 3
  OBVIOUS
<1> QED
  BY <1>2, <1>4, <1>5

(* What is left of a file's ending, the next of it and the last. *)
Left(s) == IF s.file THEN SubSeq(Ending(s.fl), s.term + 1, 4) ELSE <<>>

LEMMA LeftShape ==
  ASSUME NEW s \in StreamSet
  PROVE  /\ Left(s) \in Seq(Items) /\ Held(s) = s.text \o Left(s) /\ Held(s) \in Seq(Items)
         /\ s.text \in Seq(Items)
         /\ s.file => /\ Len(Left(s)) = 4 - s.term
                      /\ \A i \in 1 .. 4 - s.term : Left(s)[i] = Ending(s.fl)[s.term + i]
<1>1. s.fl \in Files \cup {NoFile} /\ s.term \in 0 .. 3 /\ s.text \in Seq(Pieces)
  BY DEF StreamSet
<1>2. s.text \in Seq(Items)
  BY <1>1, PiecesAreItems
<1> DEFINE e == Ending(s.fl)
           t == s.term
<1>3. e \in Seq(Items) /\ Len(e) = 4 /\ t \in 0 .. 3
  BY <1>1, EndingKinds
<1>4. Held(s) = s.text \o Left(s)
  BY DEF Held, Left
<1> HIDE DEF e, t
<1>5. /\ SubSeq(e, t + 1, 4) \in Seq(Items) /\ Len(SubSeq(e, t + 1, 4)) = 4 - t
      /\ \A i \in 1 .. 4 - t : SubSeq(e, t + 1, 4)[i] = e[t + i]
  <2> DEFINE u == SubSeq(e, t + 1, 4)
  <2>1. \A i \in t + 1 .. 4 : e[i] \in Items
    <3>1. \A i \in 1 .. Len(e) : e[i] \in Items
      BY <1>3, ElementOfSeq
    <3>2. \A i \in t + 1 .. 4 : i \in 1 .. Len(e)
      BY <1>3
    <3> QED
      BY <3>1, <3>2
  <2>2. /\ u \in Seq(Items) /\ Len(u) = IF t + 1 <= 4 THEN 4 - (t + 1) + 1 ELSE 0
        /\ \A i \in 1 .. 4 - (t + 1) + 1 : u[i] = e[t + 1 + i - 1]
    BY <1>3, <2>1, SubSeqProperties
  <2> HIDE DEF u
  <2>3. \A i \in 1 .. 4 - t : t + 1 + i - 1 = t + i
    BY <1>3
  <2>4. 4 - (t + 1) + 1 = 4 - t /\ t + 1 <= 4
    BY <1>3
  <2>5. u \in Seq(Items) /\ Len(u) = 4 - t /\ \A i \in 1 .. 4 - t : u[i] = e[t + i]
    BY <2>2, <2>3, <2>4
  <2> QED
    BY <2>5 DEF u
<1>6. Left(s) = IF s.file THEN SubSeq(e, t + 1, 4) ELSE <<>>
  BY DEF Left, e, t
<1>7. <<>> \in Seq(Items)
  OBVIOUS
<1>8. Left(s) \in Seq(Items)
  BY <1>5, <1>6, <1>7
<1>9. Held(s) \in Seq(Items)
  BY <1>2, <1>4, <1>8, ConcatProperties
<1>10. s.file => /\ Len(Left(s)) = 4 - t
                 /\ \A i \in 1 .. 4 - t : Left(s)[i] = e[t + i]
  BY <1>5, <1>6
<1> QED
  BY <1>2, <1>4, <1>8, <1>9, <1>10 DEF e, t

(* What the streams of a stack hold, one by one. *)
LEMMA TextsIterate ==
  \A step \in [Nat -> [Seq(Items) -> Seq(Items)]] :
    \E g \in [Nat -> Seq(Items)] : g[0] = <<>> /\ \A n \in Nat : g[n + 1] = step[n][g[n]]
<1> DEFINE X == Seq(Items)
           x0 == <<>>
<1>1. x0 \in X
  OBVIOUS
<1>2. \A step \in [Nat -> [X -> X]] :
        \E g \in [Nat -> X] : g[0] = x0 /\ \A n \in Nat : g[n + 1] = step[n][g[n]]
  <2> HIDE DEF X, x0
  <2> QED
    BY <1>1, Iteration
<1> QED
  BY <1>2

LEMMA HeldFromIs ==
  ASSUME NEW stack \in Seq(StreamSet)
  PROVE  /\ HeldFrom(stack)[0] = <<>>
         /\ \A n \in 1 .. Len(stack) :
              HeldFrom(stack)[n] = Held(stack[n]) \o HeldFrom(stack)[n - 1]
         /\ \A n \in 0 .. Len(stack) : HeldFrom(stack)[n] \in Seq(Items)
<1> DEFINE N == 0 .. Len(stack)
           step == [n \in Nat |-> [x \in Seq(Items) |->
                      IF n < Len(stack) THEN Held(stack[n + 1]) \o x ELSE x]]
<1>1. Len(stack) \in Nat /\ \A n \in Nat : n < Len(stack) => stack[n + 1] \in StreamSet
  OBVIOUS
<1>2. step \in [Nat -> [Seq(Items) -> Seq(Items)]]
  <2>1. ASSUME NEW n \in Nat, NEW x \in Seq(Items)
        PROVE  (IF n < Len(stack) THEN Held(stack[n + 1]) \o x ELSE x) \in Seq(Items)
    <3>1. n < Len(stack) => Held(stack[n + 1]) \in Seq(Items)
      BY <1>1, LeftShape
    <3>2. n < Len(stack) => Held(stack[n + 1]) \o x \in Seq(Items)
      BY <3>1, ConcatProperties
    <3> QED
      BY <3>2
  <2> QED
    BY <2>1
<1>3. PICK g \in [Nat -> Seq(Items)] : g[0] = <<>> /\ \A n \in Nat : g[n + 1] = step[n][g[n]]
  <2> HIDE DEF step
  <2> QED
    BY <1>2, TextsIterate
<1>4. \A n \in Nat : n < Len(stack) => g[n + 1] = Held(stack[n + 1]) \o g[n]
  BY <1>3
<1> DEFINE f == [n \in N |-> g[n]]
           Fits(h) == h = [n \in N |-> IF n = 0 THEN <<>> ELSE Held(stack[n]) \o h[n - 1]]
<1> HIDE DEF step
<1>5. Fits(f)
  <2>1. \A n \in N : f[n] = IF n = 0 THEN <<>> ELSE Held(stack[n]) \o f[n - 1]
    <3> TAKE n \in N
    <3>1. CASE n = 0
      BY <1>1, <1>3, <3>1
    <3>2. CASE n # 0
      <4>1. n - 1 \in Nat /\ (n - 1) + 1 = n /\ n - 1 < Len(stack) /\ n - 1 \in N /\ n \in N
        BY <1>1, <3>2
      <4>2. g[n] = Held(stack[n]) \o g[n - 1]
        BY <1>4, <4>1
      <4> QED
        BY <3>2, <4>1, <4>2
    <3> QED
      BY <3>1, <3>2
  <2> QED
    BY <2>1
<1>6. HeldFrom(stack) = CHOOSE h : Fits(h)
  BY DEF HeldFrom
<1>7. Fits(HeldFrom(stack))
  <2> HIDE DEF Fits, f
  <2> QED
    BY <1>5, <1>6
<1> DEFINE c == HeldFrom(stack)
<1>8. c = [n \in N |-> IF n = 0 THEN <<>> ELSE Held(stack[n]) \o c[n - 1]]
  BY <1>7
<1> HIDE DEF c
<1>9. c[0] = <<>> /\ \A n \in 1 .. Len(stack) : c[n] = Held(stack[n]) \o c[n - 1]
  <2>1. \A n \in N : c[n] = IF n = 0 THEN <<>> ELSE Held(stack[n]) \o c[n - 1]
    BY <1>8, Zenon
  <2>2. 0 \in N /\ \A n \in 1 .. Len(stack) : n \in N /\ n # 0
    BY <1>1
  <2> HIDE DEF N
  <2> QED
    BY <2>1, <2>2, Zenon
<1>10. \A n \in Nat : n \in {m \in Nat : m \in N => c[m] \in Seq(Items)}
  <2> DEFINE T == {m \in Nat : m \in N => c[m] \in Seq(Items)}
  <2>1. 0 \in T
    <3>1. c[0] \in Seq(Items) /\ 0 \in Nat
      BY <1>9
    <3> QED
      BY <3>1
  <2>2. \A n \in Nat : n \in T => n + 1 \in T
    <3> SUFFICES ASSUME NEW n \in Nat, n \in T, n + 1 \in N PROVE c[n + 1] \in Seq(Items)
      OBVIOUS
    <3>1. n + 1 \in 1 .. Len(stack) /\ (n + 1) - 1 = n /\ n \in N /\ n < Len(stack)
      BY <1>1
    <3>2. c[n + 1] = Held(stack[n + 1]) \o c[n] /\ c[n] \in Seq(Items)
      BY <1>9, <3>1
    <3>3. Held(stack[n + 1]) \in Seq(Items)
      BY <1>1, <3>1, LeftShape
    <3> QED
      BY <3>2, <3>3, ConcatProperties
  <2>3. \A n \in Nat : n \in T
    <3> HIDE DEF T
    <3> QED
      BY <2>1, <2>2, Induction
  <2> QED
    BY <2>3
<1>11. \A n \in 0 .. Len(stack) : c[n] \in Seq(Items)
  <2>1. \A n \in 0 .. Len(stack) : n \in Nat /\ n \in N
    BY <1>1
  <2> HIDE DEF N
  <2> QED
    BY <1>10, <2>1
<1> QED
  BY <1>9, <1>11 DEF c

(* Two stacks that agree up to a place hold the same from there down.      *)
LEMMA HeldAlike ==
  ASSUME NEW a \in Seq(StreamSet), NEW b \in Seq(StreamSet), NEW m \in Nat,
         m <= Len(a), m <= Len(b), \A i \in 1 .. m : a[i] = b[i]
  PROVE  HeldFrom(a)[m] = HeldFrom(b)[m]
<1> DEFINE ha == HeldFrom(a)
           hb == HeldFrom(b)
           T == {n \in Nat : n <= m => ha[n] = hb[n]}
<1>1. /\ ha[0] = <<>> /\ hb[0] = <<>>
      /\ \A n \in 1 .. Len(a) : ha[n] = Held(a[n]) \o ha[n - 1]
      /\ \A n \in 1 .. Len(b) : hb[n] = Held(b[n]) \o hb[n - 1]
  BY HeldFromIs
<1>2. Len(a) \in Nat /\ Len(b) \in Nat
  OBVIOUS
<1> HIDE DEF ha, hb
<1>3. 0 \in T
  BY <1>1
<1>4. ASSUME NEW n \in Nat, n \in T, n + 1 <= m PROVE ha[n + 1] = hb[n + 1]
  <2>1. /\ n + 1 \in 1 .. Len(a) /\ n + 1 \in 1 .. Len(b) /\ n + 1 \in 1 .. m
        /\ (n + 1) - 1 = n /\ n <= m
    BY <1>2, <1>4
  <2>2. ha[n] = hb[n] /\ a[n + 1] = b[n + 1]
    BY <1>4, <2>1
  <2>3. ha[n + 1] = Held(a[n + 1]) \o ha[n] /\ hb[n + 1] = Held(b[n + 1]) \o hb[n]
    BY <1>1, <2>1
  <2> QED
    BY <2>2, <2>3
<1>5. \A n \in Nat : n \in T => n + 1 \in T
  BY <1>4
<1>6. m \in T
  <2> HIDE DEF T
  <2> QED
    BY <1>3, <1>5, Induction
<1>7. ha[m] = hb[m]
  BY <1>6
<1> QED
  BY <1>7 DEF ha, hb

(* Streams that are spent hold nothing. *)
LEMMA HeldPastSpent ==
  ASSUME NEW a \in Seq(StreamSet), NEW k \in 1 .. Len(a),
         \A j \in k + 1 .. Len(a) : Spent(a[j])
  PROVE  HeldFrom(a)[Len(a)] = HeldFrom(a)[k]
<1> DEFINE h == HeldFrom(a)
           T == {n \in Nat : k + n <= Len(a) => h[k + n] = h[k]}
<1>1. /\ \A n \in 1 .. Len(a) : h[n] = Held(a[n]) \o h[n - 1]
      /\ \A n \in 0 .. Len(a) : h[n] \in Seq(Items)
  BY HeldFromIs
<1>2. Len(a) \in Nat /\ k \in Nat /\ k <= Len(a)
  OBVIOUS
<1> HIDE DEF h
<1>3. 0 \in T
  BY <1>2
<1>4. ASSUME NEW n \in Nat, n \in T, k + (n + 1) <= Len(a) PROVE h[k + (n + 1)] = h[k]
  <2> DEFINE j == k + (n + 1)
  <2>1. /\ j \in 1 .. Len(a) /\ j \in k + 1 .. Len(a) /\ j - 1 = k + n
        /\ k + n <= Len(a) /\ j - 1 \in 0 .. Len(a)
    BY <1>2, <1>4
  <2>2. h[j - 1] = h[k]
    BY <1>4, <2>1
  <2>3. Held(a[j]) = <<>>
    <3>1. a[j].text = <<>> /\ ~ a[j].file /\ a[j] \in StreamSet
      BY <2>1 DEF Spent
    <3>2. Held(a[j]) = <<>> \o <<>>
      BY <3>1, LeftShape DEF Left
    <3> QED
      BY <3>2, ConcatEmptySeq
  <2> HIDE DEF j
  <2>4. h[j] = <<>> \o h[j - 1] /\ h[j - 1] \in Seq(Items)
    BY <1>1, <2>1, <2>3
  <2>5. h[j] = h[k]
    BY <2>2, <2>4, ConcatEmptySeq
  <2> QED
    BY <2>5 DEF j
<1>5. \A n \in Nat : n \in T => n + 1 \in T
  BY <1>4
<1>6. Len(a) - k \in T /\ k + (Len(a) - k) = Len(a)
  <2>1. Len(a) - k \in Nat /\ k + (Len(a) - k) = Len(a)
    BY <1>2
  <2> HIDE DEF T
  <2> QED
    BY <1>3, <1>5, <2>1, Induction
<1>7. h[Len(a)] = h[k]
  BY <1>2, <1>6
<1> QED
  BY <1>7 DEF h

(* The first place where a text resumes a file. *)
FirstAt(t, p) ==
  /\ p \in 1 .. Len(t) /\ Abs!IsResume(t[p])
  /\ \A q \in 1 .. Len(t) : q < p => ~ Abs!IsResume(t[q])

LEMMA AroundIs ==
  ASSUME NEW t \in Seq(Items), NEW p, FirstAt(t, p)
  PROVE  t # <<>> /\ Abs!Around(t) = t[p].file
<1> DEFINE I == {i \in 1 .. Len(t) : Abs!IsResume(t[i])}
           m == CHOOSE x \in I : \A y \in I : x <= y
<1>1. p \in I /\ p \in Nat /\ Len(t) \in Nat
  BY DEF FirstAt
<1>2. \A y \in I : p <= y
  <2>1. ASSUME NEW y \in 1 .. Len(t), Abs!IsResume(t[y]) PROVE p <= y
    <3>1. ~ (y < p) /\ y \in Nat
      BY <2>1 DEF FirstAt
    <3> QED
      BY <1>1, <3>1
  <2> QED
    BY <2>1
<1>3. m \in I /\ \A y \in I : m <= y
  <2> HIDE DEF I
  <2> QED
    BY <1>1, <1>2
<1>4. m = p
  <2>1. m <= p /\ p <= m /\ m \in Nat
    BY <1>1, <1>2, <1>3
  <2> HIDE DEF m
  <2> QED
    BY <1>1, <2>1
<1>5. Abs!SelectInSeq(t, Abs!IsResume) = IF I # {} THEN m ELSE 0
  BY DEF Abs!SelectInSeq, Abs!Min
<1>6. I # {}
  BY <1>1
<1>7. Abs!SelectInSeq(t, Abs!IsResume) = p
  <2> HIDE DEF I, m
  <2> QED
    BY <1>4, <1>5, <1>6
<1>8. t # <<>>
  BY <1>1 DEF FirstAt
<1> QED
  BY <1>7, <1>8 DEF Abs!Around

(* It moves with the text put before it, and stays with what comes behind. *)
LEMMA FirstAfter ==
  ASSUME NEW a \in Seq(Items), NEW b \in Seq(Items), NEW p, FirstAt(b, p),
         \A i \in 1 .. Len(a) : ~ Abs!IsResume(a[i])
  PROVE  FirstAt(a \o b, Len(a) + p) /\ (a \o b)[Len(a) + p] = b[p]
<1> DEFINE t == a \o b
<1>1. t \in Seq(Items) /\ Joining(t, a, b) /\ Len(a) \in Nat /\ Len(b) \in Nat
  BY Joined
<1> HIDE DEF t
<1>2. p \in 1 .. Len(b) /\ Abs!IsResume(b[p])
  BY DEF FirstAt
<1>3. Len(a) + p \in 1 .. Len(t) /\ t[Len(a) + p] = b[p]
  BY <1>1, <1>2 DEF Joining
<1>4. ASSUME NEW q \in 1 .. Len(t), q < Len(a) + p PROVE ~ Abs!IsResume(t[q])
  <2>1. CASE q \in 1 .. Len(a)
    <3>1. t[q] = a[q]
      BY <1>1, <2>1 DEF Joining
    <3> QED
      BY <2>1, <3>1
  <2>2. CASE q \notin 1 .. Len(a)
    <3>1. PICK i \in 1 .. Len(b) : q = Len(a) + i
      BY <1>1, <2>2 DEF Joining
    <3>2. t[q] = b[i]
      BY <1>1, <3>1 DEF Joining
    <3>3. i < p
      BY <1>1, <1>2, <1>4, <3>1
    <3> QED
      BY <3>2, <3>3 DEF FirstAt
  <2> QED
    BY <2>1, <2>2
<1>5. FirstAt(t, Len(a) + p)
  BY <1>2, <1>3, <1>4 DEF FirstAt
<1> QED
  BY <1>3, <1>5 DEF t

LEMMA FirstBefore ==
  ASSUME NEW a \in Seq(Items), NEW b \in Seq(Items), NEW p, FirstAt(a, p)
  PROVE  FirstAt(a \o b, p) /\ (a \o b)[p] = a[p]
<1> DEFINE t == a \o b
<1>1. t \in Seq(Items) /\ Joining(t, a, b) /\ Len(a) \in Nat /\ Len(b) \in Nat
  BY Joined
<1> HIDE DEF t
<1>2. p \in 1 .. Len(a) /\ Abs!IsResume(a[p])
  BY DEF FirstAt
<1>3. p \in 1 .. Len(t) /\ t[p] = a[p]
  BY <1>1, <1>2 DEF Joining
<1>4. ASSUME NEW q \in 1 .. Len(t), q < p PROVE ~ Abs!IsResume(t[q])
  <2>1. q \in 1 .. Len(a)
    BY <1>1, <1>2, <1>4
  <2>2. t[q] = a[q]
    BY <1>1, <2>1 DEF Joining
  <2> QED
    BY <1>4, <2>1, <2>2 DEF FirstAt
<1>5. FirstAt(t, p)
  BY <1>2, <1>3, <1>4 DEF FirstAt
<1> QED
  BY <1>3, <1>5 DEF t

(* A file's ending resumes the file around it, at its last piece. *)
LEMMA EndingResumes ==
  ASSUME NEW s \in StreamSet, s.file
  PROVE  \E p : FirstAt(Left(s), p) /\ Left(s)[p].file = s.fl
<1> DEFINE e == Ending(s.fl)
           l == Left(s)
           n == 4 - s.term
<1>1. s.fl \in Files \cup {NoFile} /\ s.term \in 0 .. 3
  BY DEF StreamSet
<1>2. Len(l) = n /\ \A i \in 1 .. n : l[i] = e[s.term + i]
  BY LeftShape
<1>3. /\ \A i \in 1 .. 3 : ~ Abs!IsResume(e[i])
      /\ Abs!IsResume(e[4]) /\ e[4].file = s.fl
  BY <1>1, EndingKinds
<1>4. /\ n \in 1 .. n /\ s.term + n = 4
      /\ \A q \in 1 .. n : q < n => s.term + q \in 1 .. 3
  BY <1>1
<1> HIDE DEF e, l, n
<1>5. l[n] = e[4]
  BY <1>2, <1>4
<1>6. FirstAt(l, n) /\ l[n].file = s.fl
  BY <1>2, <1>3, <1>4, <1>5 DEF FirstAt
<1> QED
  BY <1>6 DEF l

(* The file that goes on is the one that the text on top belongs to. *)
LEMMA TopResumes ==
  ASSUME StackInv, NEW n \in 2 .. Len(streams)
  PROVE  /\ HeldFrom(streams)[n] # <<>>
         /\ Abs!Around(HeldFrom(streams)[n]) = streams[n].fl
<1> DEFINE h == HeldFrom(streams)
           Resumes(m) == \E p : FirstAt(h[m], p) /\ h[m][p].file = streams[m].fl
           T == {m \in Nat : m + 2 <= Len(streams) => Resumes(m + 2)}
<1>1. Len(streams) \in Nat /\ \A m \in 1 .. Len(streams) : streams[m] \in StreamSet
  BY StreamParts DEF StackInv
<1>2. /\ \A m \in 1 .. Len(streams) : h[m] = Held(streams[m]) \o h[m - 1]
      /\ \A m \in 0 .. Len(streams) : h[m] \in Seq(Items)
  BY HeldFromIs DEF StackInv, StreamsKind
<1> HIDE DEF h
<1>3. ASSUME NEW m \in 2 .. Len(streams), streams[m].file \/ Resumes(m - 1)
      PROVE  Resumes(m)
  <2> DEFINE s == streams[m]
             below == h[m - 1]
             text == s.text
             left == Left(s)
             held == Held(s)
  <2>1. m \in 1 .. Len(streams) /\ m - 1 \in 0 .. Len(streams)
    BY <1>1
  <2>2. s \in StreamSet /\ below \in Seq(Items) /\ h[m] = held \o below
    BY <1>1, <1>2, <2>1
  <2>3. /\ text \in Seq(Items) /\ left \in Seq(Items) /\ held = text \o left
        /\ held \in Seq(Items)
    BY <2>2, LeftShape
  <2>4. \A i \in 1 .. Len(text) : ~ Abs!IsResume(text[i])
    <3>1. text \in Seq(Pieces)
      BY <2>2 DEF StreamSet
    <3> QED
      BY <3>1, PiecesAreItems
  <2>5. s.file => \E p : FirstAt(left, p) /\ left[p].file = s.fl
    BY <2>2, EndingResumes
  <2>6. ~ s.file => left = <<>> /\ s.fl = streams[m - 1].fl
    BY DEF Left, StackInv, FileKept
  <2>7. Resumes(m) <=> \E p : FirstAt(h[m], p) /\ h[m][p].file = s.fl
    OBVIOUS
  <2>8. Resumes(m - 1) <=> \E p : FirstAt(below, p) /\ below[p].file = streams[m - 1].fl
    OBVIOUS
  <2> HIDE DEF s, below, text, left, held, Resumes
  <2>9. CASE s.file
    <3>1. PICK p : FirstAt(left, p) /\ left[p].file = s.fl
      BY <2>5, <2>9
    <3> DEFINE q == Len(text) + p
    <3>2. FirstAt(text \o left, q) /\ (text \o left)[q] = left[p]
      BY <2>3, <2>4, <3>1, FirstAfter
    <3> HIDE DEF q
    <3>3. FirstAt(held, q)
      BY <2>3, <3>2
    <3>4. FirstAt(held \o below, q) /\ (held \o below)[q] = held[q]
      BY <2>2, <2>3, <3>3, FirstBefore
    <3> QED
      BY <2>2, <2>3, <2>7, <3>1, <3>2, <3>4
  <2>10. CASE ~ s.file
    <3>1. PICK p : FirstAt(below, p) /\ below[p].file = streams[m - 1].fl
      BY <1>3, <2>8, <2>10 DEF s
    <3>2. s.fl = streams[m - 1].fl
      BY <2>6, <2>10
    <3>3. h[m] = text \o below
      BY <2>2, <2>3, <2>6, <2>10, ConcatEmptySeq
    <3> DEFINE q == Len(text) + p
    <3>4. FirstAt(text \o below, q) /\ (text \o below)[q] = below[p]
      <4>1. text \in Seq(Items) /\ below \in Seq(Items) /\ FirstAt(below, p)
        BY <2>2, <2>3, <3>1
      <4> QED
        BY <2>4, <4>1, FirstAfter
    <3> HIDE DEF q
    <3> QED
      BY <2>7, <3>1, <3>2, <3>3, <3>4
  <2> QED
    BY <2>9, <2>10
<1> HIDE DEF Resumes
<1>4. 0 \in T
  <2>1. 0 + 2 <= Len(streams) =>
          2 \in 2 .. Len(streams) /\ streams[2].file /\ 0 + 2 = 2
    BY <1>1 DEF StackInv, EofIsEntryZero
  <2>2. 0 + 2 <= Len(streams) => Resumes(0 + 2)
    BY <1>3, <2>1
  <2> QED
    BY <2>2
<1>5. \A m \in Nat : m \in T => m + 1 \in T
  <2> SUFFICES ASSUME NEW m \in Nat, m \in T, (m + 1) + 2 <= Len(streams)
               PROVE  Resumes((m + 1) + 2)
    OBVIOUS
  <2>1. /\ (m + 1) + 2 \in 2 .. Len(streams) /\ ((m + 1) + 2) - 1 = m + 2
        /\ m + 2 <= Len(streams)
    BY <1>1
  <2>2. Resumes(m + 2)
    BY <2>1
  <2>3. Resumes(((m + 1) + 2) - 1)
    BY <2>1, <2>2
  <2> HIDE DEF T
  <2> QED
    BY <1>3, <2>1, <2>3
<1>6. Resumes(n)
  <2>1. n - 2 \in Nat /\ (n - 2) + 2 = n /\ n <= Len(streams)
    BY <1>1
  <2>2. n - 2 \in T
    <3> HIDE DEF T
    <3> QED
      BY <1>4, <1>5, <2>1, Induction
  <2> QED
    BY <2>1, <2>2
<1>7. PICK p : FirstAt(h[n], p) /\ h[n][p].file = streams[n].fl
  BY <1>6 DEF Resumes
<1>8. h[n] \in Seq(Items)
  BY <1>1, <1>2
<1>9. h[n] # <<>> /\ Abs!Around(h[n]) = streams[n].fl
  BY <1>7, <1>8, AroundIs
<1> QED
  BY <1>9 DEF h
-----------------------------------------------------------------------------
(* How texts are put together. *)
Texts(u, g, r, b) ==
  u \in Seq(Items) /\ g \in Seq(Items) /\ r \in Seq(Items) /\ b \in Seq(Items)
Associates(a, b, c) == (a \o b) \o c = a \o (b \o c)

LEMMA Associate == \A a, b, c : Texts(a, b, c, c) => Associates(a, b, c)
<1> SUFFICES ASSUME NEW a \in Seq(Items), NEW b \in Seq(Items), NEW c \in Seq(Items)
             PROVE  Associates(a, b, c)
  BY DEF Texts
<1>1. (a \o b) \o c = a \o (b \o c)
  BY ConcatAssociative
<1> QED
  BY <1>1 DEF Associates

Regrouped(u, g, r, b) == (u \o g) \o (r \o b) = u \o ((g \o r) \o b)

LEMMA Regroup == \A u, g, r, b : Texts(u, g, r, b) => Regrouped(u, g, r, b)
<1> SUFFICES ASSUME NEW u \in Seq(Items), NEW g \in Seq(Items), NEW r \in Seq(Items),
                    NEW b \in Seq(Items)
             PROVE  Regrouped(u, g, r, b)
  BY DEF Texts
<1>1. /\ g \o r \in Seq(Items) /\ r \o b \in Seq(Items) /\ u \o g \in Seq(Items)
      /\ g \o (r \o b) \in Seq(Items)
  BY ConcatProperties
<1>2. (u \o g) \o (r \o b) = u \o (g \o (r \o b))
  <2> DEFINE v == r \o b
  <2>1. v \in Seq(Items)
    BY <1>1
  <2> HIDE DEF v
  <2>2. Texts(u, g, v, v)
    BY <2>1 DEF Texts
  <2>3. Associates(u, g, v)
    BY <2>2, Associate, Zenon
  <2> QED
    BY <2>3 DEF v, Associates
<1>3. (g \o r) \o b = g \o (r \o b)
  <2>1. Texts(g, r, b, b)
    BY DEF Texts
  <2>2. Associates(g, r, b)
    BY <2>1, Associate, Zenon
  <2> QED
    BY <2>2 DEF Associates
<1> QED
  BY <1>2, <1>3 DEF Regrouped

LEMMA FirstAndRest ==
  ASSUME NEW x \in Items, NEW r \in Seq(Items)
  PROVE  /\ <<x>> \o r # <<>> /\ Head(<<x>> \o r) = x /\ Tail(<<x>> \o r) = r
<1> DEFINE t == <<x>> \o r
<1>1. <<x>> \in Seq(Items) /\ Len(<<x>>) = 1 /\ <<x>>[1] = x /\ Len(r) \in Nat
  OBVIOUS
<1>2. t \in Seq(Items) /\ Joining(t, <<x>>, r)
  BY <1>1, Joined
<1> HIDE DEF t
<1>3. /\ Len(t) = 1 + Len(r) /\ t[1] = x
      /\ \A i \in 1 .. Len(r) : t[1 + i] = r[i]
  BY <1>1, <1>2 DEF Joining
<1>4. t # <<>> /\ Head(t) = x
  BY <1>1, <1>2, <1>3
<1> DEFINE v == Tail(t)
<1>5. /\ v \in Seq(Items) /\ Len(v) = Len(t) - 1
      /\ \A i \in 1 .. Len(v) : v[i] = t[i + 1]
  BY <1>2, <1>4, HeadTailProperties
<1> HIDE DEF v
<1>6. Len(v) = Len(r) /\ \A i \in 1 .. Len(v) : v[i] = r[i]
  <2>1. Len(v) = Len(r)
    BY <1>1, <1>3, <1>5
  <2>2. ASSUME NEW i \in 1 .. Len(v) PROVE v[i] = r[i]
    <3>1. i \in 1 .. Len(r) /\ i + 1 = 1 + i
      BY <1>1, <2>1
    <3> QED
      BY <1>3, <1>5, <3>1
  <2> QED
    BY <2>1, <2>2
<1>7. v = r
  BY <1>5, <1>6, SeqEqual
<1> QED
  BY <1>4, <1>7 DEF t, v

(* The two steps by which the abstract text shrinks. *)
ResumesAfter(r) ==
  /\ r \in Seq(Items)
  /\ \E x \in Items : Abs!IsResume(x) /\ Rest = <<x>> \o r
  /\ Rest' = IF r = <<>> THEN <<>> ELSE <<Enter(Abs!Around(r))>> \o r
  /\ errs' = errs
AbsStep == [Abs!AbsNext]_<<Rest, errs>>

LEMMA ReadsOne ==
  ASSUME NEW x \in Items, NEW r \in Seq(Items), ~ Abs!IsResume(x),
         Rest = <<x>> \o r, Rest' = r, errs' = errs
  PROVE  AbsStep
<1>1. Rest # <<>> /\ Head(Rest) = x /\ Tail(Rest) = r
  BY FirstAndRest
<1>2. Abs!Read
  BY <1>1 DEF Abs!Read
<1> QED
  BY <1>2 DEF AbsStep, Abs!AbsNext

LEMMA ResumesOne ==
  ASSUME NEW r, ResumesAfter(r)
  PROVE  AbsStep
<1>0. PICK x \in Items : Abs!IsResume(x) /\ Rest = <<x>> \o r
  BY DEF ResumesAfter
<1>1. Rest # <<>> /\ Head(Rest) = x /\ Tail(Rest) = r
  BY <1>0, FirstAndRest DEF ResumesAfter
<1>2. Abs!Enter(Abs!Around(r)) = Enter(Abs!Around(r))
  BY DEF Abs!Enter, Enter, Abs!Item, Item
<1>3. Abs!ResumeFile
  BY <1>0, <1>1, <1>2 DEF Abs!ResumeFile, ResumesAfter
<1> QED
  BY <1>3 DEF AbsStep, Abs!AbsNext

(* What is left to read after a refill, and when one stream is put on      *)
(* another.                                                                *)
LEMMA RestIs ==
  ASSUME StackInv, NEW k \in 1 .. Len(streams), Reaches(k), ~ isEof
  PROVE  /\ Rest = unread \o (Held(streams[k]) \o HeldFrom(streams)[k - 1])
         /\ HeldFrom(streams)[k - 1] \in Seq(Items)
<1>1. streams \in Seq(StreamSet) /\ Len(streams) \in Nat
  BY DEF StackInv, StreamsKind
<1>2. HeldFrom(streams)[Len(streams)] = HeldFrom(streams)[k]
  BY <1>1, HeldPastSpent DEF Reaches
<1>3. k - 1 \in 0 .. Len(streams)
  BY <1>1
<1>4. /\ HeldFrom(streams)[k] = Held(streams[k]) \o HeldFrom(streams)[k - 1]
      /\ HeldFrom(streams)[k - 1] \in Seq(Items)
  BY <1>1, <1>3, HeldFromIs
<1> QED
  BY <1>2, <1>4 DEF Rest

LEMMA FilledRest ==
  ASSUME StackInv, NEW k \in 1 .. Len(streams), NEW s \in StreamSet,
         NEW got \in Seq(Pieces), Filled(k, s, got)
  PROVE  /\ Rest' = IF s.eof THEN <<>>
                    ELSE (unread \o got) \o (Held(s) \o HeldFrom(streams)[k - 1])
         /\ errs' = errs
<1>1. /\ streams' \in Seq(StreamSet) /\ Len(streams') = k
      /\ \A i \in 1 .. k - 1 : streams'[i] = streams[i]
      /\ streams'[k] = s /\ unread' = unread \o got /\ errs' = errs
  BY FilledShape DEF StackInv
<1>2. streams \in Seq(StreamSet) /\ Len(streams) \in Nat
  BY DEF StackInv, StreamsKind
<1>3. top' = s
  BY <1>1 DEF top, Last
<1> DEFINE next == streams'
<1>4. Rest' = IF s.eof THEN <<>> ELSE unread' \o HeldFrom(next)[Len(next)]
  BY <1>3 DEF Rest, isEof
<1>5. /\ next \in Seq(StreamSet) /\ Len(next) = k /\ next[k] = s
      /\ \A i \in 1 .. k - 1 : next[i] = streams[i]
  BY <1>1
<1> HIDE DEF next
<1>6. HeldFrom(next)[k] = Held(s) \o HeldFrom(next)[k - 1]
  <2>1. k \in 1 .. Len(next)
    BY <1>5
  <2> QED
    BY <1>5, <2>1, HeldFromIs
<1>7. HeldFrom(next)[k - 1] = HeldFrom(streams)[k - 1]
  <2>1. k - 1 \in Nat /\ k - 1 <= Len(next) /\ k - 1 <= Len(streams)
    BY <1>2, <1>5
  <2> QED
    BY <1>2, <1>5, <2>1, HeldAlike
<1> QED
  BY <1>1, <1>4, <1>5, <1>6, <1>7
-----------------------------------------------------------------------------
(* Each step of the streams is one of the pending text, or none. *)

(* A refill hands over text and changes nothing. *)
LEMMA FillTextRest ==
  ASSUME StackInv, LeftInv, NEW k \in 1 .. Len(streams), FillText(k)
  PROVE  Rest' = Rest /\ errs' = errs
<1> DEFINE s == streams[k]
           n == Min({MaxRead, Len(s.text)})
           text == s.text
           rem == SubSeq(text, n + 1, Len(text))
           new == [s EXCEPT !.text = rem]
           got == SubSeq(text, 1, n)
           below == HeldFrom(streams)[k - 1]
<1>1. AsksForMore /\ ~ isEof /\ Reaches(k) /\ text # <<>> /\ Filled(k, new, got)
  BY DEF FillText, AsksForMore
<1>2. s \in StreamSet /\ text \in Seq(Pieces) /\ k \in Nat \ {0} /\ Len(streams) \in Nat
  BY StreamParts DEF StackInv
<1>3. n \in 1 .. Len(text)
  <2>1. Len(text) \in Nat \ {0} /\ MaxRead \in Nat \ {0}
    BY <1>1, <1>2, StreamsAssumption
  <2> QED
    BY <2>1, MinOfTwo
<1> HIDE DEF n
<1>4. got \in Seq(Pieces) /\ rem \in Seq(Pieces) /\ got \o rem = text
  <2>1. /\ 1 \in 1 .. Len(text) + 1 /\ n \in 1 - 1 .. Len(text)
        /\ Len(text) \in n .. Len(text) /\ n \in 0 .. Len(text)
    BY <1>2, <1>3
  <2>2. got \o rem = SubSeq(text, 1, Len(text))
    <3> HIDE DEF text
    <3> QED
      BY <1>2, <2>1, ConcatAdjacentSubSeq
  <2>3. SubSeq(text, 1, Len(text)) = text
    <3> HIDE DEF text
    <3> QED
      BY <1>2
  <2>4. got \in Seq(Pieces)
    BY <1>2, <2>1, PrefixProperties
  <2>5. rem \in Seq(Pieces)
    BY <1>2, <1>3, SuffixProperties
  <2> QED
    BY <2>2, <2>3, <2>4, <2>5
<1> HIDE DEF got, rem
<1>5. /\ new \in StreamSet /\ new.text = rem
      /\ new.eof = s.eof /\ new.file = s.file /\ new.term = s.term /\ new.fl = s.fl
  BY <1>2, <1>4, NewText
<1>6. ~ s.eof
  <2>1. k # 1
    BY <1>1 DEF LeftInv, Stopped, AllRead
  <2>2. k \in 2 .. Len(streams)
    BY <1>2, <2>1
  <2> QED
    BY <1>1, <2>2, NoneStopped
<1> HIDE DEF new
<1>7. /\ Held(s) = text \o Left(s) /\ Held(new) = rem \o Left(s)
      /\ Left(s) \in Seq(Items)
  BY <1>2, <1>5, LeftShape DEF Left
<1>8. Rest = unread \o ((text \o Left(s)) \o below) /\ below \in Seq(Items)
  BY <1>1, <1>7, RestIs
<1>9. Rest' = (unread \o got) \o ((rem \o Left(s)) \o below) /\ errs' = errs
  BY <1>1, <1>4, <1>5, <1>6, <1>7, FilledRest
<1>10. /\ unread \in Seq(Items) /\ got \in Seq(Items) /\ rem \in Seq(Items)
  BY <1>4, PiecesAreItems DEF StackInv, StreamsKind
<1> DEFINE left == Left(s)
<1>11. left \in Seq(Items) /\ below \in Seq(Items)
  BY <1>7, <1>8
<1> HIDE DEF s, text, below, left
<1>12. (rem \o left) \o below = rem \o (left \o below) /\ left \o below \in Seq(Items)
  <2>1. Texts(rem, left, below, below)
    BY <1>10, <1>11 DEF Texts
  <2>2. Associates(rem, left, below)
    BY <2>1, Associate, Zenon
  <2>3. left \o below \in Seq(Items)
    BY <1>11, ConcatProperties
  <2> QED
    BY <2>2, <2>3 DEF Associates
<1>13. (text \o left) \o below = text \o (left \o below)
  <2>1. Texts(text, left, below, below)
    BY <1>2, <1>11, PiecesAreItems DEF Texts
  <2>2. Associates(text, left, below)
    BY <2>1, Associate, Zenon
  <2> QED
    BY <2>2 DEF Associates
<1> DEFINE b == left \o below
<1>14. (unread \o got) \o (rem \o b) = unread \o ((got \o rem) \o b)
  <2>1. b \in Seq(Items)
    BY <1>12
  <2> HIDE DEF b
  <2>2. Texts(unread, got, rem, b)
    BY <1>10, <2>1 DEF Texts
  <2>3. Regrouped(unread, got, rem, b)
    BY <2>2, Regroup, Zenon
  <2> QED
    BY <2>3 DEF Regrouped
<1>15. Rest' = Rest
  BY <1>4, <1>8, <1>9, <1>12, <1>13, <1>14 DEF left
<1> QED
  BY <1>9, <1>15

(* What is left of an ending: the next piece, and what follows it. *)
LEMMA EndingGoesOn ==
  ASSUME NEW s \in StreamSet, NEW new \in StreamSet, s.file, s.term < 3,
         new.file, new.fl = s.fl, new.term = s.term + 1
  PROVE  Left(s) = <<Ending(s.fl)[s.term + 1]>> \o Left(new)
<1> DEFINE e == Ending(s.fl)
           t == s.term
<1>1. e \in Seq(Items) /\ Len(e) = 4 /\ t \in 0 .. 3
  BY EndingKinds DEF StreamSet
<1>2. Left(s) = SubSeq(e, t + 1, 4) /\ Left(new) = SubSeq(e, (t + 1) + 1, 4)
  BY DEF Left
<1>3. t + 1 \in 1 .. Len(e) /\ 4 \in t + 1 .. Len(e)
  BY <1>1
<1> HIDE DEF e, t
<1>4. SubSeq(e, t + 1, 4) = <<e[t + 1]>> \o SubSeq(e, (t + 1) + 1, 4)
  BY <1>1, <1>3, SubSeqRecursiveFirst
<1> QED
  BY <1>2, <1>4 DEF e, t

(* A file's ending: its newline and the `line that leaves it are handed    *)
(* over like text; its end-of-file event is read at once.                  *)
LEMMA FillEndingRest ==
  ASSUME StackInv, LeftInv, NEW k \in 1 .. Len(streams), FillEnding(k)
  PROVE  /\ Rest' = Rest \/ (Rest = <<FileEnd>> \o Rest' /\ Rest' \in Seq(Items))
         /\ errs' = errs
<1> DEFINE s == streams[k]
           new == [s EXCEPT !.term = s.term + 1]
           got == Said(s)
           below == HeldFrom(streams)[k - 1]
           x == Ending(s.fl)[s.term + 1]
           left == Left(new)
<1>1. /\ AsksForMore /\ ~ isEof /\ Reaches(k) /\ s.file /\ s.text = <<>> /\ s.term < 3
      /\ Filled(k, new, got)
  BY DEF FillEnding, AsksForMore
<1>2. s \in StreamSet /\ s.term \in 0 .. 3 /\ s.fl \in Files \cup {NoFile} /\ ~ s.eof
  BY <1>1, StreamParts, FilesLieAbove DEF StackInv
<1>3. /\ new \in StreamSet /\ new.text = <<>> /\ new.term = s.term + 1
      /\ ~ new.eof /\ new.file /\ new.fl = s.fl
  <2>1. s.term + 1 \in 0 .. 3
    BY <1>1, <1>2
  <2> QED
    BY <1>1, <1>2, <2>1 DEF StreamSet
<1>4. x \in Items /\ ~ Abs!IsResume(x)
  <2>1. s.term + 1 \in 1 .. 3 /\ s.term + 1 \in 1 .. 4
    BY <1>1, <1>2
  <2>2. \A i \in 1 .. 4 : Ending(s.fl)[i] \in Items
    BY <1>2, EndingKinds, ElementOfSeq
  <2> QED
    BY <1>2, <2>1, <2>2, EndingKinds
<1>5. IF s.term = 1 THEN got = <<>> ELSE got = <<x>> /\ x \in Pieces
  <2>1. CASE s.term = 0
    BY <1>2, <2>1, EndingKinds, ItemKinds DEF Said
  <2>2. CASE s.term = 2
    BY <1>2, <2>2, EndingKinds, ItemKinds DEF Said
  <2>3. CASE s.term = 1
    BY <2>3 DEF Said
  <2> QED
    BY <1>1, <1>2, <2>1, <2>2, <2>3
<1>6. s.term = 1 => unread = <<>>
  BY <1>1, EndingIsOnTop DEF HasEnded
<1> HIDE DEF new, x, got
<1>7. got \in Seq(Pieces)
  <2>1. CASE s.term = 1
    BY <1>5, <2>1
  <2>2. CASE s.term # 1
    BY <1>5, <2>2, Singleton
  <2> QED
    BY <2>1, <2>2
<1>8. Left(s) = <<x>> \o left
  BY <1>1, <1>2, <1>3, EndingGoesOn DEF x
<1>9. /\ left \in Seq(Items) /\ Held(new) = left /\ Held(s) = <<x>> \o left
  <2>1. /\ left \in Seq(Items) /\ Held(new) = <<>> \o left
        /\ Left(s) \in Seq(Items) /\ Held(s) = <<>> \o Left(s)
    BY <1>1, <1>2, <1>3, LeftShape
  <2> DEFINE old == Left(s)
  <2>2. old \in Seq(Items) /\ Held(s) = <<>> \o old
    BY <2>1
  <2> HIDE DEF left, old
  <2>3. Held(new) = left /\ Held(s) = old
    BY <2>1, <2>2, ConcatEmptySeq
  <2> QED
    BY <1>8, <2>1, <2>3 DEF old
<1>10. Rest = unread \o ((<<x>> \o left) \o below) /\ below \in Seq(Items)
  BY <1>1, <1>9, RestIs
<1>11. Rest' = (unread \o got) \o (left \o below) /\ errs' = errs
  BY <1>1, <1>3, <1>7, <1>9, FilledRest
<1>12. unread \in Seq(Items) /\ <<x>> \in Seq(Items)
  BY <1>4, PiecesAreItems DEF StackInv, StreamsKind
<1> HIDE DEF left, below
<1>13. CASE s.term # 1
  <2>1. (unread \o <<x>>) \o (left \o below) = unread \o ((<<x>> \o left) \o below)
    <3> DEFINE u == <<x>>
    <3>1. u \in Seq(Items)
      BY <1>12
    <3> HIDE DEF u
    <3>2. Texts(unread, u, left, below)
      BY <1>9, <1>10, <1>12, <3>1 DEF Texts
    <3>3. Regrouped(unread, u, left, below)
      BY <3>2, Regroup, Zenon
    <3> QED
      BY <3>3 DEF u, Regrouped
  <2> QED
    BY <1>5, <1>10, <1>11, <1>13, <2>1
<1>14. CASE s.term = 1
  <2> DEFINE r == left \o below
  <2>1. r \in Seq(Items)
    BY <1>9, <1>10, ConcatProperties
  <2>2. (<<x>> \o left) \o below = <<x>> \o r
    <3> DEFINE u == <<x>>
    <3>1. u \in Seq(Items)
      BY <1>12
    <3> HIDE DEF u
    <3>2. Texts(u, left, below, below)
      BY <1>9, <1>10, <3>1 DEF Texts
    <3>3. Associates(u, left, below)
      BY <3>2, Associate, Zenon
    <3> QED
      BY <3>3 DEF u, Associates
  <2>3. Rest = <<>> \o (<<x>> \o r) /\ Rest' = (<<>> \o <<>>) \o r
    BY <1>5, <1>6, <1>10, <1>11, <1>14, <2>2
  <2> HIDE DEF r
  <2>4. Rest = <<x>> \o r /\ Rest' = r
    <3> DEFINE w == <<x>> \o r
    <3>1. w \in Seq(Items) /\ <<>> \o <<>> = <<>>
      BY <1>12, <2>1, ConcatProperties, ConcatEmptySeq
    <3>2. Rest = <<>> \o w /\ Rest' = <<>> \o r
      BY <2>3, <3>1
    <3> HIDE DEF w
    <3>3. Rest = w /\ Rest' = r
      BY <2>1, <3>1, <3>2, ConcatEmptySeq
    <3> QED
      BY <3>3 DEF w
  <2>5. x = FileEnd
    BY <1>2, <1>14, EndingKinds DEF x
  <2> QED
    BY <1>11, <2>1, <2>4, <2>5
<1> QED
  BY <1>13, <1>14

LEMMA FillEndingRefines ==
  ASSUME StackInv, LeftInv, NEW k \in 1 .. Len(streams), FillEnding(k)
  PROVE  AbsStep
<1>1. FileEnd \in Items /\ ~ Abs!IsResume(FileEnd)
  BY DEF FileEnd, Item, Items, Kinds, Marks, Abs!IsResume
<1>2. /\ Rest' = Rest \/ (Rest = <<FileEnd>> \o Rest' /\ Rest' \in Seq(Items))
      /\ errs' = errs
  BY FillEndingRest
<1>3. CASE Rest' = Rest
  BY <1>2, <1>3 DEF AbsStep
<1>4. CASE Rest = <<FileEnd>> \o Rest' /\ Rest' \in Seq(Items)
  BY <1>1, <1>2, <1>4, ReadsOne
<1> QED
  BY <1>2, <1>3, <1>4

(* The end of a file: the file around it is resumed, by name. *)
LEMMA LastOfEnding ==
  ASSUME NEW s \in StreamSet, s.file, s.text = <<>>, s.term = 3
  PROVE  \E x \in Items : Abs!IsResume(x) /\ Held(s) = <<x>>
<1> DEFINE x == Ending(s.fl)[4]
           left == Left(s)
<1>1. x \in Items /\ Abs!IsResume(x)
  <2>1. Ending(s.fl) \in Seq(Items) /\ 4 \in 1 .. Len(Ending(s.fl))
    BY EndingKinds DEF StreamSet
  <2>2. x \in Items
    BY <2>1, ElementOfSeq
  <2> QED
    BY <2>2, EndingKinds DEF StreamSet
<1>2. /\ left \in Seq(Items) /\ Held(s) = <<>> \o left
      /\ Len(left) = 4 - 3 /\ \A i \in 1 .. 4 - 3 : left[i] = Ending(s.fl)[3 + i]
  BY LeftShape
<1>3. Len(left) = 1 /\ left[1] = x
  <2>1. 4 - 3 = 1 /\ 1 \in 1 .. 4 - 3 /\ 3 + 1 = 4
    OBVIOUS
  <2> QED
    BY <1>2, <2>1
<1> HIDE DEF x, left
<1>4. left = <<x>>
  <2> DEFINE one == <<x>>
  <2>1. one \in Seq(Items) /\ Len(one) = 1 /\ one[1] = x
    BY <1>1
  <2> HIDE DEF one
  <2>2. \A i \in 1 .. Len(left) : left[i] = one[i]
    BY <1>3, <2>1
  <2>3. left = one
    BY <1>2, <1>3, <2>1, <2>2, SeqEqual
  <2> QED
    BY <2>3 DEF one
<1>5. Held(s) = left
  BY <1>2, ConcatEmptySeq
<1> QED
  BY <1>1, <1>4, <1>5

LEMMA FillResumeRest ==
  ASSUME StackInv, LeftInv, NEW k \in 1 .. Len(streams), FillResume(k)
  PROVE  \E r : ResumesAfter(r)
<1> DEFINE s == streams[k]
           below == streams[k - 1]
           new == IF below.eof THEN [below EXCEPT !.fl = s.fl] ELSE below
           got == IF below.eof THEN <<>> ELSE <<Enter(below.fl)>>
           r == HeldFrom(streams)[k - 1]
<1>1. /\ AsksForMore /\ ~ isEof /\ Reaches(k) /\ s.file /\ s.text = <<>> /\ s.term = 3
      /\ Filled(k - 1, new, got)
  BY DEF FillResume, AsksForMore
<1>2. /\ k \in 2 .. Len(streams) /\ k - 1 \in 1 .. Len(streams)
      /\ Len(streams) \in Nat /\ streams \in Seq(StreamSet)
  <2>1. k \in 2 .. Len(streams) /\ Len(streams) \in Nat /\ streams \in Seq(StreamSet)
    BY <1>1, FilesLieAbove, StreamParts DEF StackInv, StreamsKind
  <2> QED
    BY <2>1
<1>3. s \in StreamSet /\ below \in StreamSet /\ below.fl \in Files \cup {NoFile}
  BY <1>2, StreamParts DEF StackInv
<1>4. new \in StreamSet /\ new.eof = below.eof /\ (~ below.eof => new = below)
  <2>1. s.fl \in Files \cup {NoFile}
    BY <1>3 DEF StreamSet
  <2> QED
    BY <1>3, <2>1 DEF StreamSet
<1>5. unread = <<>>
  BY <1>1, EndingIsOnTop DEF HasEnded
<1>6. got \in Seq(Pieces) /\ Enter(below.fl) \in Items
  <2>1. Enter(below.fl) \in Pieces /\ Enter(below.fl) \in Items
    BY <1>3, ItemKinds DEF Pieces
  <2>2. <<Enter(below.fl)>> \in Seq(Pieces) /\ <<>> \in Seq(Pieces)
    BY <2>1, Singleton
  <2> QED
    BY <2>1, <2>2
<1>7. PICK x \in Items : Abs!IsResume(x) /\ Held(s) = <<x>>
  BY <1>1, <1>3, LastOfEnding
<1>8. Rest = <<x>> \o r /\ r \in Seq(Items)
  <2> DEFINE w == <<x>> \o r
  <2>1. Rest = unread \o w /\ r \in Seq(Items)
    BY <1>1, <1>7, RestIs
  <2>2. w \in Seq(Items)
    BY <2>1, ConcatProperties
  <2> HIDE DEF w, r
  <2>3. Rest = w
    BY <1>5, <2>1, <2>2, ConcatEmptySeq
  <2> QED
    BY <2>1, <2>3 DEF w
<1>9. /\ errs' = errs
      /\ Rest' = IF new.eof THEN <<>>
                 ELSE (unread \o got) \o (Held(new) \o HeldFrom(streams)[(k - 1) - 1])
  <2> HIDE DEF new, got
  <2> QED
    BY <1>1, <1>2, <1>4, <1>6, FilledRest
<1>10. r = Held(below) \o HeldFrom(streams)[(k - 1) - 1]
  BY <1>2, HeldFromIs
<1>11. CASE below.eof
  <2>1. k - 1 = 1
    <3>1. k - 1 \notin 2 .. Len(streams)
      BY <1>1, <1>11, NoneStopped
    <3> QED
      BY <1>2, <3>1
  <2>2. Held(streams[1]) = <<>>
    <3>1. streams[1].text = <<>> /\ ~ streams[1].file
      BY <1>1 DEF LeftInv, Stopped, AllRead, StackInv, EofIsEntryZero
    <3>2. Held(streams[1]) = <<>> \o <<>>
      BY <3>1 DEF Held
    <3> QED
      BY <3>2, ConcatEmptySeq
  <2>3. HeldFrom(streams)[(k - 1) - 1] = <<>>
    <3>1. (k - 1) - 1 = 0
      BY <1>2, <2>1
    <3>2. HeldFrom(streams)[0] = <<>>
      BY <1>2, HeldFromIs
    <3> QED
      BY <3>1, <3>2
  <2>4. r = <<>> \o <<>>
    BY <1>10, <2>1, <2>2, <2>3
  <2>5. r = <<>>
    <3> HIDE DEF r
    <3> QED
      BY <2>4, ConcatEmptySeq
  <2>6. Rest' = <<>>
    BY <1>4, <1>9, <1>11
  <2> HIDE DEF r
  <2> QED
    BY <1>7, <1>8, <1>9, <2>5, <2>6 DEF ResumesAfter
<1>12. CASE ~ below.eof
  <2>1. k - 1 \in 2 .. Len(streams)
    <3>1. k - 1 # 1
      BY <1>12 DEF StackInv, EofIsEntryZero
    <3> QED
      BY <1>2, <3>1
  <2>2. r # <<>> /\ Abs!Around(r) = below.fl
    BY <2>1, TopResumes
  <2>3. Rest' = (<<>> \o <<Enter(below.fl)>>) \o r
    BY <1>4, <1>5, <1>9, <1>10, <1>12
  <2>4. <<>> \o <<Enter(below.fl)>> = <<Enter(below.fl)>>
    <3> DEFINE one == <<Enter(below.fl)>>
    <3>1. one \in Seq(Items)
      BY <1>6
    <3> HIDE DEF one
    <3>2. <<>> \o one = one
      BY <3>1, ConcatEmptySeq
    <3> QED
      BY <3>2 DEF one
  <2>5. Rest' = IF r = <<>> THEN <<>> ELSE <<Enter(Abs!Around(r))>> \o r
    BY <2>2, <2>3, <2>4
  <2> HIDE DEF r
  <2> QED
    BY <1>7, <1>8, <1>9, <2>5 DEF ResumesAfter
<1> QED
  BY <1>11, <1>12

(* A character is matched. *)
LEMMA ScanRest ==
  ASSUME StackInv, Scan
  PROVE  /\ token' \in Items /\ ~ Abs!IsResume(token') /\ Rest' \in Seq(Items)
         /\ Rest = <<token'>> \o Rest' /\ errs' = errs
<1> DEFINE h == Head(unread)
           t == Tail(unread)
           f == HeldFrom(streams)[Len(streams)]
<1>1. /\ ~ isEof /\ unread # <<>> /\ unread' = t /\ token' = h
      /\ streams' = streams /\ errs' = errs
  BY DEF Scan
<1>2. /\ unread \in Seq(Pieces) /\ streams \in Seq(StreamSet) /\ Len(streams) \in Nat
      /\ Len(streams) \in 0 .. Len(streams)
  BY StreamParts DEF StackInv, StreamsKind
<1>3. f \in Seq(Items)
  BY <1>2, HeldFromIs
<1>4. unread \in Seq(Items)
  BY <1>2, PiecesAreItems
<1>5. h \in Items /\ t \in Seq(Items) /\ unread = <<h>> \o t
  <2>1. Len(unread) \in Nat \ {0}
    BY <1>1, <1>4
  <2>2. 1 \in 1 .. Len(unread) /\ Len(unread) \in 1 .. Len(unread)
    BY <2>1
  <2>3. SubSeq(unread, 1, Len(unread)) = <<unread[1]>> \o SubSeq(unread, 1 + 1, Len(unread))
    BY <1>4, <2>2, SubSeqRecursiveFirst
  <2>4. SubSeq(unread, 1, Len(unread)) = unread /\ h = unread[1]
    BY <1>1, <1>4
  <2>5. t = SubSeq(unread, 2, Len(unread))
    BY <1>1, <1>4, TailIsSubSeq
  <2>6. h \in Items /\ t \in Seq(Items)
    BY <1>1, <1>4, HeadTailProperties
  <2> QED
    BY <2>3, <2>4, <2>5, <2>6
<1>6. ~ Abs!IsResume(h)
  <2>1. 1 \in 1 .. Len(unread) /\ h = unread[1]
    BY <1>1, <1>4
  <2> QED
    BY <1>2, <2>1, PiecesAreItems
<1>7. Rest = unread \o f /\ Rest' = t \o f
  BY <1>1 DEF Rest, isEof, top
<1> HIDE DEF h, t, f
<1>8. <<h>> \in Seq(Items)
  BY <1>5
<1>9. Rest = <<h>> \o (t \o f) /\ t \o f \in Seq(Items)
  <2> DEFINE one == <<h>>
  <2>1. one \in Seq(Items) /\ Rest = (one \o t) \o f
    BY <1>5, <1>7, <1>8
  <2> HIDE DEF one
  <2>2. (one \o t) \o f = one \o (t \o f)
    <3>1. Texts(one, t, f, f)
      BY <1>3, <1>5, <2>1 DEF Texts
    <3>2. Associates(one, t, f)
      BY <3>1, Associate, Zenon
    <3> QED
      BY <3>2 DEF Associates
  <2>3. t \o f \in Seq(Items)
    BY <1>3, <1>5, ConcatProperties
  <2> QED
    BY <2>1, <2>2, <2>3 DEF one
<1> DEFINE r == t \o f
<1>10. Rest = <<h>> \o r /\ Rest' = r /\ r \in Seq(Items)
  BY <1>7, <1>9
<1> HIDE DEF r
<1> QED
  BY <1>1, <1>5, <1>6, <1>10

(* A stream is put on top of what is left to read. *)
LEMMA SwitchedRest ==
  ASSUME StackInv, LeftInv, NEW s \in StreamSet, scanSwitchStream(s),
         ~ s.eof, ~ (depth > RecursionMax)
  PROVE  Rest' = Held(s) \o Rest /\ errs' = errs
<1> DEFINE n == Len(streams)
           next == streams'
           saved == Saved(top)
           left == Left(top)
           below == HeldFrom(streams)[n - 1]
<1>1. /\ next \in Seq(StreamSet) /\ Len(next) = n + 1
      /\ \A i \in 1 .. n - 1 : next[i] = streams[i]
      /\ next[n] = saved /\ saved \in StreamSet /\ next[n + 1] = s
      /\ unread' = <<>> /\ errs' = errs
  BY SwitchedShape DEF StackInv
<1>2. /\ n \in Nat \ {0} /\ top = streams[n] /\ top \in StreamSet
      /\ top.text \in Seq(Items) /\ unread \in Seq(Items) /\ streams \in Seq(StreamSet)
      /\ unread \in Seq(Pieces) /\ top.text \in Seq(Pieces)
  BY StreamParts, PiecesAreItems DEF StackInv, StreamsKind
<1>3. top' = s
  BY <1>1 DEF top, Last
<1>4. Rest' = <<>> \o HeldFrom(next)[Len(next)]
  BY <1>1, <1>3 DEF Rest, isEof
<1> HIDE DEF next
<1>5. /\ HeldFrom(next)[n + 1] = Held(s) \o HeldFrom(next)[n]
      /\ HeldFrom(next)[n] = Held(saved) \o HeldFrom(next)[n - 1]
      /\ HeldFrom(next)[n + 1] \in Seq(Items)
  <2>1. /\ n + 1 \in 1 .. Len(next) /\ (n + 1) - 1 = n /\ n \in 1 .. Len(next)
        /\ n + 1 \in 0 .. Len(next)
    BY <1>1, <1>2
  <2>2. HeldFrom(next)[n + 1] = Held(next[n + 1]) \o HeldFrom(next)[(n + 1) - 1]
    BY <1>1, <2>1, HeldFromIs
  <2>3. HeldFrom(next)[n] = Held(next[n]) \o HeldFrom(next)[n - 1]
    BY <1>1, <2>1, HeldFromIs
  <2>4. HeldFrom(next)[n + 1] \in Seq(Items)
    BY <1>1, <2>1, HeldFromIs
  <2> QED
    BY <1>1, <2>1, <2>2, <2>3, <2>4
<1>6. HeldFrom(next)[n - 1] = below /\ below \in Seq(Items)
  <2>1. /\ n - 1 \in Nat /\ n - 1 <= Len(next) /\ n - 1 <= Len(streams)
        /\ n - 1 \in 0 .. Len(streams)
    BY <1>1, <1>2
  <2>2. \A i \in 1 .. n - 1 : next[i] = streams[i]
    BY <1>1
  <2>3. HeldFrom(next)[n - 1] = HeldFrom(streams)[n - 1]
    <3> DEFINE m == n - 1
    <3>1. m \in Nat /\ m <= Len(next) /\ m <= Len(streams) /\ \A i \in 1 .. m : next[i] = streams[i]
      BY <2>1, <2>2
    <3> HIDE DEF m
    <3>2. HeldFrom(next)[m] = HeldFrom(streams)[m]
      BY <1>1, <1>2, <3>1, HeldAlike
    <3> QED
      BY <3>2 DEF m
  <2>4. below \in Seq(Items)
    BY <1>2, <2>1, HeldFromIs
  <2> QED
    BY <2>3, <2>4
<1>7. /\ Held(saved) = (unread \o top.text) \o left
      /\ Held(top) = top.text \o left /\ left \in Seq(Items)
  <2>1. /\ saved.text = unread \o top.text /\ saved.file = top.file
        /\ saved.term = top.term /\ saved.fl = top.fl
    BY <1>2 DEF Saved, StreamSet
  <2>2. Left(saved) = left
    BY <2>1 DEF Left
  <2> HIDE DEF saved
  <2> QED
    BY <1>1, <1>2, <2>1, <2>2, LeftShape
<1>8. Rest' = Held(s) \o (((unread \o top.text) \o left) \o below)
  <2> DEFINE all == HeldFrom(next)[n + 1]
  <2>1. all \in Seq(Items) /\ Rest' = <<>> \o all
    BY <1>1, <1>4, <1>5
  <2>2. all = Held(s) \o (((unread \o top.text) \o left) \o below)
    BY <1>5, <1>6, <1>7
  <2> HIDE DEF all
  <2>3. Rest' = all
    BY <2>1, ConcatEmptySeq
  <2> QED
    BY <2>2, <2>3
<1>9. CASE ~ isEof
  <2> DEFINE text == top.text
  <2>1. Rest = unread \o ((text \o left) \o below)
    <3>1. n \in 1 .. Len(streams)
      BY <1>2
    <3>2. HeldFrom(streams)[n] = Held(top) \o below
      BY <1>2, <3>1, HeldFromIs
    <3> QED
      BY <1>7, <1>9, <3>2 DEF Rest
  <2>2. text \in Seq(Items)
    BY <1>2
  <2> HIDE DEF text, left, below
  <2>3. ((unread \o text) \o left) \o below = unread \o ((text \o left) \o below)
    <3>1. Texts(unread, text, left, below)
      BY <1>2, <1>6, <1>7, <2>2 DEF Texts
    <3>2. Regrouped(unread, text, left, below)
      BY <3>1, Regroup, Zenon
    <3> DEFINE u == unread \o text
    <3>3. u \in Seq(Items)
      BY <1>2, <2>2, ConcatProperties
    <3> HIDE DEF u
    <3>4. Texts(u, left, below, below)
      BY <1>6, <1>7, <3>3 DEF Texts
    <3>5. Associates(u, left, below)
      BY <3>4, Associate, Zenon
    <3>6. (u \o left) \o below = u \o (left \o below)
      BY <3>5 DEF Associates
    <3>7. u \o (left \o below) = unread \o ((text \o left) \o below)
      BY <3>2 DEF u, Regrouped
    <3> QED
      BY <3>6, <3>7 DEF u
  <2> QED
    BY <1>1, <1>8, <2>1, <2>3 DEF text
<1>10. CASE isEof
  <2>1. n = 1
    <3>1. n \notin 2 .. Len(streams)
      BY <1>2, <1>10 DEF StackInv, TopStops, isEof
    <3> QED
      BY <1>2, <3>1, AboveOne
  <2>2. unread = <<>> /\ top.text = <<>> /\ ~ top.file
    BY <1>2, <1>10, <2>1 DEF LeftInv, Stopped, AllRead, StackInv, EofIsEntryZero
  <2>3. left = <<>>
    BY <2>2 DEF Left
  <2>4. below = <<>>
    <3>1. n - 1 = 0
      BY <2>1
    <3>2. HeldFrom(streams)[0] = <<>>
      BY <1>2, HeldFromIs
    <3> QED
      BY <3>1, <3>2
  <2>5. Rest' = Held(s) \o (((<<>> \o <<>>) \o <<>>) \o <<>>)
    BY <1>8, <2>2, <2>3, <2>4
  <2>6. ((<<>> \o <<>>) \o <<>>) \o <<>> = <<>>
    BY ConcatEmptySeq
  <2> QED
    BY <1>1, <1>10, <2>5, <2>6 DEF Rest
<1> QED
  BY <1>9, <1>10

(* A stopped stream: nothing more is read. *)
LEMMA FakedRefines ==
  ASSUME StackInv, NEW more \in Seq(Pieces), FakeEof(more), depth > RecursionMax
  PROVE  AbsStep
<1>1. isEof'
  BY FakedStack DEF Stopped
<1>2. Rest' = <<>> /\ errs' = TRUE
  BY <1>1 DEF Rest, FakeEof
<1> QED
  BY <1>2 DEF AbsStep, Abs!AbsNext, Abs!GiveUp

(* A refused insertion: only the error is new. *)
LEMMA RefusedRefines ==
  ASSUME errs' = TRUE, UNCHANGED <<streams, unread>>
  PROVE  AbsStep
<1>1. UNCHANGED Rest
  BY DEF Rest, isEof, top
<1> QED
  BY <1>1 DEF AbsStep, Abs!AbsNext, Abs!Refuse

(* The text that a token stands for is inserted. *)
LEMMA UnputRest ==
  ASSUME StackInv, LeftInv, NEW s \in Bodies, Unput(s), ~ (depth > RecursionMax)
  PROVE  Rest' = s \o Rest /\ errs' = errs
<1> DEFINE new == Stream(top.fl, s, FALSE)
<1>1. scanSwitchStream(new)
  BY DEF Unput
<1>2. top.fl \in Files \cup {NoFile} /\ s \in Seq(Pieces)
  BY StreamParts, TextsArePieces DEF StackInv
<1>3. new \in StreamSet /\ ~ new.eof
  BY <1>2, NewStream
<1>4. Held(new) = s
  <2>1. new.text = s /\ ~ new.file
    BY DEF Stream
  <2>2. Held(new) = s \o <<>>
    BY <2>1 DEF Held
  <2> QED
    BY <1>2, <2>2, ConcatEmptySeq
<1> HIDE DEF new
<1> QED
  BY <1>1, <1>3, <1>4, SwitchedRest

LEMMA UnputRefines ==
  ASSUME StackInv, LeftInv, NEW s \in Bodies, Unput(s)
  PROVE  AbsStep
<1>1. s \in Seq(Pieces) /\ <<>> \in Seq(Pieces)
  BY TextsArePieces
<1>2. CASE depth > RecursionMax
  BY <1>1, <1>2, FakedRefines DEF Unput
<1>3. CASE ~ (depth > RecursionMax)
  <2>1. Rest' = s \o Rest /\ errs' = errs
    BY <1>3, UnputRest
  <2> QED
    BY <2>1 DEF AbsStep, Abs!AbsNext, Abs!Insert
<1> QED
  BY <1>2, <1>3

(* A file is inserted, with its ending. *)
LEMMA NewFileRest ==
  ASSUME StackInv, LeftInv, NEW f \in Files, ~ (depth > RecursionMax),
         scanSwitchStream(Stream(f, Content[f], TRUE))
  PROVE  Rest' = (Content[f] \o Ending(f)) \o Rest /\ errs' = errs
<1> DEFINE new == Stream(f, Content[f], TRUE)
<1>1. Content[f] \in Seq(Pieces) /\ f \in Files \cup {NoFile}
  BY TextsArePieces
<1>2. new \in StreamSet /\ ~ new.eof
  BY <1>1, NewStream
<1>3. Held(new) = Content[f] \o Ending(f)
  <2>1. new.text = Content[f] /\ new.file /\ new.term = 0 /\ new.fl = f
    BY DEF Stream
  <2>2. SubSeq(Ending(f), 0 + 1, 4) = Ending(f)
    <3> DEFINE e == Ending(f)
    <3>1. e \in Seq(Items) /\ Len(e) = 4
      BY <1>1, EndingKinds
    <3> HIDE DEF e
    <3>2. SubSeq(e, 1, Len(e)) = e
      BY <3>1
    <3> QED
      BY <3>1, <3>2 DEF e
  <2> QED
    BY <2>1, <2>2 DEF Held
<1>4. scanSwitchStream(new)
  OBVIOUS
<1> HIDE DEF new
<1> QED
  BY <1>2, <1>3, <1>4, SwitchedRest

LEMMA OpenFileRefines ==
  ASSUME StackInv, LeftInv, NEW f \in Files, OpenFile(f)
  PROVE  AbsStep
<1>1. CASE errs' = TRUE /\ token' = Newline /\ UNCHANGED <<streams, depth, unread>>
  BY <1>1, RefusedRefines
<1>2. CASE depth > RecursionMax /\ FakeEof(Content[f])
  BY <1>2, TextsArePieces, FakedRefines
<1>3. CASE /\ ~ (depth > RecursionMax)
           /\ scanSwitchStream(Stream(f, Content[f], TRUE))
  <2>1. Rest' = (Content[f] \o Ending(f)) \o Rest /\ errs' = errs
    BY <1>3, NewFileRest
  <2>2. Abs!Ending(f) = Ending(f)
    BY DEF Abs!Ending, Ending, Abs!Newline, Newline, Abs!FileEnd, FileEnd,
           Abs!Leave, Leave, Abs!Resume, Resume, Abs!Item, Item
  <2> QED
    BY <2>1, <2>2 DEF AbsStep, Abs!AbsNext, Abs!Include
<1> QED
  <2>1. depth <= RecursionMax => ~ (depth > RecursionMax)
    BY StreamsAssumption DEF StackInv, StreamsKind
  <2> QED
    BY <1>1, <1>2, <1>3, <2>1 DEF OpenFile

LEMMA StepRefines == StreamInv /\ [StreamNext]_streamVars => AbsStep
<1> SUFFICES ASSUME StreamInv, [StreamNext]_streamVars PROVE AbsStep
  OBVIOUS
<1> USE DEF StreamInv
<1>1. ASSUME NEW k \in 1 .. Len(streams), FillText(k) PROVE AbsStep
  BY <1>1, FillTextRest DEF AbsStep
<1>2. ASSUME NEW k \in 1 .. Len(streams), FillEnding(k) PROVE AbsStep
  BY <1>2, FillEndingRefines
<1>3. ASSUME NEW k \in 1 .. Len(streams), FillResume(k) PROVE AbsStep
  BY <1>3, FillResumeRest, ResumesOne
<1>4. CASE Scan
  BY <1>4, ScanRest, ReadsOne
<1>5. ASSUME NEW s \in Bodies, Unput(s) PROVE AbsStep
  BY <1>5, UnputRefines
<1>6. ASSUME NEW f \in Files, OpenFile(f) PROVE AbsStep
  BY <1>6, OpenFileRefines
<1>7. CASE UNCHANGED streamVars
  BY <1>7 DEF streamVars, AbsStep, Rest, isEof, top
<1> QED
  BY <1>1, <1>2, <1>3, <1>4, <1>5, <1>6, <1>7
     DEF StreamNext, Reading, Inserting, Fill

LEMMA InitRefines == StreamInit => Abs!AbsInit
<1> SUFFICES ASSUME StreamInit PROVE Abs!AbsInit
  OBVIOUS
<1>1. StackInv /\ depth = 1
  BY InitGood DEF StreamInit, StreamInv
<1>2. top.eof
  BY <1>1, StreamParts DEF StackInv, DepthIsSize, EofIsEntryZero
<1> QED
  BY <1>2 DEF StreamInit, Abs!AbsInit, Rest, isEof

(* Whatever the sizes of refills, the files, what macros put back and the  *)
(* limits: what flex and the stack of streams hold is one text, read in    *)
(* the order of plain textual insertion.  Saving unread text in a stream   *)
(* that it did not come from loses and reorders nothing, each file ends    *)
(* once, and the file named when one ends is the one that goes on.         *)
THEOREM ReadsPendingText == StreamSpec => ImplementsPendingText
<1>1. StreamInv /\ [StreamNext]_streamVars => [Abs!AbsNext]_<<Rest, errs>>
  BY StepRefines DEF AbsStep
<1> QED
  BY <1>1, InitRefines, StreamInvAlways, PTL
     DEF StreamSpec, ImplementsPendingText, Abs!AbsSpec
-----------------------------------------------------------------------------
(* Expansion of macros: each step is one of the stack of streams, or the   *)
(* refusal of a reference.                                                 *)
ExpandInv == StreamInv /\ defDepth \in 0 .. RecursionMax + 1 /\ value \in Bodies

LEMMA ExpandStepGood == ExpandInv /\ [ExpandNext]_expandVars => ExpandInv'
<1> SUFFICES ASSUME ExpandInv, [ExpandNext]_expandVars PROVE ExpandInv'
  OBVIOUS
<1>1. StreamInv /\ StackInv /\ LeftInv /\ defDepth \in Nat /\ RecursionMax \in Nat
  BY StreamsAssumption DEF ExpandInv, StreamInv
<1>2. CASE ReadAhead
  BY <1>1, <1>2, StepGood DEF ExpandInv, ReadAhead, StreamNext, Reading
<1>3. CASE Match
  <2>1. StreamInv' /\ defDepth' \in {0, defDepth} /\ value' = value
    BY <1>1, <1>3, StepGood DEF Match, StreamNext, Reading
  <2> QED
    BY <1>1, <2>1 DEF ExpandInv
<1>4. CASE RefuseReference
  <2>1. StreamInv'
    BY <1>1, <1>4, RefusedKeeps DEF RefuseReference, StreamInv
  <2> QED
    BY <1>4, <2>1 DEF ExpandInv, RefuseReference
<1>5. CASE Substitute
  <2>1. StreamInv'
    BY <1>1, <1>5, StepGood DEF ExpandInv, Substitute, StreamNext, Inserting
  <2>2. defDepth + 1 \in 0 .. RecursionMax + 1
    BY <1>1, <1>5 DEF Substitute, TooDeep
  <2> QED
    BY <1>5, <2>1, <2>2 DEF ExpandInv, Substitute
<1>6. CASE Open
  BY <1>1, <1>6, StepGood DEF ExpandInv, Open, StreamNext, Inserting
<1>7. CASE UNCHANGED expandVars
  BY <1>1, <1>7, StepGood DEF ExpandInv, expandVars
<1> QED
  BY <1>2, <1>3, <1>4, <1>5, <1>6, <1>7 DEF ExpandNext, Turn

LEMMA ExpandInvAlways == ExpandSpec => []ExpandInv
<1>1. ExpandInit => ExpandInv
  BY InitGood, StreamsAssumption DEF ExpandInit, ExpandInv
<1> QED
  BY <1>1, ExpandStepGood, PTL DEF ExpandSpec

(* m_defDepth exceeds the limit by one at most, whatever the definition    *)
(* and the text: a reference that finds it there is dropped.  The stack is *)
(* as sound as under any other insertions.                                 *)
THEOREM ExpandTyped == ExpandSpec => []ExpandTypeOK
<1>1. ExpandInv => ExpandTypeOK
  BY StreamParts DEF ExpandInv, ExpandTypeOK, StreamTypeOK, StreamInv, StackInv, StreamsKind
<1> QED
  BY <1>1, ExpandInvAlways, PTL

(* Substitution of macros that refer to macros, and its refusal, read text *)
(* in the order of plain textual insertion too, though flex has read past  *)
(* each reference before it is substituted.                                *)
THEOREM ExpansionReadsPendingText == ExpandSpec => ImplementsPendingText
<1>1. ASSUME ExpandInv, [ExpandNext]_expandVars PROVE AbsStep
  <2>1. StreamInv
    BY <1>1 DEF ExpandInv
  <2>2. CASE [StreamNext]_streamVars
    BY <2>1, <2>2, StepRefines
  <2>3. CASE RefuseReference
    BY <2>3, RefusedRefines DEF RefuseReference
  <2>4. ReadAhead \/ Match \/ Substitute \/ Open \/ UNCHANGED expandVars =>
          [StreamNext]_streamVars
    BY <1>1 DEF ExpandInv, ReadAhead, Match, Substitute, Open, expandVars,
                StreamNext, Reading, Inserting
  <2> QED
    BY <1>1, <2>2, <2>3, <2>4 DEF ExpandNext, Turn
<1>2. ExpandInv /\ [ExpandNext]_expandVars => [Abs!AbsNext]_<<Rest, errs>>
  BY <1>1 DEF AbsStep
<1>3. ExpandInit => Abs!AbsInit
  BY InitRefines DEF ExpandInit
<1> QED
  BY <1>2, <1>3, ExpandInvAlways, PTL
     DEF ExpandSpec, ImplementsPendingText, Abs!AbsSpec
-----------------------------------------------------------------------------
(* Errors.  The count of substitutions never exceeds what a numbering of   *)
(* the text still to be read allows; and at most one macro lies on the     *)
(* file, for a reference is read from the file when that macro is spent.   *)
Limit == RecursionMax + 1
Counts(t, d, c) ==
  /\ c \in [Nat -> 0 .. Limit] /\ c[0] >= d
  /\ \A i \in 1 .. Len(t) :
       /\ t[i].kind = "reference" => c[i] > c[i - 1]
       /\ t[i].kind # "text" => c[i] >= c[i - 1]
Counted(t, d) == \E c \in [Nat -> 0 .. Limit] : Counts(t, d, c)

Reached == IF token.kind = "reference" THEN defDepth + 1 ELSE defDepth
OneMacro ==
  Len(streams) = 3 => /\ WantsToken /\ ~ Refers(unread)
                      /\ ~ Refers(streams[3].text) /\ ~ streams[3].file
PlainInv ==
  ~ Refers(value) =>
    ~ errs /\ Len(streams) <= 3 /\ OneMacro /\ Counted(Rest, Reached)

LEMMA LimitIs == RecursionMax \in Nat /\ Limit \in Nat /\ Limit = RecursionMax + 1
<1>1. RecursionMax \in Nat
  BY StreamsAssumption
<1> QED
  BY <1>1 DEF Limit

LEMMA CountIs ==
  ASSUME NEW c \in [Nat -> 0 .. Limit]
  PROVE  \A n \in Nat : c[n] \in Nat /\ c[n] <= Limit
<1>1. ASSUME NEW n \in Nat PROVE c[n] \in 0 .. Limit
  OBVIOUS
<1> QED
  BY <1>1, LimitIs

LEMMA CountedEmpty ==
  ASSUME NEW d \in 0 .. Limit
  PROVE  Counted(<<>>, d)
<1> DEFINE c == [n \in Nat |-> d]
<1>1. c \in [Nat -> 0 .. Limit] /\ c[0] >= d
  BY LimitIs
<1>2. Counts(<<>>, d, c)
  BY <1>1 DEF Counts
<1> QED
  BY <1>1, <1>2 DEF Counted

(* The places of two texts in a row. *)
LEMMA Places ==
  ASSUME NEW m \in Nat, NEW n \in Nat, NEW i \in 1 .. m + n
  PROVE  /\ i \in Nat /\ i - 1 \in Nat
         /\ i <= m \/ i > m
         /\ i <= m => i \in 1 .. m /\ i - 1 <= m
         /\ i > m => /\ i - m \in 1 .. n /\ m + (i - m) = i
                     /\ i - m \in Nat /\ i - m - 1 \in Nat
                     /\ i - 1 > m => i - 1 - m = i - m - 1
                     /\ i - 1 <= m => i - m - 1 = 0
OBVIOUS

LEMMA Grows ==
  ASSUME NEW x \in Nat, NEW y \in Nat, NEW z \in Nat, z <= y
  PROVE  (x > y => x > z) /\ (x >= y => x >= z)
OBVIOUS

(* The first of a text is read. *)
LEMMA CountedTail ==
  ASSUME NEW x \in Items, NEW r \in Seq(Items), NEW d \in Nat, NEW e \in Nat,
         Counted(<<x>> \o r, d),
         x.kind = "text" => e = 0,
         x.kind = "reference" => e = d + 1,
         x.kind \notin {"text", "reference"} => e = d
  PROVE  Counted(r, e)
<1> DEFINE t == <<x>> \o r
<1>1. /\ t \in Seq(Items) /\ Len(t) = 1 + Len(r) /\ t[1] = x /\ Len(r) \in Nat
      /\ \A i \in 1 .. Len(r) : t[1 + i] = r[i]
  <2>1. <<x>> \in Seq(Items) /\ Len(<<x>>) = 1 /\ <<x>>[1] = x /\ Len(r) \in Nat
    OBVIOUS
  <2>2. t \in Seq(Items) /\ Joining(t, <<x>>, r)
    BY <2>1, Joined
  <2> HIDE DEF t
  <2> QED
    BY <2>1, <2>2 DEF Joining
<1>2. PICK c \in [Nat -> 0 .. Limit] : Counts(t, d, c)
  BY DEF Counted
<1> HIDE DEF t
<1> DEFINE a == [n \in Nat |-> c[n + 1]]
<1>3. a \in [Nat -> 0 .. Limit] /\ \A n \in Nat : a[n] = c[n + 1]
  OBVIOUS
<1>6. \A n \in Nat : c[n] \in Nat
  BY CountIs
<1> HIDE DEF a
<1>4. a[0] >= e
  <2>1. /\ c[0] >= d /\ 1 \in 1 .. Len(t) /\ a[0] = c[1] /\ c[1] \in Nat
        /\ c[0] \in Nat
    BY <1>1, <1>2, <1>3, <1>6 DEF Counts
  <2>2. /\ x.kind = "reference" => c[1] > c[0]
        /\ x.kind # "text" => c[1] >= c[0]
    <3>1. 1 - 1 = 0
      OBVIOUS
    <3> QED
      BY <1>1, <1>2, <2>1, <3>1 DEF Counts
  <2>3. \/ e = 0
        \/ e = d + 1 /\ c[1] > c[0]
        \/ e = d /\ c[1] >= c[0]
    BY <2>2, Zenon
  <2>4. ASSUME NEW p \in Nat, NEW q \in Nat, p >= d,
               e = 0 \/ (e = d + 1 /\ q > p) \/ (e = d /\ q >= p)
        PROVE  q >= e
    BY <2>4
  <2> QED
    BY <2>1, <2>3, <2>4
<1>5. ASSUME NEW i \in 1 .. Len(r)
      PROVE  /\ r[i].kind = "reference" => a[i] > a[i - 1]
             /\ r[i].kind # "text" => a[i] >= a[i - 1]
  <2>1. /\ 1 + i \in 1 .. Len(t) /\ t[1 + i] = r[i] /\ (1 + i) - 1 = i
        /\ a[i] = c[1 + i] /\ a[i - 1] = c[i]
    <3>1. i \in Nat /\ i - 1 \in Nat /\ i - 1 + 1 = i /\ 1 + i = i + 1
      OBVIOUS
    <3>2. 1 + i \in 1 .. Len(t)
      <4> DEFINE n == Len(r)
      <4>1. n \in Nat /\ i \in 1 .. n /\ Len(t) = 1 + n
        BY <1>1
      <4> HIDE DEF n
      <4> QED
        BY <4>1
    <3>3. t[1 + i] = r[i]
      BY <1>1
    <3>4. a[i] = c[i + 1] /\ a[i - 1] = c[i - 1 + 1]
      BY <1>3, <3>1
    <3>5. (1 + i) - 1 = i
      BY <3>1
    <3>6. a[i] = c[1 + i] /\ a[i - 1] = c[i]
      BY <3>1, <3>4, Zenon
    <3> QED
      BY <3>2, <3>3, <3>5, <3>6, Zenon
  <2> QED
    BY <1>2, <2>1 DEF Counts
<1> QED
  BY <1>3, <1>4, <1>5 DEF Counts, Counted

(* Text without references is put in front. *)
LEMMA CountedAfter ==
  ASSUME NEW s \in Seq(Items), ~ Refers(s), NEW r \in Seq(Items),
         NEW d \in 0 .. Limit, Counted(r, d)
  PROVE  Counted(s \o r, d)
<1> DEFINE t == s \o r
<1>0. Len(s) \in Nat /\ Len(r) \in Nat
  OBVIOUS
<1>1. /\ t \in Seq(Items) /\ Len(t) = Len(s) + Len(r)
      /\ \A i \in 1 .. Len(s) : t[i] = s[i]
      /\ \A i \in 1 .. Len(r) : t[Len(s) + i] = r[i]
  <2>1. t \in Seq(Items) /\ Joining(t, s, r)
    BY Joined
  <2> HIDE DEF t
  <2> QED
    BY <2>1 DEF Joining
<1> HIDE DEF t
<1>2. PICK c \in [Nat -> 0 .. Limit] : Counts(r, d, c)
  BY DEF Counted
<1> DEFINE m == Len(s)
           a == [n \in Nat |-> IF n <= m THEN d ELSE c[n - m]]
<1>3. m \in Nat /\ Len(r) \in Nat /\ d \in Nat /\ d <= Limit /\ Limit \in Nat
  <2> HIDE DEF a
  <2> QED
    BY <1>0, LimitIs
<1>4. ASSUME NEW n \in Nat PROVE (IF n <= m THEN d ELSE c[n - m]) \in 0 .. Limit
  <2>1. CASE n <= m
    BY <2>1
  <2>2. CASE ~ (n <= m)
    <3>1. n - m \in Nat
      BY <1>3, <2>2
    <3> HIDE DEF m
    <3>2. c[n - m] \in 0 .. Limit
      BY <3>1
    <3> QED
      BY <2>2, <3>2
  <2> QED
    BY <2>1, <2>2
<1>5. /\ a \in [Nat -> 0 .. Limit]
      /\ \A n \in Nat : n <= m => a[n] = d
      /\ \A n \in Nat : n > m => a[n] = c[n - m]
  <2> HIDE DEF m
  <2>1. a \in [Nat -> 0 .. Limit]
    BY <1>4
  <2>2. \A n \in Nat : a[n] = IF n <= m THEN d ELSE c[n - m]
    OBVIOUS
  <2> HIDE DEF a
  <2>3. ASSUME NEW n \in Nat, n > m PROVE ~ (n <= m)
    BY <1>3, <2>3
  <2> QED
    BY <2>1, <2>2, <2>3
<1>6. c[0] >= d /\ \A n \in Nat : c[n] \in Nat
  BY <1>2, CountIs DEF Counts
<1> HIDE DEF m, a
<1>7. a[0] >= d
  BY <1>3, <1>5
<1>8. ASSUME NEW i \in 1 .. Len(t)
      PROVE  /\ t[i].kind = "reference" => a[i] > a[i - 1]
             /\ t[i].kind # "text" => a[i] >= a[i - 1]
  <2> DEFINE j == i - m
  <2>0. Len(t) = m + Len(r)
    BY <1>1 DEF m
  <2>1. /\ i \in Nat /\ i - 1 \in Nat
        /\ i <= m \/ i > m
        /\ i <= m => i \in 1 .. m /\ i - 1 <= m
        /\ i > m => /\ j \in 1 .. Len(r) /\ m + j = i
                    /\ j \in Nat /\ j - 1 \in Nat
                    /\ i - 1 > m => i - 1 - m = j - 1
                    /\ i - 1 <= m => j - 1 = 0
    <3> HIDE DEF m
    <3>1. i \in 1 .. m + Len(r)
      BY <2>0
    <3> QED
      BY <1>3, <3>1, Places
  <2>2. CASE i <= m
    <3>1. a[i] = d /\ a[i - 1] = d
      BY <1>5, <2>1, <2>2
    <3>2. t[i].kind # "reference"
      BY <1>1, <2>1, <2>2 DEF Refers, m
    <3>3. a[i] >= a[i - 1]
      BY <1>3, <3>1
    <3> QED
      BY <3>2, <3>3, Zenon
  <2>3. CASE i > m
    <3> HIDE DEF j
    <3>1. t[i] = r[j]
      BY <1>1, <2>1, <2>3 DEF m
    <3>2. a[i] = c[j]
      BY <1>5, <2>1, <2>3 DEF j
    <3>3. a[i - 1] <= c[j - 1] /\ a[i - 1] \in Nat
      <4>1. CASE i - 1 > m
        <5>1. a[i - 1] = c[j - 1]
          BY <1>5, <2>1, <2>3, <4>1
        <5> QED
          BY <1>6, <2>1, <2>3, <5>1
      <4>2. CASE i - 1 <= m
        <5>1. a[i - 1] = d /\ j - 1 = 0
          BY <1>5, <2>1, <2>3, <4>2
        <5> QED
          BY <1>3, <1>6, <5>1
      <4> QED
        BY <1>3, <2>1, <4>1, <4>2
    <3>4. /\ r[j].kind = "reference" => c[j] > c[j - 1]
          /\ r[j].kind # "text" => c[j] >= c[j - 1]
      BY <1>2, <2>1, <2>3 DEF Counts
    <3>5. c[j] \in Nat /\ c[j - 1] \in Nat
      BY <1>6, <2>1, <2>3
    <3>6. /\ c[j] > c[j - 1] => c[j] > a[i - 1]
          /\ c[j] >= c[j - 1] => c[j] >= a[i - 1]
      BY <3>3, <3>5, Grows
    <3> QED
      BY <3>1, <3>2, <3>4, <3>6, Zenon
  <2> QED
    BY <2>1, <2>2, <2>3
<1> QED
  BY <1>5, <1>7, <1>8 DEF Counts, Counted, t

(* A file's text, as it was before, and its ending. *)
LEMMA CountedFile ==
  ASSUME NEW f \in Files, FewInARow(Content[f]), NEW d \in 0 .. Limit
  PROVE  Counted(Content[f] \o Ending(f), d)
<1> DEFINE s == Content[f]
           e == Ending(f)
           t == s \o e
<1>1. /\ s \in Seq(Items) /\ e \in Seq(Items) /\ Len(e) = 4
      /\ \A i \in 1 .. 4 : e[i].kind # "reference"
  <2>1. s \in Seq(Items)
    BY TextsArePieces, PiecesAreItems
  <2>2. e \in Seq(Items) /\ Len(e) = 4
    BY EndingKinds
  <2>3. /\ e[1] = Newline /\ e[2] = FileEnd /\ e[3] = Leave(f) /\ e[4].kind = "resume after"
    BY EndingKinds DEF Abs!IsResume
  <2>4. /\ Newline.kind # "reference" /\ FileEnd.kind # "reference"
        /\ Leave(f).kind # "reference"
    BY DEF Newline, FileEnd, Leave, Item
  <2>5. \A i \in 1 .. 4 : i = 1 \/ i = 2 \/ i = 3 \/ i = 4
    OBVIOUS
  <2>6. "resume after" # "reference"
    OBVIOUS
  <2> HIDE DEF e
  <2> QED
    BY <2>1, <2>2, <2>3, <2>4, <2>5, <2>6
<1> HIDE DEF e, s
<1>2. /\ t \in Seq(Items) /\ Len(t) = Len(s) + 4
      /\ \A i \in 1 .. Len(s) : t[i] = s[i]
      /\ \A i \in 1 .. 4 : t[Len(s) + i] = e[i]
  <2>1. t \in Seq(Items) /\ Joining(t, s, e)
    BY <1>1, Joined
  <2> HIDE DEF t
  <2> QED
    BY <1>1, <2>1 DEF Joining
<1> HIDE DEF t
<1>3. PICK c \in [0 .. Len(s) -> 0 .. Limit] : Numbers(s, c)
  BY DEF FewInARow, s, Limit
<1> DEFINE a == [n \in Nat |-> IF n <= Len(s) THEN c[n] ELSE Limit]
<1>4. Len(s) \in Nat /\ Limit \in Nat /\ c[0] = Limit
  BY <1>1, <1>3, LimitIs DEF Numbers
<1>5. \A n \in Nat : (IF n <= Len(s) THEN c[n] ELSE Limit) \in 0 .. Limit
  BY <1>4
<1>6. /\ a \in [Nat -> 0 .. Limit]
      /\ \A n \in Nat : n <= Len(s) => a[n] = c[n]
      /\ \A n \in Nat : n > Len(s) => a[n] = Limit
  BY <1>4, <1>5
<1> HIDE DEF a
<1>7. a[0] >= d
  BY <1>4, <1>6
<1>8. ASSUME NEW i \in 1 .. Len(t)
      PROVE  /\ t[i].kind = "reference" => a[i] > a[i - 1]
             /\ t[i].kind # "text" => a[i] >= a[i - 1]
  <2> DEFINE m == Len(s)
  <2>0. m \in Nat /\ 4 \in Nat /\ Len(t) = m + 4
    BY <1>2, <1>4
  <2>1. /\ i \in Nat /\ i - 1 \in Nat
        /\ i <= m \/ i > m
        /\ i <= m => i \in 1 .. m /\ i - 1 <= m
        /\ i > m => i - m \in 1 .. 4 /\ m + (i - m) = i
    <3> HIDE DEF m
    <3> QED
      BY <2>0, Places
  <2>2. CASE i <= m
    <3>1. t[i] = s[i] /\ a[i] = c[i] /\ a[i - 1] = c[i - 1]
      BY <1>2, <1>6, <2>1, <2>2
    <3> QED
      BY <1>3, <2>1, <2>2, <3>1 DEF Numbers
  <2>3. CASE i > m
    <3>1. t[i].kind # "reference"
      BY <1>1, <1>2, <2>1, <2>3
    <3>2. a[i] = Limit
      BY <1>6, <2>1, <2>3
    <3>3. a[i - 1] \in Nat /\ a[i - 1] <= Limit
      BY <1>6, <2>1, CountIs
    <3> QED
      BY <1>4, <3>1, <3>2, <3>3
  <2> QED
    BY <2>1, <2>2, <2>3
<1> QED
  BY <1>6, <1>7, <1>8 DEF Counts, Counted, t, s, e

(* Texts without references. *)
LEMMA PlainParts ==
  ASSUME NEW s \in Seq(Pieces), ~ Refers(s)
  PROVE  /\ \A n \in 0 .. Len(s) : ~ Refers(SubSeq(s, 1, n))
         /\ \A n \in 1 .. Len(s) : ~ Refers(SubSeq(s, n + 1, Len(s)))
         /\ s # <<>> => Head(s).kind # "reference" /\ ~ Refers(Tail(s))
         /\ \A t \in Seq(Pieces) : ~ Refers(t) => ~ Refers(s \o t)
<1>1. Len(s) \in Nat /\ \A i \in 1 .. Len(s) : s[i].kind # "reference"
  BY DEF Refers
<1>2. ASSUME NEW n \in 0 .. Len(s) PROVE ~ Refers(SubSeq(s, 1, n))
  BY <1>1, PrefixProperties DEF Refers
<1>3. ASSUME NEW n \in 1 .. Len(s) PROVE ~ Refers(SubSeq(s, n + 1, Len(s)))
  <2> DEFINE r == SubSeq(s, n + 1, Len(s))
  <2>1. Len(r) = Len(s) - n /\ \A i \in 1 .. Len(s) - n : r[i] = s[n + i]
    BY <1>1
  <2> HIDE DEF r
  <2>2. \A i \in 1 .. Len(s) - n : n + i \in 1 .. Len(s)
    BY <1>1
  <2>3. ~ Refers(r)
    BY <1>1, <2>1, <2>2 DEF Refers
  <2> QED
    BY <2>3 DEF r
<1>4. ASSUME s # <<>> PROVE Head(s).kind # "reference" /\ ~ Refers(Tail(s))
  <2>1. 1 \in 1 .. Len(s) /\ Head(s) = s[1]
    BY <1>1, <1>4
  <2>2. Tail(s) = SubSeq(s, 1 + 1, Len(s))
    BY <1>4, TailIsSubSeq
  <2> QED
    BY <1>1, <1>3, <2>1, <2>2
<1>5. ASSUME NEW t \in Seq(Pieces), ~ Refers(t) PROVE ~ Refers(s \o t)
  <2> DEFINE u == s \o t
  <2>1. /\ Len(u) = Len(s) + Len(t) /\ Len(t) \in Nat
        /\ \A i \in 1 .. Len(s) : u[i] = s[i]
        /\ \A i \in 1 .. Len(t) : u[Len(s) + i] = t[i]
    <3>1. u \in Seq(Pieces) /\ Joining(u, s, t) /\ Len(t) \in Nat
      BY Joined
    <3> HIDE DEF u
    <3> QED
      BY <3>1 DEF Joining
  <2> HIDE DEF u
  <2>2. ASSUME NEW i \in 1 .. Len(u) PROVE u[i].kind # "reference"
    <3>1. CASE i <= Len(s)
      BY <1>1, <2>1, <3>1
    <3>2. CASE i > Len(s)
      <4>1. i - Len(s) \in 1 .. Len(t) /\ Len(s) + (i - Len(s)) = i
        BY <1>1, <2>1, <3>2
      <4> QED
        BY <1>5, <2>1, <4>1 DEF Refers
    <3> QED
      BY <1>1, <2>1, <3>1, <3>2
  <2>3. ~ Refers(u)
    BY <2>2 DEF Refers
  <2> QED
    BY <2>3 DEF u
<1> QED
  BY <1>2, <1>3, <1>4, <1>5

(* The stack when no error was reported. *)
LEMMA PlainStack ==
  ASSUME StackInv, ~ errs
  PROVE  /\ Len(streams) \in Nat \ {0} /\ depth = Len(streams)
         /\ isEof <=> Len(streams) = 1
         /\ ~ streams[1].file /\ streams[1].eof /\ Rest \in Seq(Items)
         /\ isEof => Rest = <<>>
<1>1. Len(streams) \in Nat \ {0} /\ top = streams[Len(streams)] /\ depth = Len(streams)
  BY StreamParts DEF StackInv, DepthIsSize
<1>2. ~ streams[1].file /\ streams[1].eof
  BY DEF StackInv, EofIsEntryZero
<1>3. ASSUME Len(streams) # 1 PROVE ~ isEof
  <2>1. Len(streams) \in 2 .. Len(streams)
    BY <1>1, <1>3
  <2> QED
    BY <1>1, <2>1 DEF isEof, StackInv, EofIsEntryZero
<1>4. isEof => Rest = <<>>
  BY DEF Rest
<1>5. Rest \in Seq(Items)
  <2>1. unread \in Seq(Items) /\ streams \in Seq(StreamSet)
    BY PiecesAreItems DEF StackInv, StreamsKind
  <2>2. HeldFrom(streams)[Len(streams)] \in Seq(Items)
    <3>1. Len(streams) \in 0 .. Len(streams)
      BY <1>1
    <3> QED
      BY <2>1, <3>1, HeldFromIs
  <2>3. unread \o HeldFrom(streams)[Len(streams)] \in Seq(Items)
    BY <2>1, <2>2, ConcatProperties
  <2> QED
    BY <2>3 DEF Rest
<1> QED
  BY <1>1, <1>2, <1>3, <1>4, <1>5 DEF isEof

PlainFacts ==
  /\ ExpandInv /\ ~ Refers(value) /\ ~ errs
  /\ Len(streams) <= 3 /\ OneMacro /\ Counted(Rest, Reached)

LEMMA FilledTop ==
  ASSUME StackInv, NEW k \in 1 .. Len(streams), NEW s, NEW got, Filled(k, s, got)
  PROVE  /\ Len(streams') = k /\ streams'[k] = s
         /\ unread' = unread \o got /\ token' = token /\ errs' = errs
<1> DEFINE below == SubSeq(streams, 1, k - 1)
           T == StreamSet \cup {s}
<1>1. streams \in Seq(StreamSet) /\ Len(streams) \in Nat /\ k - 1 \in 0 .. Len(streams)
  BY DEF StackInv, StreamsKind
<1>2. below \in Seq(StreamSet) /\ Len(below) = k - 1 /\ k - 1 \in Nat /\ k - 1 + 1 = k
  BY <1>1, PrefixProperties
<1>3. streams' = Append(below, s)
  BY DEF Filled
<1> HIDE DEF below
<1>4. below \in Seq(T) /\ s \in T
  BY <1>2
<1> HIDE DEF T
<1>5. Len(streams') = k /\ streams'[k] = s
  BY <1>2, <1>3, <1>4
<1> QED
  BY <1>5 DEF Filled

(* flex reads on.  The macro on the third place gives what it holds or is  *)
(* popped; a file that ends was on the second.                             *)
LEMMA PlainFill ==
  ASSUME PlainFacts, ReadAhead
  PROVE  PlainInv'
<1>1. /\ StackInv /\ LeftInv /\ WantsToken /\ UNCHANGED <<defDepth, value>>
      /\ defDepth \in 0 .. Limit /\ ~ errs /\ ~ Refers(value)
  BY DEF PlainFacts, ExpandInv, StreamInv, ReadAhead, Limit
<1>2. /\ Len(streams) \in 1 .. 3 /\ Reached = defDepth
      /\ ~ streams[1].file /\ streams[1].eof
      /\ Len(streams) = 3 => /\ ~ Refers(unread) /\ ~ Refers(streams[3].text)
                             /\ ~ streams[3].file
  BY <1>1, PlainStack DEF PlainFacts, OneMacro, WantsToken, Reached
<1>3. Counted(Rest, defDepth) /\ Rest \in Seq(Items)
  BY <1>1, <1>2, PlainStack DEF PlainFacts
<1>4. PICK k \in 1 .. Len(streams) : FillText(k) \/ FillEnding(k) \/ FillResume(k)
  BY DEF ReadAhead, Fill
<1> DEFINE s == streams[k]
<1>5. ASSUME token' = token, errs' = errs, Len(streams') <= 3,
             OneMacro', Counted(Rest', defDepth)
      PROVE  PlainInv'
  <2>1. Reached' = defDepth
    BY <1>1, <1>5 DEF WantsToken, Reached
  <2>2. Counted(Rest', Reached')
    BY <1>5, <2>1, Zenon
  <2>3. ~ errs'
    BY <1>1, <1>5, Zenon
  <2> QED
    BY <1>5, <2>2, <2>3, Zenon DEF PlainInv
<1>6. CASE FillText(k)
  <2> DEFINE n == Min({MaxRead, Len(s.text)})
             rem == SubSeq(s.text, n + 1, Len(s.text))
             got == SubSeq(s.text, 1, n)
             new == [s EXCEPT !.text = rem]
  <2>1. s.text # <<>> /\ Filled(k, new, got)
    BY <1>6 DEF FillText
  <2>2. s \in StreamSet /\ s.text \in Seq(Pieces)
    BY <1>1, StreamParts DEF StackInv
  <2>3. n \in 1 .. Len(s.text)
    <3>1. Len(s.text) \in Nat \ {0} /\ MaxRead \in Nat \ {0}
      BY <2>1, <2>2, StreamsAssumption
    <3> QED
      BY <3>1, MinOfTwo
  <2> HIDE DEF n
  <2>4. rem \in Seq(Pieces) /\ got \in Seq(Pieces)
    <3>1. n \in 0 .. Len(s.text)
      BY <2>3
    <3> QED
      BY <2>2, <2>3, <3>1, PrefixProperties, SuffixProperties
  <2>5. new \in StreamSet /\ new.text = rem /\ new.file = s.file
    <3> HIDE DEF rem
    <3> QED
      BY <2>2, <2>4, NewText
  <2>6. ASSUME k = 3 PROVE ~ Refers(rem) /\ ~ Refers(unread \o got) /\ ~ s.file
    <3>1. ~ Refers(s.text) /\ ~ Refers(unread) /\ ~ s.file
      BY <1>2, <2>6
    <3>2. unread \in Seq(Pieces) /\ n \in 0 .. Len(s.text)
      BY <1>1, <2>3 DEF StackInv, StreamsKind
    <3>3. ~ Refers(rem) /\ ~ Refers(got)
      BY <2>2, <2>3, <3>1, <3>2, PlainParts
    <3> HIDE DEF rem, got
    <3> QED
      BY <2>4, <3>1, <3>2, <3>3, PlainParts
  <2> HIDE DEF rem, got, new
  <2>7. /\ Len(streams') = k /\ streams'[k] = new /\ unread' = unread \o got
        /\ token' = token /\ errs' = errs
    BY <1>1, <2>1, FilledTop
  <2>8. OneMacro'
    BY <1>1, <2>5, <2>6, <2>7 DEF WantsToken, OneMacro
  <2>9. Rest' = Rest
    BY <1>1, <1>6, FillTextRest
  <2>10. Len(streams') <= 3
    <3>1. k <= 3
      BY <1>2, <1>4
    <3> QED
      BY <2>7, <3>1, Zenon
  <2>11. Counted(Rest', defDepth)
    BY <1>3, <2>9, Zenon
  <2> QED
    BY <1>5, <2>7, <2>8, <2>10, <2>11
<1>7. CASE FillEnding(k)
  <2>1. s.file /\ \E new, got : Filled(k, new, got)
    BY <1>7 DEF FillEnding
  <2>2. k # 3 /\ k \in 1 .. 3
    BY <1>2, <2>1
  <2>3. Len(streams') = k /\ token' = token /\ errs' = errs
    BY <1>1, <2>1, FilledTop
  <2>4. Rest' = Rest \/ (Rest = <<FileEnd>> \o Rest' /\ Rest' \in Seq(Items))
    BY <1>1, <1>7, FillEndingRest
  <2>5. Counted(Rest', defDepth)
    <3>1. FileEnd \in Items /\ FileEnd.kind \notin {"text", "reference"}
      BY DEF FileEnd, Item, Items, Kinds, Marks
    <3>2. defDepth \in Nat
      BY <1>1, LimitIs
    <3> DEFINE r == Rest'
    <3>3. CASE r = Rest
      BY <1>3, <3>3
    <3>4. CASE Rest = <<FileEnd>> \o r /\ r \in Seq(Items)
      <4> HIDE DEF r
      <4>1. Counted(<<FileEnd>> \o r, defDepth)
        BY <1>3, <3>4
      <4>2. /\ FileEnd.kind = "text" => defDepth = 0
            /\ FileEnd.kind = "reference" => defDepth = defDepth + 1
            /\ FileEnd.kind \notin {"text", "reference"} => defDepth = defDepth
        BY <3>1, Zenon
      <4>3. Counted(r, defDepth)
        BY <3>1, <3>2, <3>4, <4>1, <4>2, CountedTail
      <4> QED
        BY <4>3 DEF r
    <3> QED
      BY <2>4, <3>3, <3>4
  <2>6. Len(streams') <= 3 /\ OneMacro'
    BY <2>2, <2>3 DEF OneMacro
  <2> QED
    BY <1>5, <2>3, <2>5, <2>6
<1>8. CASE FillResume(k)
  <2>1. s.file
    BY <1>8 DEF FillResume
  <2>2. k = 2 /\ k - 1 = 1 /\ 1 \in 1 .. Len(streams)
    BY <1>2, <2>1
  <2> DEFINE new == [streams[1] EXCEPT !.fl = s.fl]
  <2>3. Filled(1, new, <<>>) /\ new.eof
    <3>1. streams[1] \in StreamSet
      BY <1>1, <2>2, StreamParts DEF StackInv
    <3> QED
      BY <1>2, <1>8, <2>2, <3>1 DEF FillResume, StreamSet
  <2> HIDE DEF new
  <2>4. /\ Len(streams') = 1 /\ streams'[1] = new
        /\ token' = token /\ errs' = errs
    BY <1>1, <2>2, <2>3, FilledTop
  <2>5. Rest' = <<>>
    BY <2>3, <2>4 DEF Rest, isEof, top, Last
  <2>6. Len(streams') <= 3 /\ OneMacro' /\ Counted(Rest', defDepth)
    BY <1>1, <2>4, <2>5, CountedEmpty DEF OneMacro
  <2> QED
    BY <1>5, <2>4, <2>6
<1> QED
  BY <1>4, <1>6, <1>7, <1>8

LEMMA PlainMatch ==
  ASSUME PlainFacts, Match
  PROVE  PlainInv'
<1> DEFINE x == token'
           r == Rest'
<1>1. /\ StackInv /\ WantsToken /\ Scan /\ value' = value
      /\ defDepth' = IF x.kind = "text" THEN 0 ELSE defDepth
      /\ defDepth \in Nat /\ ~ errs /\ ~ Refers(value)
  BY LimitIs DEF PlainFacts, ExpandInv, StreamInv, Match
<1>2. /\ streams' = streams /\ unread' = Tail(unread) /\ x = Head(unread) /\ unread # <<>>
      /\ errs' = errs
  BY <1>1 DEF Scan
<1>3. Len(streams) <= 3 /\ OneMacro /\ Counted(Rest, defDepth)
  BY <1>1 DEF PlainFacts, WantsToken, Reached
<1>4. OneMacro'
  <2>1. ASSUME Len(streams) = 3
        PROVE  Head(unread).kind # "reference" /\ ~ Refers(Tail(unread))
    <3>1. unread \in Seq(Pieces) /\ ~ Refers(unread)
      BY <1>1, <1>3, <2>1 DEF StackInv, StreamsKind, OneMacro
    <3> QED
      BY <1>2, <3>1, PlainParts
  <2> QED
    BY <1>2, <1>3, <2>1 DEF OneMacro, WantsToken
<1>5. Rest = <<x>> \o r /\ x \in Items /\ r \in Seq(Items)
  BY <1>1, ScanRest
<1>6. Counted(r, Reached')
  <2> DEFINE e == IF x.kind = "reference" THEN defDepth' + 1 ELSE defDepth'
  <2>1. Reached' = e
    BY DEF Reached
  <2> HIDE DEF r, x
  <2>2. /\ x.kind = "text" => e = 0
        /\ x.kind = "reference" => e = defDepth + 1
        /\ x.kind \notin {"text", "reference"} => e = defDepth
    <3>1. "text" # "reference"
      OBVIOUS
    <3>2. CASE x.kind = "text"
      BY <1>1, <3>1, <3>2, Zenon
    <3>3. CASE x.kind = "reference"
      BY <1>1, <3>1, <3>3, Zenon
    <3>4. CASE x.kind \notin {"text", "reference"}
      BY <1>1, <3>4, Zenon
    <3> QED
      BY <3>2, <3>3, <3>4
  <2>3. e \in Nat
    BY <1>1
  <2> HIDE DEF e
  <2>4. Counted(<<x>> \o r, defDepth)
    BY <1>3, <1>5
  <2>5. Counted(r, e)
    BY <1>1, <1>5, <2>2, <2>3, <2>4, CountedTail
  <2> QED
    BY <2>1, <2>5
<1>7. ~ errs' /\ Len(streams') <= 3
  <2>1. ~ errs'
    BY <1>1, <1>2, Zenon
  <2> QED
    BY <1>2, <1>3, <2>1, Zenon
<1>8. Counted(Rest', Reached')
  BY <1>6
<1> QED
  BY <1>4, <1>7, <1>8, Zenon DEF PlainInv

(* A reference is substituted, never refused: it was counted. *)
LEMMA PlainCount ==
  ASSUME PlainFacts, token.kind = "reference"
  PROVE  /\ defDepth <= RecursionMax /\ defDepth \in Nat
         /\ Counted(Rest, defDepth + 1) /\ defDepth + 1 \in 0 .. Limit
<1>1. Counted(Rest, defDepth + 1)
  BY DEF PlainFacts, Reached
<1>2. defDepth \in Nat
  BY LimitIs DEF PlainFacts, ExpandInv
<1>3. PICK c \in [Nat -> 0 .. Limit] : c[0] >= defDepth + 1
  BY <1>1 DEF Counted, Counts
<1>4. c[0] \in Nat /\ c[0] <= Limit
  BY CountIs
<1> QED
  BY <1>1, <1>2, <1>3, <1>4, LimitIs

LEMMA PlainSubstitute ==
  ASSUME RecursionMax >= 2, PlainFacts, Substitute
  PROVE  PlainInv'
<1> DEFINE new == Stream(top.fl, value, FALSE)
<1>1. /\ StackInv /\ LeftInv /\ Unput(value) /\ token.kind = "reference"
      /\ defDepth' = defDepth + 1 /\ value' = value
      /\ value \in Bodies /\ ~ Refers(value) /\ ~ errs
  BY DEF PlainFacts, ExpandInv, StreamInv, Substitute, Unput
<1>2. /\ defDepth <= RecursionMax /\ defDepth \in Nat
      /\ Counted(Rest, defDepth + 1) /\ defDepth + 1 \in 0 .. Limit
  BY <1>1, PlainCount
<1>3. Len(streams) \in 1 .. 2 /\ ~ (depth > RecursionMax)
  <2>1. Len(streams) # 3
    BY <1>1 DEF PlainFacts, OneMacro, WantsToken
  <2>2. Len(streams) \in Nat \ {0} /\ Len(streams) <= 3 /\ depth = Len(streams)
    BY <1>1, PlainStack DEF PlainFacts
  <2> QED
    BY <2>1, <2>2, LimitIs
<1>4. scanSwitchStream(new)
  BY <1>1, <1>3 DEF Unput
<1>5. value \in Seq(Pieces) /\ value \in Seq(Items)
  BY <1>1, TextsArePieces, PiecesAreItems
<1>6. new \in StreamSet /\ new.text = value /\ ~ new.file
  <2>1. top.fl \in Files \cup {NoFile}
    BY <1>1, StreamParts DEF StackInv
  <2>2. new \in StreamSet
    BY <1>5, <2>1, NewStream
  <2> QED
    BY <2>2 DEF Stream
<1> HIDE DEF new
<1>7. /\ Len(streams') = Len(streams) + 1 /\ streams'[Len(streams) + 1] = new
      /\ unread' = <<>> /\ token' = Newline /\ errs' = errs
  BY <1>1, <1>4, <1>6, SwitchedShape DEF StackInv
<1>8. WantsToken' /\ Reached' = defDepth + 1
  <2>1. Newline.kind # "reference"
    BY DEF Newline, Item
  <2> QED
    BY <1>1, <1>7, <2>1 DEF WantsToken, Reached
<1>9. OneMacro'
  <2>1. Len(streams') = 3 => streams'[3] = new
    <3>1. Len(streams) + 1 = 3 => Len(streams) = 2
      BY <1>3
    <3> QED
      BY <1>7, <3>1
  <2>2. ~ Refers(<<>>)
    BY DEF Refers
  <2> QED
    BY <1>1, <1>6, <1>7, <1>8, <2>1, <2>2 DEF OneMacro
<1>10. Counted(Rest', Reached')
  <2>1. Rest' = value \o Rest
    BY <1>1, <1>3, UnputRest
  <2>2. Rest \in Seq(Items)
    BY <1>1, PlainStack
  <2>3. Counted(value \o Rest, defDepth + 1)
    BY <1>1, <1>2, <1>5, <2>2, CountedAfter
  <2> QED
    BY <1>8, <2>1, <2>3, Zenon
<1>11. ~ errs'
  BY <1>1, <1>7, Zenon
<1>12. Len(streams') <= 3
  <2> DEFINE n == Len(streams)
  <2>0. n \in 1 .. 2
    BY <1>3
  <2> HIDE DEF n
  <2>1. n + 1 <= 3
    BY <2>0
  <2> QED
    BY <1>7, <2>1, Zenon DEF n
<1> QED
  BY <1>9, <1>10, <1>11, <1>12, Zenon DEF PlainInv

LEMMA PlainOpen ==
  ASSUME RecursionMax >= 2, \A f \in Files : FewInARow(Content[f]),
         PlainFacts, Open
  PROVE  PlainInv'
<1>1. PICK f \in Files : OpenFile(f)
  BY DEF Open
<1> DEFINE new == Stream(f, Content[f], TRUE)
<1>2. /\ StackInv /\ LeftInv /\ isEof /\ UNCHANGED <<defDepth, value>>
      /\ ~ errs /\ defDepth \in 0 .. Limit
  BY DEF PlainFacts, ExpandInv, StreamInv, Open, Limit
<1>3. Len(streams) = 1 /\ ~ (depth > RecursionMax) /\ Rest = <<>>
  <2>1. Len(streams) = 1 /\ depth = 1 /\ Rest = <<>>
    BY <1>2, PlainStack
  <2> QED
    BY <2>1, LimitIs
<1>4. scanSwitchStream(new)
  BY <1>1, <1>2, <1>3 DEF OpenFile
<1>5. new \in StreamSet
  BY TextsArePieces, NewStream
<1>6. Rest' = (Content[f] \o Ending(f)) \o Rest
  BY <1>2, <1>3, <1>4, NewFileRest
<1> HIDE DEF new
<1>7. /\ Len(streams') = Len(streams) + 1 /\ token' = Newline /\ errs' = errs
  BY <1>2, <1>4, <1>5, SwitchedShape DEF StackInv
<1>8. OneMacro' /\ Len(streams') <= 3
  BY <1>3, <1>7 DEF OneMacro
<1>9. Reached' = defDepth
  <2>1. Newline.kind # "reference"
    BY DEF Newline, Item
  <2> QED
    BY <1>2, <1>7, <2>1 DEF Reached
<1>10. Counted(Rest', Reached')
  <2> DEFINE t == Content[f] \o Ending(f)
  <2>1. Content[f] \in Seq(Items) /\ Ending(f) \in Seq(Items)
    BY TextsArePieces, PiecesAreItems, EndingKinds
  <2>2. t \in Seq(Items)
    BY <2>1, ConcatProperties
  <2>3. Counted(t, defDepth)
    BY <1>2, CountedFile
  <2>4. Rest' = t
    <3> HIDE DEF t
    <3>1. t \o <<>> = t
      BY <2>2, ConcatEmptySeq
    <3>2. Rest' = t \o <<>>
      BY <1>3, <1>6 DEF t
    <3> QED
      BY <3>1, <3>2
  <2> QED
    BY <1>9, <2>3, <2>4, Zenon
<1>11. ~ errs'
  BY <1>2, <1>7, Zenon
<1> QED
  BY <1>8, <1>10, <1>11, Zenon DEF PlainInv

(* "Recursive `define substitution" is said of recursive macros only: in a *)
(* text with few references in a row, and when a macro may be put on a     *)
(* file, a macro that does not refer to itself is always substituted.      *)
THEOREM OnlyRecursionReported ==
  ASSUME RecursionMax >= 2, \A f \in Files : FewInARow(Content[f])
  PROVE  ExpandSpec => []ErrorMeansRecursion
<1>1. ExpandInit => PlainInv
  <2> SUFFICES ASSUME ExpandInit PROVE PlainInv
    OBVIOUS
  <2>1. /\ Len(streams) = 1 /\ ~ errs /\ token = Newline /\ defDepth = 0
    BY DEF ExpandInit, StreamInit
  <2>2. StackInv
    BY InitGood DEF ExpandInit, StreamInv
  <2>3. Rest = <<>>
    BY <2>1, <2>2, PlainStack
  <2>4. Newline.kind # "reference"
    BY DEF Newline, Item
  <2>5. Reached = 0 /\ 0 \in 0 .. Limit
    BY <2>1, <2>4, LimitIs DEF Reached
  <2>6. Counted(Rest, Reached)
    BY <2>3, <2>5, CountedEmpty
  <2> QED
    BY <2>1, <2>6 DEF PlainInv, OneMacro
<1>2. ASSUME ExpandInv, PlainInv, [ExpandNext]_expandVars PROVE PlainInv'
  <2>1. CASE Refers(value)
    <3>1. value' = value
      BY <1>2 DEF ExpandNext, Turn, ReadAhead, Match, RefuseReference, Substitute,
                  Open, expandVars
    <3> QED
      BY <2>1, <3>1 DEF PlainInv
  <2>2. CASE ~ Refers(value)
    <3>1. PlainFacts
      BY <1>2, <2>2 DEF PlainFacts, PlainInv
    <3>2. CASE ReadAhead
      BY <3>1, <3>2, PlainFill
    <3>3. CASE Match
      BY <3>1, <3>3, PlainMatch
    <3>4. CASE RefuseReference
      <4>1. defDepth <= RecursionMax /\ defDepth \in Nat
        BY <3>1, <3>4, PlainCount DEF RefuseReference
      <4>2. ~ TooDeep
        BY <4>1, LimitIs DEF TooDeep
      <4> QED
        BY <3>4, <4>2 DEF RefuseReference
    <3>5. CASE Substitute
      BY <3>1, <3>5, PlainSubstitute
    <3>6. CASE Open
      BY <3>1, <3>6, PlainOpen
    <3>7. CASE UNCHANGED expandVars
      BY <1>2, <3>7 DEF expandVars, streamVars, PlainInv, OneMacro, WantsToken,
                        Reached, Rest, isEof, top
    <3> QED
      BY <1>2, <3>2, <3>3, <3>4, <3>5, <3>6, <3>7 DEF ExpandNext, Turn
  <2> QED
    BY <2>1, <2>2
<1>3. PlainInv => ErrorMeansRecursion
  BY DEF PlainInv, ErrorMeansRecursion
<1> QED
  BY <1>1, <1>2, <1>3, ExpandInvAlways, PTL DEF ExpandSpec
=============================================================================
