-------------------------- MODULE OutputLinesProofs --------------------------
(***************************************************************************)
(* TLAPS proofs about OutputLines, for any files, lengths of files, depth  *)
(* of includes and macros, and NEWLINES_VS_TICKLINE.                       *)
(***************************************************************************)
EXTENDS OutputLines, SequenceLemmas, FiniteSetTheorems

Readers    == [at : Positions, bol : BOOLEAN]
PieceKinds == {"newline", "blank", "word", "line"}
Pieces     == [kind : PieceKinds, at : Positions]

LEMMA PieceTypes ==
  /\ Newline \in Pieces /\ Blank \in Pieces /\ Word \in Pieces
  /\ \A p \in Positions : Line(p) \in Pieces /\ Line(p) # Newline
  /\ Newline # Blank /\ Newline # Word /\ Blank # Word
<1>1. NoPosition \in Positions
  BY DEF NoPosition, Position, Positions
<1>2. \A p \in Positions, k \in PieceKinds : Piece(k, p) \in Pieces
  BY DEF Piece, Pieces
<1>3. "newline" \in PieceKinds /\ "blank" \in PieceKinds /\ "word" \in PieceKinds
      /\ "line" \in PieceKinds
  BY DEF PieceKinds
<1>4. \A p, q, k, l : k # l => Piece(k, p) # Piece(l, q)
  BY DEF Piece
<1>5. "newline" # "blank" /\ "newline" # "word" /\ "blank" # "word" /\ "line" # "newline"
  OBVIOUS
<1> QED
  BY <1>1, <1>2, <1>3, <1>4, <1>5 DEF Newline, Blank, Word, Line

(* Lines further on. *)
LEMMA Further ==
  ASSUME NEW p \in Positions, NEW n \in Nat
  PROVE  /\ [p EXCEPT !.line = @ + n] \in Positions
         /\ [p EXCEPT !.line = @ + n].file = p.file
         /\ [p EXCEPT !.line = @ + n].line = p.line + n
<1> DEFINE Names == Files \cup {""}
<1>1. p \in [file : Names, line : Nat]
  BY DEF Positions
<1> HIDE DEF Names
<1>2. /\ [p EXCEPT !.line = @ + n] \in [file : Names, line : Nat]
      /\ [p EXCEPT !.line = @ + n].file = p.file
      /\ [p EXCEPT !.line = @ + n].line = p.line + n
  BY <1>1
<1> QED
  BY <1>2 DEF Names, Positions

(* What the reader takes from one piece. *)
LEMMA ReadOne ==
  ASSUME NEW r \in Readers
  PROVE  /\ \A p \in Pieces : Read(r, p) \in Readers
         /\ Read(r, Newline) = [at |-> [r.at EXCEPT !.line = @ + 1], bol |-> TRUE]
         /\ Read(r, Blank) = [r EXCEPT !.bol = FALSE]
         /\ Read(r, Word) = [r EXCEPT !.bol = FALSE]
         /\ \A p \in Positions : r.bol => Read(r, Line(p)) = [at |-> p, bol |-> TRUE]
<1>1. Newline.kind = "newline" /\ Blank.kind = "blank" /\ Word.kind = "word"
  BY DEF Newline, Blank, Word, Piece
<1>2. \A p : Line(p).kind = "line" /\ Line(p).at = p
  BY DEF Line, Piece
<1>3. \A p \in Pieces : Read(r, p) \in Readers
  <2> TAKE p \in Pieces
  <2>1. r.at \in Positions /\ r.bol \in BOOLEAN /\ p.at \in Positions
    BY DEF Readers, Pieces
  <2>2. [r.at EXCEPT !.line = @ + 1] \in Positions
    BY <2>1, Further
  <2>3. \/ Read(r, p) = [at |-> [r.at EXCEPT !.line = @ + 1], bol |-> TRUE]
        \/ Read(r, p) = [at |-> p.at, bol |-> TRUE]
        \/ Read(r, p) = [r EXCEPT !.bol = FALSE]
    BY DEF Read
  <2>4. [r EXCEPT !.bol = FALSE] \in Readers
    BY DEF Readers
  <2>5. \A at \in Positions : [at |-> at, bol |-> TRUE] \in Readers
    BY DEF Readers
  <2> QED
    BY <2>1, <2>2, <2>3, <2>4, <2>5
<1>4. Read(r, Newline) = [at |-> [r.at EXCEPT !.line = @ + 1], bol |-> TRUE]
  BY <1>1 DEF Read
<1>5. Read(r, Blank) = [r EXCEPT !.bol = FALSE] /\ Read(r, Word) = [r EXCEPT !.bol = FALSE]
  BY <1>1 DEF Read
<1>6. \A p \in Positions : r.bol => Read(r, Line(p)) = [at |-> p, bol |-> TRUE]
  BY <1>2 DEF Read
<1> QED
  BY <1>3, <1>4, <1>5, <1>6

LEMMA SamePosition ==
  ASSUME NEW p \in Positions, NEW q \in Positions, p.file = q.file, p.line = q.line
  PROVE  p = q
<1> DEFINE Names == Files \cup {""}
<1>1. p \in [file : Names, line : Nat] /\ q \in [file : Names, line : Nat]
  BY DEF Positions
<1> HIDE DEF Names
<1> QED
  BY <1>1

(* What the reader knows after a newline, a word or white space. *)
ReadMoves(r, q, n) == q.at.file = r.at.file /\ q.at.line = r.at.line + n
LEMMA ReadPieces ==
  ASSUME NEW r \in Readers
  PROVE  /\ (ReadMoves(r, Read(r, Newline), 1) /\ Read(r, Newline).bol = TRUE)
         /\ (ReadMoves(r, Read(r, Word), 0) /\ Read(r, Word).bol = FALSE)
         /\ (ReadMoves(r, Read(r, Blank), 0) /\ Read(r, Blank).bol = FALSE)
<1>1. r.at \in Positions /\ r.bol \in BOOLEAN /\ r.at.line \in Nat
  BY DEF Readers, Positions
<1>2. (ReadMoves(r, Read(r, Newline), 1) /\ Read(r, Newline).bol = TRUE)
  <2> DEFINE p == [r.at EXCEPT !.line = @ + 1]
  <2>1. p.file = r.at.file /\ p.line = r.at.line + 1
    BY <1>1, Further
  <2> HIDE DEF p
  <2>2. Read(r, Newline) = [at |-> p, bol |-> TRUE]
    BY ReadOne DEF p
  <2> QED
    BY <2>1, <2>2 DEF ReadMoves
<1>3. ASSUME NEW q, q = [r EXCEPT !.bol = FALSE] PROVE ReadMoves(r, q, 0) /\ q.bol = FALSE
  BY <1>1, <1>3 DEF ReadMoves, Readers
<1> QED
  BY <1>2, <1>3, ReadOne

(* Piece by piece. *)
LEMMA ReadersIterate ==
  \A r \in Readers : \A step \in [Nat -> [Readers -> Readers]] :
    \E g \in [Nat -> Readers] : g[0] = r /\ \A n \in Nat : g[n + 1] = step[n][g[n]]
BY Iteration

LEMMA ClaimsAre ==
  ASSUME NEW r \in Readers, NEW buf \in Seq(Pieces)
  PROVE  /\ Claims(r, buf)[0] = r
         /\ \A i \in 1 .. Len(buf) :
              /\ Claims(r, buf)[i] = Read(Claims(r, buf)[i - 1], buf[i])
              /\ Claims(r, buf)[i] \in Readers
<1> DEFINE N == 0 .. Len(buf)
           step == [n \in Nat |-> [x \in Readers |->
                      IF n < Len(buf) THEN Read(x, buf[n + 1]) ELSE x]]
<1>1. Len(buf) \in Nat /\ \A n \in Nat : n < Len(buf) => buf[n + 1] \in Pieces
  OBVIOUS
<1>2. step \in [Nat -> [Readers -> Readers]]
  <2>1. \A n \in Nat, x \in Readers :
          (IF n < Len(buf) THEN Read(x, buf[n + 1]) ELSE x) \in Readers
    BY <1>1, ReadOne
  <2> QED
    BY <2>1
<1>3. PICK g \in [Nat -> Readers] : g[0] = r /\ \A n \in Nat : g[n + 1] = step[n][g[n]]
  <2>1. r \in Readers
    OBVIOUS
  <2> HIDE DEF step
  <2> QED
    BY <1>2, <2>1, ReadersIterate
<1>4. \A n \in Nat : n < Len(buf) => g[n + 1] = Read(g[n], buf[n + 1])
  BY <1>3
<1> DEFINE f == [n \in N |-> g[n]]
           Fits(h) == h = [i \in N |-> IF i = 0 THEN r ELSE Read(h[i - 1], buf[i])]
<1> HIDE DEF step
<1>5. Fits(f)
  <2>1. \A i \in N : f[i] = IF i = 0 THEN r ELSE Read(f[i - 1], buf[i])
    <3> TAKE i \in N
    <3>1. CASE i = 0
      BY <1>1, <1>3, <3>1
    <3>2. CASE i # 0
      <4>1. i - 1 \in Nat /\ (i - 1) + 1 = i /\ i - 1 < Len(buf) /\ i - 1 \in N /\ i \in N
        BY <1>1, <3>2
      <4>2. g[i] = Read(g[i - 1], buf[i])
        BY <1>4, <4>1
      <4> QED
        BY <3>2, <4>1, <4>2
    <3> QED
      BY <3>1, <3>2
  <2> QED
    BY <2>1
<1>6. Claims(r, buf) = CHOOSE h : Fits(h)
  BY DEF Claims
<1>7. Fits(Claims(r, buf))
  <2> HIDE DEF Fits, f
  <2> QED
    BY <1>5, <1>6
<1> DEFINE c == Claims(r, buf)
<1>8. c = [i \in N |-> IF i = 0 THEN r ELSE Read(c[i - 1], buf[i])]
  BY <1>7
<1> HIDE DEF c
<1>9. c[0] = r /\ \A i \in 1 .. Len(buf) : c[i] = Read(c[i - 1], buf[i])
  BY <1>1, <1>8
<1>10. \A n \in Nat : n \in {k \in Nat : k \in N => c[k] \in Readers}
  <2> DEFINE T == {k \in Nat : k \in N => c[k] \in Readers}
  <2>1. 0 \in T
    BY <1>9
  <2>2. \A n \in Nat : n \in T => n + 1 \in T
    <3> SUFFICES ASSUME NEW n \in Nat, n \in T, n + 1 \in N PROVE c[n + 1] \in Readers
      OBVIOUS
    <3>1. n + 1 \in 1 .. Len(buf) /\ (n + 1) - 1 = n /\ n \in N /\ buf[n + 1] \in Pieces
      BY <1>1
    <3>2. c[n + 1] = Read(c[n], buf[n + 1]) /\ c[n] \in Readers
      BY <1>9, <3>1
    <3> QED
      BY <3>1, <3>2, ReadOne
  <2>3. \A n \in Nat : n \in T
    <3> HIDE DEF T
    <3> QED
      BY <2>1, <2>2, Induction
  <2> QED
    BY <2>3
<1>11. \A i \in 1 .. Len(buf) : c[i] \in Readers
  BY <1>1, <1>10
<1> QED
  BY <1>9, <1>11 DEF c

-----------------------------------------------------------------------------
(* What tokens other than `line directives put out.                        *)
WhiteBufs == {<<Newline>>, <<Blank>>, <<Newline, Newline>>}
TextBufs  == {<<Word>>, <<Word, Newline, Word>>, <<Blank>>}
PlainBufs == {<<>>} \cup WhiteBufs \cup TextBufs

LEMMA CountNewlines ==
  /\ NewlinesIn(<<>>) = 0 /\ NewlinesIn(<<Newline>>) = 1
  /\ NewlinesIn(<<Blank>>) = 0 /\ NewlinesIn(<<Word>>) = 0
  /\ NewlinesIn(<<Newline, Newline>>) = 2 /\ NewlinesIn(<<Word, Newline, Word>>) = 1
<1> DEFINE at(buf) == {i \in DOMAIN buf : buf[i] = Newline}
<1>1. Cardinality({}) = 0 /\ Cardinality({1}) = 1 /\ Cardinality({2}) = 1
  BY FS_EmptySet, FS_Singleton
<1>2. Cardinality({1} \cup {2}) = 2
  <2>1. IsFiniteSet({1})
    BY FS_Singleton
  <2>2. Cardinality({1} \cup {2}) = Cardinality({1}) + 1
    BY <2>1, FS_AddElement
  <2> QED
    BY <1>1, <2>2
<1>3. Newline # Blank /\ Newline # Word
  BY PieceTypes
<1>4. at(<<>>) = {} /\ at(<<Newline>>) = {1} /\ at(<<Blank>>) = {} /\ at(<<Word>>) = {}
  <2>1. at(<<>>) = {}
    OBVIOUS
  <2>2. ASSUME NEW p, p # Newline PROVE at(<<p>>) = {}
    BY <2>2
  <2>3. at(<<Newline>>) = {1}
    <3> DEFINE buf == <<Newline>>
    <3>1. DOMAIN buf = {1} /\ buf[1] = Newline
      OBVIOUS
    <3> HIDE DEF buf
    <3>2. at(buf) = {1}
      BY <3>1
    <3> QED
      BY <3>2 DEF buf
  <2> QED
    BY <1>3, <2>1, <2>2, <2>3
<1>5. at(<<Newline, Newline>>) = {1} \cup {2}
  <2>1. DOMAIN <<Newline, Newline>> = {1, 2}
    OBVIOUS
  <2>2. <<Newline, Newline>>[1] = Newline /\ <<Newline, Newline>>[2] = Newline
    OBVIOUS
  <2> QED
    BY <2>1, <2>2
<1>6. at(<<Word, Newline, Word>>) = {2}
  <2> DEFINE buf == <<Word, Newline, Word>>
  <2>1. DOMAIN buf = {1, 2, 3}
    OBVIOUS
  <2>2. buf[1] = Word /\ buf[2] = Newline /\ buf[3] = Word
    OBVIOUS
  <2> HIDE DEF buf
  <2>3. at(buf) = {2}
    BY <1>3, <2>1, <2>2
  <2> QED
    BY <2>3 DEF buf
<1> QED
  BY <1>1, <1>2, <1>4, <1>5, <1>6 DEF NewlinesIn

LEMMA PlainTypes == PlainBufs \subseteq Seq(Pieces)
<1>1. Newline \in Pieces /\ Blank \in Pieces /\ Word \in Pieces
  BY PieceTypes
<1>2. \A p \in Pieces : <<p>> \in Seq(Pieces)
  OBVIOUS
<1>3. \A p, q \in Pieces : <<p, q>> \in Seq(Pieces)
  OBVIOUS
<1>4. \A p, q, r \in Pieces : <<p, q, r>> \in Seq(Pieces)
  OBVIOUS
<1>5. <<>> \in Seq(Pieces)
  OBVIOUS
<1> QED
  BY <1>1, <1>2, <1>3, <1>4, <1>5 DEF PlainBufs, WhiteBufs, TextBufs

(* The reader takes the newlines of it, and is at the beginning of a line  *)
(* if it ends with one.                                                    *)
LEMMA ReadPlain ==
  ASSUME NEW r \in Readers, NEW buf \in PlainBufs
  PROVE  LET after == Claims(r, buf)[Len(buf)]
         IN  /\ after \in Readers /\ NewlinesIn(buf) \in Nat
             /\ ReadMoves(r, after, NewlinesIn(buf))
             /\ buf = <<>> => after.bol = r.bol
             /\ buf # <<>> /\ Last(buf) = Newline => after.bol = TRUE
             /\ buf # <<>> /\ Last(buf) # Newline => after.bol = FALSE
<1> DEFINE c == Claims(r, buf)
           after == c[Len(buf)]
<1>1. Newline \in Pieces /\ Blank \in Pieces /\ Word \in Pieces
      /\ Newline # Blank /\ Newline # Word
  BY PieceTypes
<1>2. buf \in Seq(Pieces)
  BY PlainTypes
<1>3. c[0] = r /\ \A i \in 1 .. Len(buf) : c[i] = Read(c[i - 1], buf[i]) /\ c[i] \in Readers
  BY <1>2, ClaimsAre
<1>4. r.at \in Positions /\ r.bol \in BOOLEAN
  BY DEF Readers
<1>5. r.at.line \in Nat
  BY <1>4 DEF Positions
<1> HIDE DEF c
<1> DEFINE Result == /\ after \in Readers /\ NewlinesIn(buf) \in Nat
                     /\ ReadMoves(r, after, NewlinesIn(buf))
                     /\ buf = <<>> => after.bol = r.bol
                     /\ buf # <<>> /\ Last(buf) = Newline => after.bol = TRUE
                     /\ buf # <<>> /\ Last(buf) # Newline => after.bol = FALSE
<1> SUFFICES Result
  BY DEF c
<1>7. CASE buf = <<>>
  <2>1. after = r /\ NewlinesIn(buf) = 0
    BY <1>3, <1>7, CountNewlines
  <2> QED
    BY <1>4, <1>5, <1>7, <2>1 DEF ReadMoves
<1>8. ASSUME NEW p, buf = <<p>>
      PROVE  after \in Readers /\ after = Read(r, p) /\ Last(buf) = p /\ buf # <<>>
  <2>1. Len(buf) = 1 /\ buf[1] = p /\ Last(buf) = p /\ buf # <<>>
    BY <1>8 DEF Last
  <2>2. c[1] = Read(c[0], p) /\ c[1] \in Readers
    BY <1>3, <2>1
  <2> QED
    BY <1>3, <2>1, <2>2
<1>9. CASE buf = <<Newline>>
  <2>1. NewlinesIn(buf) = 1
    BY <1>9, CountNewlines
  <2>2. after \in Readers /\ after = Read(r, Newline) /\ Last(buf) = Newline /\ buf # <<>>
    BY <1>8, <1>9
  <2>3. ReadMoves(r, Read(r, Newline), 1) /\ Read(r, Newline).bol = TRUE
    BY ReadPieces
  <2> QED
    BY <2>1, <2>2, <2>3 DEF ReadMoves
<1>10. ASSUME NEW p \in {Blank, Word}, buf = <<p>> PROVE Result
  <2>1. NewlinesIn(buf) = 0
    BY <1>10, CountNewlines
  <2>2. after \in Readers /\ after = Read(r, p) /\ Last(buf) = p /\ buf # <<>>
    BY <1>8, <1>10
  <2>3. ReadMoves(r, Read(r, p), 0) /\ Read(r, p).bol = FALSE
    BY ReadPieces
  <2> QED
    BY <1>1, <2>1, <2>2, <2>3 DEF ReadMoves
<1>11. CASE buf = <<Newline, Newline>>
  <2>1. Len(buf) = 2 /\ buf[1] = Newline /\ buf[2] = Newline /\ Last(buf) = Newline
        /\ buf # <<>>
    BY <1>11 DEF Last
  <2>2. c[1] = Read(r, Newline) /\ c[2] = Read(c[1], Newline) /\ c[1] \in Readers
        /\ c[2] \in Readers
    BY <1>3, <2>1
  <2>3. NewlinesIn(buf) = 2
    BY <1>11, CountNewlines
  <2>4. (ReadMoves(r, c[1], 1) /\ c[1].bol = TRUE) /\ (ReadMoves(c[1], c[2], 1) /\ c[2].bol = TRUE)
    BY <2>2, ReadPieces
  <2> QED
    BY <1>5, <2>1, <2>2, <2>3, <2>4 DEF ReadMoves
<1>12. CASE buf = <<Word, Newline, Word>>
  <2>1. Len(buf) = 3 /\ buf[1] = Word /\ buf[2] = Newline /\ buf[3] = Word
        /\ Last(buf) = Word /\ buf # <<>>
    BY <1>12 DEF Last
  <2>2. c[1] = Read(r, Word) /\ c[2] = Read(c[1], Newline) /\ c[3] = Read(c[2], Word)
        /\ c[1] \in Readers /\ c[2] \in Readers /\ c[3] \in Readers
    BY <1>3, <2>1
  <2>3. NewlinesIn(buf) = 1
    BY <1>12, CountNewlines
  <2>4. (ReadMoves(r, c[1], 0) /\ c[1].bol = FALSE) /\ (ReadMoves(c[1], c[2], 1) /\ c[2].bol = TRUE)
        /\ (ReadMoves(c[2], c[3], 0) /\ c[3].bol = FALSE)
    BY <2>2, ReadPieces
  <2> QED
    BY <1>1, <1>5, <2>1, <2>2, <2>3, <2>4 DEF ReadMoves
<1> QED
  BY <1>7, <1>9, <1>10, <1>11, <1>12 DEF PlainBufs, WhiteBufs, TextBufs

LEMMA PlainPieces ==
  ASSUME NEW buf \in PlainBufs
  PROVE  \A i \in 1 .. Len(buf) : buf[i].kind # "line"
<1>1. Newline.kind # "line" /\ Blank.kind # "line" /\ Word.kind # "line"
  BY DEF Newline, Blank, Word, Piece
<1>2. ASSUME NEW p, NEW q, NEW r, p.kind # "line", q.kind # "line", r.kind # "line",
             buf \in {<<>>, <<p>>, <<p, q>>, <<p, q, r>>}
      PROVE  \A i \in 1 .. Len(buf) : buf[i].kind # "line"
  BY <1>2
<1> QED
  BY <1>1, <1>2 DEF PlainBufs, WhiteBufs, TextBufs

(* Newlines only, to catch up. *)
LEMMA ReadNewlines ==
  ASSUME NEW r \in Readers, NEW n \in Nat
  PROVE  LET after == Claims(r, Newlines(n))[Len(Newlines(n))]
         IN  after \in Readers /\ ReadMoves(r, after, n) /\ (n > 0 => after.bol = TRUE)
<1> DEFINE buf == Newlines(n)
           c == Claims(r, buf)
<1>1. buf \in Seq(Pieces) /\ Len(buf) = n /\ \A i \in 1 .. n : buf[i] = Newline
  <2>1. Newline \in Pieces
    BY PieceTypes
  <2> QED
    BY <2>1 DEF Newlines
<1> HIDE DEF buf
<1>2. c[0] = r /\ \A i \in 1 .. n : c[i] = Read(c[i - 1], Newline) /\ c[i] \in Readers
  BY <1>1, ClaimsAre
<1> HIDE DEF c
<1> DEFINE T == {m \in Nat : m <= n => /\ c[m] \in Readers /\ ReadMoves(r, c[m], m)
                                       /\ m > 0 => c[m].bol = TRUE}
<1>3. 0 \in T
  <2>1. r.at.line \in Nat
    BY DEF Readers, Positions
  <2> QED
    BY <1>2, <2>1 DEF ReadMoves
<1>4. \A m \in Nat : m \in T => m + 1 \in T
  <2> SUFFICES ASSUME NEW m \in Nat, m \in T PROVE m + 1 \in T
    BY Zenon
  <2>1. CASE m + 1 <= n
    <3>1. c[m] \in Readers /\ ReadMoves(r, c[m], m)
      BY <2>1
    <3>2. m + 1 \in 1 .. n /\ (m + 1) - 1 = m
      BY <2>1
    <3>3. c[m + 1] = Read(c[m], Newline) /\ c[m + 1] \in Readers
      BY <1>2, <3>2
    <3>4. ReadMoves(c[m], c[m + 1], 1) /\ c[m + 1].bol = TRUE
      BY <3>1, <3>3, ReadPieces
    <3>5. r.at.line \in Nat
      BY DEF Readers, Positions
    <3> QED
      BY <3>1, <3>3, <3>4, <3>5 DEF ReadMoves
  <2>2. CASE ~ (m + 1 <= n)
    BY <2>2
  <2> QED
    BY <2>1, <2>2
<1>5. \A m \in Nat : m \in T
  <2> HIDE DEF T
  <2> QED
    BY <1>3, <1>4, Induction
<1>6. n \in T
  BY <1>5
<1> QED
  BY <1>1, <1>6 DEF c, buf

(* The directives that come with a new position: its own, and, where a     *)
(* file is entered, first that of the place it was left for.  A newline is *)
(* put before them in the middle of a line.                                *)
Directive(q, p, buf) ==
  /\ p \in Positions /\ p.line >= q.line
  /\ buf = <<Line(p), Line(q)>> \/ (p = q /\ buf = <<Line(q)>>)
Inserted(q, p, buf) ==
  \/ Directive(q, p, buf)
  \/ \E b : Directive(q, p, b) /\ buf = <<Newline>> \o b

LEMMA LeastIs ==
  ASSUME NEW T, NEW m \in Nat, m \in T, T \subseteq Nat, \A n \in T : m <= n
  PROVE  Min(T) = m
<1>1. \E x \in T : \A y \in T : x <= y
  OBVIOUS
<1>2. Min(T) \in T /\ \A y \in T : Min(T) <= y
  BY <1>1 DEF Min
<1> DEFINE k == Min(T)
<1>3. k \in Nat /\ k <= m /\ m <= k
  BY <1>2
<1> HIDE DEF k
<1>4. k = m
  BY <1>3
<1> QED
  BY <1>4 DEF k

LEMMA PutBefore ==
  ASSUME NEW S, NEW a \in S, NEW b \in S, NEW c \in S
  PROVE  <<a>> \o <<b, c>> = <<a, b, c>> /\ <<a>> \o <<b>> = <<a, b>>
<1>1. /\ <<a>> \in Seq(S) /\ <<b>> \in Seq(S) /\ <<b, c>> \in Seq(S) /\ <<a, b>> \in Seq(S)
      /\ <<a, b, c>> \in Seq(S)
  OBVIOUS
<1>2. <<a>> \o <<b, c>> = <<a, b, c>>
  <2> DEFINE s == <<a>> \o <<b, c>>
             t == <<a, b, c>>
  <2>1. s \in Seq(S) /\ Len(s) = 3 /\ s[1] = a /\ s[2] = b /\ s[3] = c
    BY <1>1
  <2>2. t \in Seq(S) /\ Len(t) = 3 /\ t[1] = a /\ t[2] = b /\ t[3] = c
    BY <1>1
  <2> HIDE DEF s, t
  <2>3. \A i \in 1 .. Len(s) : s[i] = t[i]
    BY <2>1, <2>2
  <2>4. s = t
    BY <2>1, <2>2, <2>3, SeqEqual
  <2> QED
    BY <2>4 DEF s, t
<1>3. <<a>> \o <<b>> = <<a, b>>
  <2> DEFINE s == <<a>> \o <<b>>
             t == <<a, b>>
  <2>1. s \in Seq(S) /\ Len(s) = 2 /\ s[1] = a /\ s[2] = b
    BY <1>1
  <2>2. t \in Seq(S) /\ Len(t) = 2 /\ t[1] = a /\ t[2] = b
    BY <1>1
  <2> HIDE DEF s, t
  <2>3. \A i \in 1 .. Len(s) : s[i] = t[i]
    BY <2>1, <2>2
  <2>4. s = t
    BY <2>1, <2>2, <2>3, SeqEqual
  <2> QED
    BY <2>4 DEF s, t
<1> QED
  BY <1>2, <1>3

LEMMA InsertedShapes ==
  ASSUME NEW q \in Positions, NEW p, NEW buf, Inserted(q, p, buf)
  PROVE  /\ p \in Positions /\ p.line >= q.line
         /\ \/ buf = <<Line(p), Line(q)>>
            \/ p = q /\ buf = <<Line(q)>>
            \/ buf = <<Newline, Line(p), Line(q)>>
            \/ p = q /\ buf = <<Newline, Line(q)>>
<1>1. Newline \in Pieces /\ \A x \in Positions : Line(x) \in Pieces
  BY PieceTypes
<1>2. ASSUME NEW x \in Positions
      PROVE  /\ <<Newline>> \o <<Line(x), Line(q)>> = <<Newline, Line(x), Line(q)>>
             /\ <<Newline>> \o <<Line(q)>> = <<Newline, Line(q)>>
  BY <1>1, PutBefore
<1> QED
  BY <1>2 DEF Inserted, Directive

LEMMA InsertedIs ==
  ASSUME NEW q \in Positions, NEW p, NEW buf, Inserted(q, p, buf)
  PROVE  /\ buf \in Seq(Pieces) /\ buf # <<>> /\ Last(buf) = Line(q) /\ Head(buf) # Word
         /\ \E i \in 1 .. Len(buf) : buf[i].kind = "line"
         /\ StartsWithLine(Token("text", buf)) /\ First(Token("text", buf)) = Line(p)
         /\ \A r \in Readers : r.bol \/ Head(buf) = Newline =>
              Claims(r, buf)[Len(buf)] = [at |-> q, bol |-> TRUE]
<1> DEFINE a == Line(p)
           z == Line(q)
           shape == \/ buf = <<a, z>> \/ (p = q /\ buf = <<z>>)
                    \/ buf = <<Newline, a, z>> \/ (p = q /\ buf = <<Newline, z>>)
<1>1. p \in Positions /\ shape
  BY InsertedShapes
<1>2. /\ Newline \in Pieces /\ a \in Pieces /\ z \in Pieces /\ a # Newline /\ z # Newline
      /\ a.kind = "line" /\ z.kind = "line" /\ a # Word /\ z # Word /\ Newline # Word
  <2>1. a.kind = "line" /\ z.kind = "line" /\ Word.kind = "word"
    BY DEF Line, Word, Piece
  <2> QED
    BY <1>1, <2>1, PieceTypes
<1>3. \A r \in Readers :
        /\ Read(r, Newline) \in Readers /\ Read(r, Newline).bol = TRUE
        /\ r.bol => /\ Read(r, a) \in Readers /\ Read(r, a).bol = TRUE
                    /\ Read(r, z) = [at |-> q, bol |-> TRUE]
  <2> TAKE r \in Readers
  <2>1. Read(r, Newline) \in Readers /\ Read(r, a) \in Readers
    BY <1>2, ReadOne
  <2>2. Read(r, Newline).bol = TRUE
    BY ReadPieces
  <2>3. r.bol => Read(r, a) = [at |-> p, bol |-> TRUE] /\ Read(r, z) = [at |-> q, bol |-> TRUE]
    BY <1>1, ReadOne
  <2> QED
    BY <2>1, <2>2, <2>3
<1>4. First(Token("text", buf)) = buf[Min(Others(buf))]
  BY DEF First, Token
<1>5. StartsWithLine(Token("text", buf)) <=>
        Others(buf) # {} /\ First(Token("text", buf)).kind = "line"
  BY DEF StartsWithLine, Token
<1>6. p = q => a = z
  OBVIOUS
<1> HIDE DEF a, z
<1> DEFINE Told(r) == Claims(r, buf)[Len(buf)] = [at |-> q, bol |-> TRUE]
           Result == /\ buf \in Seq(Pieces) /\ buf # <<>> /\ Last(buf) = z /\ Head(buf) # Word
                     /\ \E i \in 1 .. Len(buf) : buf[i].kind = "line"
                     /\ Others(buf) # {} /\ buf[Min(Others(buf))] = a
                     /\ \A r \in Readers : r.bol \/ Head(buf) = Newline => Told(r)
<1> SUFFICES Result
  <2> SUFFICES ASSUME Result
               PROVE  /\ StartsWithLine(Token("text", buf)) /\ First(Token("text", buf)) = a
    BY DEF a, z
  <2> QED
    BY <1>2, <1>4, <1>5
<1>8. CASE buf = <<a, z>>
  <2>1. /\ buf \in Seq(Pieces) /\ Len(buf) = 2 /\ buf[1] = a /\ buf[2] = z
        /\ Head(buf) = a /\ DOMAIN buf = {1, 2} /\ buf # <<>>
    BY <1>2, <1>8
  <2>2. Others(buf) = {1, 2}
    BY <1>2, <2>1 DEF Others
  <2>3. Min(Others(buf)) = 1
    BY <2>2, LeastIs
  <2>4. ASSUME NEW r \in Readers, r.bol PROVE Told(r)
    <3> DEFINE c == Claims(r, buf)
    <3>1. c[0] = r /\ c[1] = Read(c[0], a) /\ c[2] = Read(c[1], z)
      BY <2>1, ClaimsAre
    <3> HIDE DEF c
    <3>2. c[2] = [at |-> q, bol |-> TRUE]
      BY <1>3, <2>4, <3>1
    <3> QED
      BY <2>1, <3>2 DEF c
  <2>5. buf[1] = a
    BY <2>1
  <2>6. Last(buf) = z /\ buf[2].kind = "line" /\ 2 \in 1 .. Len(buf)
    BY <1>2, <2>1 DEF Last
  <2> HIDE DEF Told
  <2> QED
    BY <1>2, <2>1, <2>2, <2>3, <2>4, <2>5, <2>6
<1>9. CASE p = q /\ buf = <<z>>
  <2>1. /\ buf \in Seq(Pieces) /\ Len(buf) = 1 /\ buf[1] = z
        /\ Head(buf) = z /\ DOMAIN buf = {1} /\ buf # <<>>
    BY <1>2, <1>9
  <2>2. Others(buf) = {1}
    BY <1>2, <2>1 DEF Others
  <2>3. Min(Others(buf)) = 1
    BY <2>2, LeastIs
  <2>4. ASSUME NEW r \in Readers, r.bol PROVE Told(r)
    <3> DEFINE c == Claims(r, buf)
    <3>1. c[0] = r /\ c[1] = Read(c[0], z)
      BY <2>1, ClaimsAre
    <3> HIDE DEF c
    <3>2. c[1] = [at |-> q, bol |-> TRUE]
      BY <1>3, <2>4, <3>1
    <3> QED
      BY <2>1, <3>2 DEF c
  <2>5. buf[1] = a
    BY <1>6, <1>9, <2>1
  <2>6. Last(buf) = z /\ buf[1].kind = "line" /\ 1 \in 1 .. Len(buf)
    BY <1>2, <2>1 DEF Last
  <2> HIDE DEF Told
  <2> QED
    BY <1>2, <2>1, <2>2, <2>3, <2>4, <2>5, <2>6
<1>10. CASE buf = <<Newline, a, z>>
  <2>1. /\ buf \in Seq(Pieces) /\ Len(buf) = 3 /\ buf[1] = Newline /\ buf[2] = a /\ buf[3] = z
        /\ Head(buf) = Newline /\ DOMAIN buf = {1, 2, 3} /\ buf # <<>>
    BY <1>2, <1>10
  <2>2. Others(buf) = {2, 3}
    BY <1>2, <2>1 DEF Others
  <2>3. Min(Others(buf)) = 2
    BY <2>2, LeastIs
  <2>4. ASSUME NEW r \in Readers PROVE Told(r)
    <3> DEFINE c == Claims(r, buf)
    <3>1. c[0] = r /\ c[1] = Read(c[0], Newline) /\ c[2] = Read(c[1], a) /\ c[3] = Read(c[2], z)
      BY <2>1, ClaimsAre
    <3> HIDE DEF c
    <3>2. c[3] = [at |-> q, bol |-> TRUE]
      BY <1>3, <3>1
    <3> QED
      BY <2>1, <3>2 DEF c
  <2>5. buf[2] = a
    BY <2>1
  <2>6. Last(buf) = z /\ buf[3].kind = "line" /\ 3 \in 1 .. Len(buf)
    BY <1>2, <2>1 DEF Last
  <2> HIDE DEF Told
  <2> QED
    BY <1>2, <2>1, <2>2, <2>3, <2>4, <2>5, <2>6
<1>11. CASE p = q /\ buf = <<Newline, z>>
  <2>1. /\ buf \in Seq(Pieces) /\ Len(buf) = 2 /\ buf[1] = Newline /\ buf[2] = z
        /\ Head(buf) = Newline /\ DOMAIN buf = {1, 2} /\ buf # <<>>
    BY <1>2, <1>11
  <2>2. Others(buf) = {2}
    BY <1>2, <2>1 DEF Others
  <2>3. Min(Others(buf)) = 2
    BY <2>2, LeastIs
  <2>4. ASSUME NEW r \in Readers PROVE Told(r)
    <3> DEFINE c == Claims(r, buf)
    <3>1. c[0] = r /\ c[1] = Read(c[0], Newline) /\ c[2] = Read(c[1], z)
      BY <2>1, ClaimsAre
    <3> HIDE DEF c
    <3>2. c[2] = [at |-> q, bol |-> TRUE]
      BY <1>3, <3>1
    <3> QED
      BY <2>1, <3>2 DEF c
  <2>5. buf[2] = a
    BY <1>6, <1>11, <2>1
  <2>6. Last(buf) = z /\ buf[2].kind = "line" /\ 2 \in 1 .. Len(buf)
    BY <1>2, <2>1 DEF Last
  <2> HIDE DEF Told
  <2> QED
    BY <1>2, <2>1, <2>2, <2>3, <2>4, <2>5, <2>6
<1> QED
  BY <1>1, <1>8, <1>9, <1>10, <1>11

-----------------------------------------------------------------------------
(* What a lexer returns that is not told by a directive. *)
PlainTokens == {Token("eof", <<>>)} \cup {Token("white", b) : b \in WhiteBufs}
               \cup {Token(k, b) : k \in {"text", "comment"}, b \in TextBufs}

LEMMA TokenParts ==
  /\ \A k, b : Token(k, b).kind = k /\ Token(k, b).buf = b
  /\ NoToken.buf = <<>> /\ NoToken.kind = "none" /\ NoToken \notin PlainTokens
<1>1. \A k, b : Token(k, b).kind = k /\ Token(k, b).buf = b
  BY DEF Token
<1>2. NoToken.buf = <<>> /\ NoToken.kind = "none"
  BY <1>1 DEF NoToken
<1>3. \A t \in PlainTokens : t.kind \in {"eof", "white", "text", "comment"}
  BY <1>1 DEF PlainTokens
<1>4. NoToken \notin PlainTokens
  BY <1>2, <1>3
<1> QED
  BY <1>1, <1>2, <1>4

LEMMA Endings ==
  /\ EndsLine(Newline) /\ ~ EndsLine(Blank) /\ ~ EndsLine(Word)
  /\ \A p : EndsLine(Line(p))
BY DEF EndsLine, Newline, Blank, Word, Line, Piece

LEMMA PlainHeld ==
  ASSUME NEW t \in PlainTokens
  PROVE  /\ t.buf \in PlainBufs /\ ~ StartsWithLine(t)
         /\ t.buf # <<>> => (EndsLine(Last(t.buf)) <=> Last(t.buf) = Newline)
         /\ t.buf # <<>> /\ Head(t.buf) = Word => t # Token("text", <<Newline>>)
<1>1. t.buf \in PlainBufs
  <2>1. ASSUME NEW k, NEW b \in PlainBufs, t = Token(k, b) PROVE t.buf \in PlainBufs
    BY <2>1, TokenParts
  <2>2. /\ <<>> \in PlainBufs /\ WhiteBufs \subseteq PlainBufs
        /\ TextBufs \subseteq PlainBufs
    BY DEF PlainBufs
  <2>3. \/ t = Token("eof", <<>>) \/ (\E b \in WhiteBufs : t = Token("white", b))
        \/ \E k \in {"text", "comment"} : \E b \in TextBufs : t = Token(k, b)
    BY DEF PlainTokens
  <2> QED
    BY <2>1, <2>2, <2>3
<1>2. t.buf \in Seq(Pieces)
  BY <1>1, PlainTypes
<1>3. ~ StartsWithLine(t)
  <2> DEFINE O == Others(t.buf)
  <2>1. O # {} => Min(O) \in O
    <3>1. O \subseteq Nat
      BY <1>2 DEF Others
    <3> HIDE DEF O
    <3>2. O # {} => \E x \in O : \A y \in O : x <= y
      BY <3>1, Least, Zenon
    <3> QED
      BY <3>2 DEF Min
  <2>2. O \subseteq 1 .. Len(t.buf)
    BY <1>2 DEF Others
  <2>3. \A i \in 1 .. Len(t.buf) : t.buf[i].kind # "line"
    BY <1>1, PlainPieces
  <2> HIDE DEF O
  <2>4. O # {} => First(t).kind # "line"
    BY <2>1, <2>2, <2>3 DEF First, O
  <2> QED
    BY <2>4 DEF StartsWithLine, O
<1>4. t.buf # <<>> => Last(t.buf) \in {Newline, Blank, Word}
  <2>1. ASSUME NEW p, t.buf = <<p>> PROVE Last(t.buf) = p
    BY <2>1 DEF Last
  <2>2. ASSUME NEW p, NEW q, t.buf = <<p, q>> PROVE Last(t.buf) = q
    BY <2>2 DEF Last
  <2>3. ASSUME NEW p, NEW q, NEW r, t.buf = <<p, q, r>> PROVE Last(t.buf) = r
    BY <2>3 DEF Last
  <2>4. \/ t.buf = <<>> \/ t.buf = <<Newline>> \/ t.buf = <<Blank>> \/ t.buf = <<Word>>
        \/ t.buf = <<Newline, Newline>> \/ t.buf = <<Word, Newline, Word>>
    BY <1>1 DEF PlainBufs, WhiteBufs, TextBufs
  <2> QED
    BY <2>1, <2>2, <2>3, <2>4, Zenon
<1>5. Newline # Word /\ Head(<<Newline>>) = Newline
  BY PieceTypes
<1>6. t = Token("text", <<Newline>>) => t.buf = <<Newline>>
  BY TokenParts
<1> QED
  BY <1>1, <1>3, <1>4, <1>5, <1>6, Endings

(* The texts that the actions return. *)
WordLines(n) == <<Word>> \o Newlines(n) \o (IF n = 0 THEN <<>> ELSE <<Word>>)
LEMMA Texts ==
  /\ Newlines(1) = <<Newline>> /\ Newlines(2) = <<Newline, Newline>>
  /\ WordLines(0) = <<Word>> /\ WordLines(1) = <<Word, Newline, Word>>
<1>1. Newline \in Pieces /\ Word \in Pieces
  BY PieceTypes
<1>2. Newlines(0) = <<>> /\ Newlines(1) = <<Newline>> /\ Newlines(2) = <<Newline, Newline>>
  BY DEF Newlines
<1>3. <<Word>> \in Seq(Pieces) /\ <<Newline>> \in Seq(Pieces)
  BY <1>1
<1>4. WordLines(0) = <<Word>>
  BY <1>2, <1>3, ConcatEmptySeq DEF WordLines
<1>5. WordLines(1) = <<Word, Newline, Word>>
  <2>1. <<Word>> \o <<Newline>> = <<Word, Newline>>
    BY <1>1, PutBefore
  <2>2. WordLines(1) = <<Word, Newline>> \o <<Word>>
    BY <1>2, <2>1 DEF WordLines
  <2> DEFINE s == <<Word, Newline>> \o <<Word>>
             t == <<Word, Newline, Word>>
  <2>3. <<Word, Newline>> \in Seq(Pieces)
    BY <1>1
  <2>4. s \in Seq(Pieces) /\ Len(s) = 3 /\ s[1] = Word /\ s[2] = Newline /\ s[3] = Word
    BY <1>3, <2>3
  <2>5. t \in Seq(Pieces) /\ Len(t) = 3 /\ t[1] = Word /\ t[2] = Newline /\ t[3] = Word
    BY <1>1
  <2> HIDE DEF s, t
  <2>6. \A i \in 1 .. Len(s) : s[i] = t[i]
    BY <2>4, <2>5
  <2>7. s = t
    BY <2>4, <2>5, <2>6, SeqEqual
  <2> QED
    BY <2>2, <2>7 DEF s, t
<1> QED
  BY <1>2, <1>4, <1>5
-----------------------------------------------------------------------------
(* Streams: only the file being left has ended, and a macro's text is      *)
(* where the macro was used.                                               *)
StreamRecords == [file : Files, line : Nat \ {0}, ignored : Nat, ended : 0 .. 5]
StackOK(s) ==
  /\ s \in Seq(StreamRecords) /\ s # <<>>
  /\ \A i \in 1 .. Len(s) - 1 : s[i].ended \in {0, NotAFile}
  /\ \A i \in 1 .. Len(s) : s[i].ended = NotAFile =>
       i > 1 /\ s[i].file = s[i - 1].file /\ s[i].line = s[i - 1].line
At(s) == Position(Last(s).file, Last(s).line)

LEMMA AtIs ==
  ASSUME NEW s \in Seq(StreamRecords), s # <<>>
  PROVE  /\ At(s) \in Positions /\ Last(s) \in StreamRecords
         /\ At(s).file = Last(s).file /\ At(s).line = Last(s).line /\ At(s).line \in Nat \ {0}
<1>1. Last(s) \in StreamRecords
  BY FrontLast
<1>2. Last(s).file \in Files /\ Last(s).line \in Nat \ {0}
  BY <1>1 DEF StreamRecords
<1> DEFINE Names == Files \cup {""}
<1>3. Last(s).file \in Names
  BY <1>2
<1> HIDE DEF Names
<1>4. /\ At(s) \in [file : Names, line : Nat]
      /\ At(s).file = Last(s).file /\ At(s).line = Last(s).line
  BY <1>2, <1>3 DEF At, Position
<1> QED
  BY <1>1, <1>2, <1>4 DEF Names, Positions

(* Another top. *)
LEMMA TopReplaced ==
  ASSUME NEW s, StackOK(s), NEW e \in StreamRecords,
         e.ended = NotAFile => /\ Last(s).ended = NotAFile
                               /\ e.file = Last(s).file /\ e.line = Last(s).line
  PROVE  StackOK(Append(Front(s), e)) /\ Last(Append(Front(s), e)) = e
<1> DEFINE t == Append(Front(s), e)
<1>1. /\ Len(s) \in Nat \ {0} /\ Last(s) = s[Len(s)]
      /\ Front(s) \in Seq(StreamRecords) /\ Len(Front(s)) = Len(s) - 1
      /\ \A i \in 1 .. (Len(s) - 1) : Front(s)[i] = s[i]
  BY FrontLast DEF StackOK
<1>2. /\ t \in Seq(StreamRecords) /\ Len(t) = Len(s) /\ t[Len(s)] = e
      /\ \A i \in 1 .. (Len(s) - 1) : t[i] = s[i]
  BY <1>1
<1> HIDE DEF t
<1>3. t # <<>> /\ Last(t) = e
  BY <1>1, <1>2 DEF Last
<1>4. \A i \in 1 .. Len(t) - 1 : t[i].ended \in {0, NotAFile}
  BY <1>1, <1>2 DEF StackOK
<1>5. \A i \in 1 .. Len(t) : t[i].ended = NotAFile =>
        i > 1 /\ t[i].file = t[i - 1].file /\ t[i].line = t[i - 1].line
  <2> SUFFICES ASSUME NEW i \in 1 .. Len(t), t[i].ended = NotAFile
               PROVE  i > 1 /\ t[i].file = t[i - 1].file /\ t[i].line = t[i - 1].line
    OBVIOUS
  <2>1. s[i].ended = NotAFile /\ t[i].file = s[i].file /\ t[i].line = s[i].line
    BY <1>1, <1>2
  <2>2. i > 1 /\ s[i].file = s[i - 1].file /\ s[i].line = s[i - 1].line
    BY <1>2, <2>1 DEF StackOK
  <2>3. i - 1 \in 1 .. (Len(s) - 1)
    BY <1>1, <1>2, <2>2
  <2> QED
    BY <1>2, <2>1, <2>2, <2>3
<1>6. StackOK(t)
  BY <1>2, <1>3, <1>4, <1>5 DEF StackOK
<1> QED
  BY <1>3, <1>6 DEF t

(* One more stream. *)
LEMMA Pushed ==
  ASSUME NEW s, StackOK(s), Last(s).ended \in {0, NotAFile}, NEW e \in StreamRecords,
         e.ended = NotAFile => e.file = Last(s).file /\ e.line = Last(s).line
  PROVE  StackOK(Append(s, e)) /\ Last(Append(s, e)) = e
<1> DEFINE t == Append(s, e)
<1>1. Len(s) \in Nat \ {0} /\ Last(s) = s[Len(s)]
  BY FrontLast DEF StackOK
<1>2. /\ t \in Seq(StreamRecords) /\ Len(t) = Len(s) + 1 /\ t[Len(s) + 1] = e
      /\ \A i \in 1 .. Len(s) : t[i] = s[i]
  BY DEF StackOK
<1> HIDE DEF t
<1>3. t # <<>> /\ Last(t) = e
  BY <1>1, <1>2 DEF Last
<1>4. \A i \in 1 .. Len(t) - 1 : t[i].ended \in {0, NotAFile}
  BY <1>1, <1>2 DEF StackOK
<1>5. \A i \in 1 .. Len(t) : t[i].ended = NotAFile =>
        i > 1 /\ t[i].file = t[i - 1].file /\ t[i].line = t[i - 1].line
  <2> SUFFICES ASSUME NEW i \in 1 .. Len(t), t[i].ended = NotAFile
               PROVE  i > 1 /\ t[i].file = t[i - 1].file /\ t[i].line = t[i - 1].line
    OBVIOUS
  <2>1. CASE i = Len(s) + 1
    <3>1. i > 1 /\ i - 1 = Len(s) /\ t[i - 1] = Last(s) /\ t[i] = e
      BY <1>1, <1>2, <2>1
    <3> QED
      BY <3>1
  <2>2. CASE i \in 1 .. Len(s)
    <3>1. s[i].ended = NotAFile /\ t[i] = s[i]
      BY <1>2, <2>2
    <3>2. i > 1 /\ s[i].file = s[i - 1].file /\ s[i].line = s[i - 1].line
      BY <2>2, <3>1 DEF StackOK
    <3>3. i - 1 \in 1 .. Len(s)
      BY <1>1, <2>2, <3>2
    <3> QED
      BY <1>2, <3>1, <3>2, <3>3
  <2> QED
    BY <1>1, <1>2, <2>1, <2>2
<1>6. StackOK(t)
  BY <1>2, <1>3, <1>4, <1>5 DEF StackOK
<1> QED
  BY <1>3, <1>6 DEF t

(* The end of the one on top. *)
LEMMA Popped ==
  ASSUME NEW s, StackOK(s), Len(s) > 1
  PROVE  /\ StackOK(Front(s)) /\ Last(Front(s)).ended \in {0, NotAFile}
         /\ Last(s).ended = NotAFile => At(Front(s)) = At(s)
<1> DEFINE t == Front(s)
<1>1. /\ Len(s) \in Nat /\ Len(s) > 1 /\ Last(s) = s[Len(s)]
      /\ t \in Seq(StreamRecords) /\ Len(t) = Len(s) - 1
      /\ \A i \in 1 .. (Len(s) - 1) : t[i] = s[i]
  <2>1. s \in Seq(StreamRecords) /\ s # <<>>
    BY DEF StackOK
  <2> QED
    BY <2>1, FrontLast
<1> HIDE DEF t
<1>2. t # <<>> /\ Last(t) = t[Len(t)] /\ Len(t) \in 1 .. (Len(s) - 1) /\ Last(t) = s[Len(s) - 1]
  BY <1>1 DEF Last
<1>3. \A i \in 1 .. Len(t) - 1 : t[i].ended \in {0, NotAFile}
  BY <1>1 DEF StackOK
<1>4. \A i \in 1 .. Len(t) : t[i].ended = NotAFile =>
        i > 1 /\ t[i].file = t[i - 1].file /\ t[i].line = t[i - 1].line
  <2> SUFFICES ASSUME NEW i \in 1 .. Len(t), t[i].ended = NotAFile
               PROVE  i > 1 /\ t[i].file = t[i - 1].file /\ t[i].line = t[i - 1].line
    OBVIOUS
  <2>1. s[i].ended = NotAFile /\ t[i] = s[i] /\ i \in 1 .. Len(s)
    BY <1>1
  <2>2. i > 1 /\ s[i].file = s[i - 1].file /\ s[i].line = s[i - 1].line
    BY <2>1 DEF StackOK
  <2>3. i - 1 \in 1 .. (Len(s) - 1)
    BY <1>1, <2>2
  <2> QED
    BY <1>1, <2>1, <2>2, <2>3
<1>5. StackOK(t)
  BY <1>1, <1>2, <1>3, <1>4 DEF StackOK
<1>6. Last(t).ended \in {0, NotAFile}
  BY <1>1, <1>2 DEF StackOK
<1>7. Last(s).ended = NotAFile => Last(s).file = Last(t).file /\ Last(s).line = Last(t).line
  BY <1>1, <1>2 DEF StackOK
<1> QED
  BY <1>5, <1>6, <1>7 DEF t, At
-----------------------------------------------------------------------------
(* Nothing is told of another position, or a directive of where the lexer  *)
(* is waits to be read, or it is held.                                     *)
Undirected ==
  /\ lineCmt \in {<<>>, <<Blank>>} /\ lineCmtNl = FALSE
  /\ held = NoToken \/ held \in PlainTokens
DirectiveUnread ==
  /\ \E p : Directive(cur, p, lineCmt)
  /\ lineCmtNl = TRUE /\ lineAdd = 0 /\ held = NoToken
  /\ off => reader.bol
DirectiveHeld ==
  /\ lineCmt = <<>> /\ lineCmtNl = FALSE /\ lineAdd = 0
  /\ held = Token("text", held.buf) /\ \E p : Inserted(cur, p, held.buf)
  /\ reader.bol \/ Head(held.buf) = Newline

(* What comes after the token held begins a line of the output. *)
LineBegins ==
  /\ held.buf = <<>> => reader.bol
  /\ held.buf # <<>> => EndsLine(Last(held.buf))
Beginnings ==
  /\ rawAtBol => LineBegins
  /\ Undirected /\ lexBol => LineBegins /\ lineAdd = 0 /\ lineCmt = <<>>
  /\ finAtBol => reader.bol

LineTypes ==
  /\ tok \in Positions /\ fin \in Positions /\ reader \in Readers /\ lineAdd \in Nat
  /\ lexBol \in BOOLEAN /\ off \in BOOLEAN /\ rawAtBol \in BOOLEAN
  /\ finAtBol \in BOOLEAN
StreamsInv == StackOK(streams) /\ (top.ended \in {2, 3} => lexBol)
LinesInv ==
  /\ StreamsInv /\ LineTypes /\ Beginnings
  /\ Undirected \/ DirectiveUnread \/ DirectiveHeld

LEMMA CurIs ==
  ASSUME StreamsInv
  PROVE  /\ cur = At(streams) /\ cur \in Positions /\ cur.line \in Nat \ {0}
         /\ cur = Position(top.file, top.line) /\ cur.file = top.file /\ cur.line = top.line
         /\ top = Last(streams) /\ top \in StreamRecords
<1>1. streams \in Seq(StreamRecords) /\ streams # <<>>
  BY DEF StreamsInv, StackOK
<1>2. cur = At(streams) /\ cur = Position(top.file, top.line) /\ top = Last(streams)
  BY DEF cur, top, At
<1> QED
  BY <1>1, <1>2, AtIs

(* Nothing waits when the lexer is asked for more. *)
LEMMA Quiet ==
  ASSUME LinesInv, Wanted, NothingUnread
  PROVE  /\ Undirected /\ held = NoToken /\ held.buf = <<>> /\ lineAdd = 0 /\ lineCmt = <<>>
         /\ lineCmtNl = FALSE /\ (rawAtBol => reader.bol) /\ (lexBol => reader.bol)
<1>1. held = NoToken /\ held.buf = <<>> /\ lineAdd = 0 /\ lineCmt = <<>>
  BY TokenParts DEF Wanted, NothingUnread
<1>2. cur \in Positions
  BY CurIs DEF LinesInv
<1>3. ~ DirectiveHeld
  BY <1>1, <1>2, InsertedIs DEF DirectiveHeld
<1>4. ~ DirectiveUnread
  BY <1>1, <1>2, InsertedIs DEF DirectiveUnread, Inserted
<1>5. Undirected
  BY <1>3, <1>4 DEF LinesInv
<1> QED
  BY <1>1, <1>5 DEF Undirected, LinesInv, Beginnings, LineBegins

-----------------------------------------------------------------------------
(* A step of the lexer that tells nothing of another position: it is       *)
(* further on in the same file, by no more lines than it returns newlines. *)
Same == reader = [at |-> fin, bol |-> finAtBol]
Started == held # NoToken \/ lineAdd > 0 \/ lineCmt # <<>>
Lexed ==
  /\ Wanted /\ NothingUnread
  /\ StreamsInv' /\ LineTypes' /\ Undirected' /\ Beginnings'
  /\ fin' = fin /\ finAtBol' = finAtBol /\ reader' = reader /\ said' = said
  /\ cur'.file = cur.file /\ cur.line <= cur'.line
  /\ Started' => tok' = cur
  /\ hidden => hidden'
  /\ ~ hidden' => Same \/ cur'.line <= cur.line + lineAdd' + NewlinesIn(held'.buf)

(* A step that puts in a directive for the position it goes to. *)
Directed ==
  /\ Wanted /\ NothingUnread
  /\ StreamsInv' /\ LineTypes' /\ DirectiveUnread'
  /\ reader' = reader /\ finAtBol' = finAtBol /\ held' = held
  /\ said' = said /\ (hidden => hidden')
  /\ rawAtBol' => reader.bol

LEMMA LexedInv ==
  ASSUME Lexed PROVE LinesInv'
BY DEF Lexed, LinesInv

LEMMA DirectedInv ==
  ASSUME LinesInv, Directed PROVE LinesInv' /\ ~ Undirected'
<1>1. ~ Undirected'
  BY DEF Directed, DirectiveUnread, Undirected
<1>2. held' = held /\ held.buf = <<>>
  BY Quiet DEF Directed
<1>3. Beginnings'
  BY <1>1, <1>2 DEF Directed, Beginnings, LineBegins, LinesInv
<1> QED
  BY <1>1, <1>3 DEF Directed, LinesInv

(* The position of the lexer, n newlines on. *)
LEMMA PassedIs ==
  ASSUME NEW s \in StreamRecords, NEW n \in Nat
  PROVE  /\ Passed(s, n) \in StreamRecords
         /\ Passed(s, n).file = s.file /\ Passed(s, n).ended = s.ended
         /\ s.line <= Passed(s, n).line /\ Passed(s, n).line <= s.line + n
         /\ n <= s.ignored => Passed(s, n).line = s.line
<1>1. /\ s.file \in Files /\ s.line \in Nat \ {0} /\ s.ignored \in Nat /\ s.ended \in 0 .. 5
  BY DEF StreamRecords
<1>2. CASE n <= s.ignored
  <2>1. Passed(s, n) = [s EXCEPT !.ignored = @ - n] /\ s.ignored - n \in Nat
    BY <1>1, <1>2 DEF Passed
  <2> DEFINE k == s.ignored - n
             t == [s EXCEPT !.ignored = k]
  <2>2. k \in Nat /\ Passed(s, n) = t
    BY <2>1
  <2> HIDE DEF k
  <2>3. t \in StreamRecords /\ t.file = s.file /\ t.ended = s.ended /\ t.line = s.line
    BY <2>2 DEF StreamRecords
  <2> HIDE DEF t
  <2> QED
    BY <1>1, <2>2, <2>3
<1>3. CASE ~ (n <= s.ignored)
  <2> DEFINE l == s.line + n - s.ignored
             t == [s EXCEPT !.ignored = 0, !.line = l]
  <2>1. l \in Nat \ {0} /\ s.line <= l /\ l <= s.line + n
    BY <1>1, <1>3
  <2>2. Passed(s, n) = t
    BY <1>3 DEF Passed
  <2> HIDE DEF l
  <2>3. t \in StreamRecords /\ t.file = s.file /\ t.ended = s.ended /\ t.line = l
    BY <2>1 DEF StreamRecords
  <2> HIDE DEF t
  <2> QED
    BY <1>3, <2>1, <2>2, <2>3
<1> QED
  BY <1>2, <1>3

LEMMA LexMoves ==
  ASSUME LinesInv, NEW n \in Nat, NEW bol \in BOOLEAN, Lex(n, bol)
  PROVE  /\ Wanted /\ NothingUnread
         /\ StackOK(streams') /\ ~ (top'.ended \in {2, 3})
         /\ cur'.file = cur.file /\ cur.line <= cur'.line /\ cur'.line <= cur.line + n
         /\ tok' = cur /\ tok' \in Positions /\ rawAtBol' = bol /\ lexBol' = bol
         /\ fin' = fin /\ finAtBol' = finAtBol /\ reader' = reader /\ said' = said
         /\ hidden => hidden'
         /\ off /\ ~ bol /\ n > 0 /\ ~ hidden' => Same
<1>1. StackOK(streams) /\ top \in StreamRecords /\ top = Last(streams)
      /\ cur.file = top.file /\ cur.line = top.line /\ cur \in Positions
  BY CurIs DEF LinesInv, StreamsInv
<1> DEFINE e == Passed(top, n)
<1>2. /\ e \in StreamRecords /\ e.file = top.file /\ e.ended = top.ended
      /\ top.line <= e.line /\ e.line <= top.line + n /\ (n <= top.ignored => e.line = top.line)
  BY <1>1, PassedIs
<1>3. streams' = Append(Front(streams), e) /\ (top.ended = NotAFile => n <= top.ignored)
      /\ top.ended \in {0, NotAFile}
  BY DEF Lex, Pass, Reading
<1> HIDE DEF e
<1>4. StackOK(streams') /\ Last(streams') = e
  BY <1>1, <1>2, <1>3, TopReplaced
<1>5. streams' \in Seq(StreamRecords) /\ streams' # <<>>
  BY <1>4 DEF StackOK
<1>6. cur' = At(streams') /\ top' = e
  BY <1>4 DEF cur, top, At
<1>7. cur'.file = e.file /\ cur'.line = e.line
  BY <1>4, <1>5, <1>6, AtIs
<1>8. ~ (top'.ended \in {2, 3})
  BY <1>2, <1>3, <1>6 DEF NotAFile
<1>9. /\ Wanted /\ NothingUnread /\ tok' = cur /\ rawAtBol' = bol /\ lexBol' = bol
      /\ fin' = fin /\ finAtBol' = finAtBol /\ reader' = reader /\ said' = said
      /\ hidden' = (hidden \/ (off /\ ~ bol /\ n > 0 /\ [at |-> fin, bol |-> finAtBol] # reader))
  BY DEF Lex
<1> QED
  BY <1>1, <1>2, <1>4, <1>7, <1>8, <1>9 DEF Same


(* What lexer steps have in common, and where each leaves the output. *)
LexResult(n, bol) ==
  /\ n \in Nat /\ bol \in BOOLEAN /\ Lex(n, bol)
  /\ off' \in BOOLEAN /\ lineAdd' \in Nat /\ Undirected' /\ NewlinesIn(held'.buf) \in Nat
  /\ bol => LineBegins' /\ lineAdd' = 0 /\ lineCmt' = <<>>
  /\ ~ hidden' => Same \/ n <= lineAdd' + NewlinesIn(held'.buf)
LEMMA LexedBy ==
  ASSUME LinesInv, NEW n, NEW bol, LexResult(n, bol)
  PROVE  Lexed
<1> /\ n \in Nat /\ bol \in BOOLEAN /\ Lex(n, bol)
    /\ off' \in BOOLEAN /\ lineAdd' \in Nat /\ Undirected' /\ NewlinesIn(held'.buf) \in Nat
    /\ (bol => LineBegins' /\ lineAdd' = 0 /\ lineCmt' = <<>>)
    /\ (~ hidden' => Same \/ n <= lineAdd' + NewlinesIn(held'.buf))
  BY DEF LexResult
<1>1. /\ Wanted /\ NothingUnread
      /\ StackOK(streams') /\ ~ (top'.ended \in {2, 3})
      /\ cur'.file = cur.file /\ cur.line <= cur'.line /\ cur'.line <= cur.line + n
      /\ tok' = cur /\ tok' \in Positions /\ rawAtBol' = bol /\ lexBol' = bol
      /\ fin' = fin /\ finAtBol' = finAtBol /\ reader' = reader /\ said' = said
      /\ hidden => hidden'
  BY LexMoves
<1>2. StreamsInv'
  BY <1>1 DEF StreamsInv
<1>3. LineTypes'
  BY <1>1 DEF LinesInv, LineTypes
<1>4. Beginnings'
  BY <1>1 DEF LinesInv, Beginnings
<1>5. cur.line \in Nat /\ cur'.line \in Nat
  <2>1. StreamsInv
    BY DEF LinesInv
  <2>2. (StreamsInv => cur.line \in Nat \ {0})'
    BY CurIs, PTL
  <2> QED
    BY <1>2, <2>1, <2>2, CurIs
<1>6. ~ hidden' => Same \/ cur'.line <= cur.line + lineAdd' + NewlinesIn(held'.buf)
  BY <1>1, <1>5
<1> QED
  BY <1>1, <1>2, <1>3, <1>4, <1>6 DEF Lexed

LEMMA ReturnedIs ==
  ASSUME LinesInv, Wanted, NothingUnread, NEW t \in PlainTokens, held' = t,
         UNCHANGED <<off, lineAdd, lineCmt, lineCmtNl>>
  PROVE  /\ Undirected' /\ lineAdd' = 0 /\ lineCmt' = <<>> /\ off' \in BOOLEAN
         /\ held'.buf = t.buf /\ (t.buf # <<>> /\ EndsLine(Last(t.buf)) => LineBegins')
BY Quiet DEF LinesInv, LineTypes, Undirected, LineBegins

LEMMA NotReturnedIs ==
  ASSUME LinesInv, Wanted, NothingUnread, held' = held,
         lineCmt' \in {<<>>, <<Blank>>}, lineCmtNl' = lineCmtNl
  PROVE  Undirected' /\ held'.buf = <<>> /\ NewlinesIn(held'.buf) = 0
BY Quiet, CountNewlines DEF Undirected

LEMMA LexNewlineLexed == ASSUME LinesInv, LexNewline PROVE Lexed
<1> DEFINE t == Token("white", <<Newline>>)
<1>1. Lex(1, TRUE) /\ held' = t /\ UNCHANGED <<off, lineAdd, lineCmt, lineCmtNl>>
  BY DEF LexNewline, Returned
<1>2. t \in PlainTokens /\ t.buf = <<Newline>>
  BY TokenParts DEF PlainTokens, WhiteBufs
<1> HIDE DEF t
<1>3. Last(<<Newline>>) = Newline /\ <<Newline>> # <<>>
  BY DEF Last
<1>4. Wanted /\ NothingUnread
  BY <1>1 DEF Lex
<1>5. Undirected' /\ lineAdd' = 0 /\ lineCmt' = <<>> /\ off' \in BOOLEAN
      /\ held'.buf = <<Newline>> /\ LineBegins'
  BY <1>1, <1>2, <1>3, <1>4, ReturnedIs, Endings
<1>6. 1 \in Nat /\ TRUE \in BOOLEAN
  OBVIOUS
<1>7. /\ lineAdd' \in Nat /\ NewlinesIn(held'.buf) \in Nat
      /\ (~ hidden' => Same \/ 1 <= lineAdd' + NewlinesIn(held'.buf))
  BY <1>1, <1>5, CountNewlines
<1>8. LexResult(1, TRUE)
  BY <1>1, <1>5, <1>6, <1>7, Zenon DEF LexResult
<1> QED
  BY <1>8, LexedBy

LEMMA LexBlankLexed == ASSUME LinesInv, LexBlank PROVE Lexed
<1> DEFINE t == Token("white", <<Blank>>)
<1>1. Lex(0, FALSE) /\ held' = t /\ UNCHANGED <<off, lineAdd, lineCmt, lineCmtNl>>
  BY DEF LexBlank, Returned
<1>2. t \in PlainTokens /\ t.buf = <<Blank>>
  BY TokenParts DEF PlainTokens, WhiteBufs
<1> HIDE DEF t
<1>3. Wanted /\ NothingUnread
  BY <1>1 DEF Lex
<1>4. Undirected' /\ lineAdd' = 0 /\ lineCmt' = <<>> /\ off' \in BOOLEAN
      /\ held'.buf = <<Blank>>
  BY <1>1, <1>2, <1>3, ReturnedIs
<1>5. 0 \in Nat /\ FALSE \in BOOLEAN
  OBVIOUS
<1>6. /\ lineAdd' \in Nat /\ NewlinesIn(held'.buf) \in Nat
      /\ (~ hidden' => Same \/ 0 <= lineAdd' + NewlinesIn(held'.buf))
  BY <1>1, <1>4, CountNewlines
<1>7. LexResult(0, FALSE)
  BY <1>1, <1>4, <1>5, <1>6, Zenon DEF LexResult
<1> QED
  BY <1>7, LexedBy

(* A word, or two with a newline between them. *)
LEMMA WordsLexed ==
  ASSUME LinesInv, NEW n \in 0 .. 1, Lex(n, FALSE), NEW k \in {"text", "comment"},
         Returned(k, WordLines(n))
  PROVE  Lexed
<1> DEFINE t == Token(k, WordLines(n))
<1>1. held' = t /\ UNCHANGED <<off, lineAdd, lineCmt, lineCmtNl>>
  BY DEF Returned
<1>2. WordLines(n) \in TextBufs /\ NewlinesIn(WordLines(n)) = n
  BY Texts, CountNewlines DEF TextBufs
<1>3. t \in PlainTokens /\ t.buf = WordLines(n)
  BY <1>2, TokenParts DEF PlainTokens
<1> HIDE DEF t
<1>4. Wanted /\ NothingUnread
  BY DEF Lex
<1>5. Undirected' /\ lineAdd' = 0 /\ lineCmt' = <<>> /\ off' \in BOOLEAN
      /\ held'.buf = WordLines(n)
  BY <1>1, <1>3, <1>4, ReturnedIs
<1>6. n \in Nat /\ FALSE \in BOOLEAN
  OBVIOUS
<1>7. /\ lineAdd' \in Nat /\ NewlinesIn(held'.buf) \in Nat
      /\ (~ hidden' => Same \/ n <= lineAdd' + NewlinesIn(held'.buf))
  BY <1>2, <1>5
<1>8. LexResult(n, FALSE)
  BY <1>2, <1>5, <1>6, <1>7, Zenon DEF LexResult
<1> QED
  BY <1>8, LexedBy

LEMMA LexTextLexed == ASSUME LinesInv, LexText PROVE Lexed
<1>1. PICK n \in 0 .. 1 :
        Lex(n, FALSE) /\ IF off THEN NotReturned ELSE Returned("text", WordLines(n))
  BY DEF LexText, WordLines
<1>2. CASE off
  <2>1. Wanted /\ NothingUnread
    BY <1>1 DEF Lex
  <2>2. /\ held' = held /\ off' = off /\ lineAdd' = lineAdd /\ lineCmt' = lineCmt
        /\ lineCmtNl' = lineCmtNl
    BY <1>1, <1>2 DEF NotReturned
  <2>3. lineAdd' = 0 /\ lineCmt' = <<>> /\ off' \in BOOLEAN
    BY <2>1, <2>2, Quiet DEF LinesInv, LineTypes
  <2>4. Undirected' /\ NewlinesIn(held'.buf) = 0
    BY <2>1, <2>2, <2>3, NotReturnedIs
  <2>5. n > 0 /\ ~ hidden' => Same
    <3>1. n \in Nat /\ FALSE \in BOOLEAN
      OBVIOUS
    <3>2. Lex(n, FALSE)
      BY <1>1, Zenon
    <3>3. off /\ ~ FALSE /\ n > 0 /\ ~ hidden' => Same
      BY <3>1, <3>2, LexMoves, Zenon
    <3> QED
      BY <1>2, <3>3
  <2>6. n \in Nat /\ FALSE \in BOOLEAN
    OBVIOUS
  <2>7. /\ lineAdd' \in Nat /\ NewlinesIn(held'.buf) \in Nat
        /\ (~ hidden' => Same \/ n <= lineAdd' + NewlinesIn(held'.buf))
    BY <1>1, <2>3, <2>4, <2>5
  <2>8. LexResult(n, FALSE)
    BY <1>1, <2>3, <2>4, <2>5, <2>6, <2>7, Zenon DEF LexResult
  <2> QED
    BY <2>8, LexedBy
<1>3. CASE ~ off
  BY <1>1, <1>3, WordsLexed
<1> QED
  BY <1>2, <1>3

LEMMA LexCommentLexed == ASSUME LinesInv, LexComment PROVE Lexed
<1>1. PICK n \in 0 .. 1 :
        /\ Lex(n, FALSE)
        /\ IF KeepComments /\ ~ off THEN Returned("comment", WordLines(n))
           ELSE /\ lineCmt' = IF off THEN <<>> ELSE <<Blank>>
                /\ Stripped(n)
                /\ UNCHANGED <<held, off, lineCmtNl>>
  BY DEF LexComment, WordLines
<1>2. CASE KeepComments /\ ~ off
  BY <1>1, <1>2, WordsLexed
<1>3. CASE ~ (KeepComments /\ ~ off)
  <2>1. Wanted /\ NothingUnread
    BY <1>1 DEF Lex
  <2>2. /\ held' = held /\ off' = off /\ lineAdd' = n /\ lineCmt' \in {<<>>, <<Blank>>}
        /\ lineCmtNl' = lineCmtNl
    BY <1>1, <1>3 DEF Stripped
  <2>3. Undirected' /\ NewlinesIn(held'.buf) = 0
    BY <2>1, <2>2, NotReturnedIs
  <2>4. off' \in BOOLEAN
    BY <2>2 DEF LinesInv, LineTypes
  <2>5. n \in Nat /\ FALSE \in BOOLEAN
    OBVIOUS
  <2>6. /\ lineAdd' \in Nat /\ NewlinesIn(held'.buf) \in Nat
        /\ (~ hidden' => Same \/ n <= lineAdd' + NewlinesIn(held'.buf))
    BY <1>1, <2>2, <2>3, <2>4
  <2>7. LexResult(n, FALSE)
    BY <1>1, <2>2, <2>3, <2>4, <2>5, <2>6, Zenon DEF LexResult
  <2> QED
    BY <2>7, LexedBy
<1> QED
  BY <1>2, <1>3

LEMMA LexDefineLexed == ASSUME LinesInv, LexDefine PROVE Lexed
<1>1. PICK n \in 0 .. 1 : Lex(n + 1, TRUE) /\ Returned("white", Newlines(n + 1))
  BY DEF LexDefine
<1> DEFINE t == Token("white", Newlines(n + 1))
<1>2. held' = t /\ UNCHANGED <<off, lineAdd, lineCmt, lineCmtNl>>
  BY <1>1 DEF Returned
<1>3. /\ Newlines(n + 1) \in WhiteBufs /\ NewlinesIn(Newlines(n + 1)) = n + 1
      /\ Newlines(n + 1) # <<>> /\ Last(Newlines(n + 1)) = Newline
  <2>1. CASE n = 0
    BY <2>1, Texts, CountNewlines DEF WhiteBufs, Last
  <2>2. CASE n = 1
    BY <2>2, Texts, CountNewlines DEF WhiteBufs, Last
  <2> QED
    BY <2>1, <2>2
<1>4. t \in PlainTokens /\ t.buf = Newlines(n + 1)
  BY <1>3, TokenParts DEF PlainTokens
<1> HIDE DEF t
<1>5. Wanted /\ NothingUnread
  BY <1>1 DEF Lex
<1>6. Undirected' /\ lineAdd' = 0 /\ lineCmt' = <<>> /\ off' \in BOOLEAN
      /\ held'.buf = Newlines(n + 1) /\ LineBegins'
  BY <1>2, <1>3, <1>4, <1>5, ReturnedIs, Endings
<1>7. n + 1 \in Nat /\ TRUE \in BOOLEAN
  OBVIOUS
<1>8. /\ lineAdd' \in Nat /\ NewlinesIn(held'.buf) \in Nat
      /\ (~ hidden' => Same \/ n + 1 <= lineAdd' + NewlinesIn(held'.buf))
  BY <1>1, <1>3, <1>6
<1>9. LexResult(n + 1, TRUE)
  BY <1>1, <1>3, <1>6, <1>7, <1>8, Zenon DEF LexResult
<1> QED
  BY <1>9, LexedBy

LEMMA LexConditionLexed == ASSUME LinesInv, LexCondition PROVE Lexed
<1>1. Lex(0, FALSE) /\ off' = ~ off /\ UNCHANGED <<held, lineAdd, lineCmt, lineCmtNl>>
  BY DEF LexCondition
<1>2. Wanted /\ NothingUnread
  BY <1>1 DEF Lex
<1>3. lineAdd' = 0 /\ lineCmt' = <<>> /\ off' \in BOOLEAN
  BY <1>1, <1>2, Quiet DEF LinesInv, LineTypes
<1>4. Undirected' /\ NewlinesIn(held'.buf) = 0
  BY <1>1, <1>2, <1>3, NotReturnedIs
<1>5. 0 \in Nat /\ FALSE \in BOOLEAN
  OBVIOUS
<1>6. /\ lineAdd' \in Nat /\ NewlinesIn(held'.buf) \in Nat
      /\ (~ hidden' => Same \/ 0 <= lineAdd' + NewlinesIn(held'.buf))
  BY <1>1, <1>3, <1>4
<1>7. LexResult(0, FALSE)
  BY <1>1, <1>3, <1>4, <1>5, <1>6, Zenon DEF LexResult
<1> QED
  BY <1>7, LexedBy

(* Steps that change what is on the stack. *)
LEMMA Moved ==
  ASSUME StreamsInv, StackOK(streams'), NEW e, Last(streams') = e
  PROVE  /\ top' = e /\ cur' = Position(e.file, e.line) /\ cur' \in Positions
         /\ cur'.file = e.file /\ cur'.line = e.line /\ cur'.line \in Nat \ {0}
<1>1. streams' \in Seq(StreamRecords) /\ streams' # <<>>
  BY DEF StackOK
<1>2. cur' = At(streams') /\ cur' = Position(e.file, e.line) /\ top' = e
  BY DEF cur, top, At
<1> QED
  BY <1>1, <1>2, AtIs

LEMMA LexMacroLexed == ASSUME LinesInv, LexMacro PROVE Lexed
<1>1. PICK n \in 0 .. 1 :
        /\ Wanted /\ NothingUnread /\ Reading
        /\ tok' = cur /\ rawAtBol' = FALSE /\ lexBol' = FALSE
        /\ streams' = Append(streams, Stream(top.file, top.line, n, NotAFile))
        /\ UNCHANGED <<off, lineAdd, lineCmt, lineCmtNl, held, finVars>>
  BY DEF LexMacro
<1>2. /\ StreamsInv /\ StackOK(streams) /\ top \in StreamRecords /\ top = Last(streams)
      /\ cur \in Positions /\ cur.line \in Nat /\ cur.file = top.file /\ cur.line = top.line
  BY CurIs DEF LinesInv, StreamsInv
<1> DEFINE e == Stream(top.file, top.line, n, NotAFile)
<1>3. e \in StreamRecords /\ e.file = top.file /\ e.line = top.line /\ e.ended = 5
  BY <1>2 DEF Stream, StreamRecords, NotAFile
<1>4. streams' = Append(streams, e) /\ top.ended \in {0, NotAFile}
  BY <1>1 DEF Reading
<1> HIDE DEF e
<1>5. StackOK(streams') /\ Last(streams') = e
  BY <1>2, <1>3, <1>4, Pushed
<1>6. top' = e /\ cur'.file = e.file /\ cur'.line = e.line
  BY <1>2, <1>5, Moved
<1>7. /\ Undirected /\ held = NoToken /\ lineAdd = 0 /\ lineCmt = <<>> /\ lineCmtNl = FALSE
  BY <1>1, Quiet
<1>8. /\ held' = held /\ lineAdd' = lineAdd /\ lineCmt' = lineCmt /\ lineCmtNl' = lineCmtNl
      /\ off' = off /\ fin' = fin /\ finAtBol' = finAtBol /\ reader' = reader /\ said' = said
      /\ hidden' = hidden
  BY <1>1 DEF finVars
<1>9. StreamsInv' /\ LineTypes' /\ Undirected' /\ Beginnings'
  <2>1. StreamsInv'
    BY <1>3, <1>5, <1>6 DEF StreamsInv
  <2>2. LineTypes'
    BY <1>1, <1>2, <1>8 DEF LinesInv, LineTypes
  <2>3. Undirected' /\ Beginnings'
    BY <1>1, <1>7, <1>8 DEF LinesInv, Undirected, Beginnings
  <2> QED
    BY <2>1, <2>2, <2>3
<1>10. cur'.line <= cur.line + lineAdd' + NewlinesIn(held'.buf)
  BY <1>2, <1>3, <1>6, <1>7, <1>8, TokenParts, CountNewlines
<1> QED
  BY <1>1, <1>2, <1>3, <1>6, <1>8, <1>9, <1>10 DEF Lexed

LEMMA MacroEndLexed == ASSUME LinesInv, MacroEnd PROVE Lexed
<1>1. /\ Wanted /\ NothingUnread /\ top.ended = NotAFile
      /\ streams' = Front(streams)
      /\ UNCHANGED <<tok, lexBol, off, rawVars, held, finVars>>
  BY DEF MacroEnd
<1>2. /\ StreamsInv /\ StackOK(streams) /\ top = Last(streams) /\ cur = At(streams)
      /\ cur \in Positions /\ cur.line \in Nat
  BY CurIs DEF LinesInv, StreamsInv
<1>3. Len(streams) > 1
  <2>1. Len(streams) \in Nat \ {0} /\ Last(streams) = streams[Len(streams)]
    BY <1>2, FrontLast DEF StackOK
  <2> QED
    BY <1>1, <1>2, <2>1 DEF StackOK
<1>4. StackOK(streams') /\ Last(streams').ended \in {0, NotAFile} /\ At(streams') = cur
  BY <1>1, <1>2, <1>3, Popped
<1>5. top' = Last(streams') /\ cur' = cur
  BY <1>4 DEF cur, top, At
<1>6. /\ Undirected /\ held = NoToken /\ lineAdd = 0 /\ lineCmt = <<>> /\ lineCmtNl = FALSE
  BY <1>1, Quiet
<1>7. /\ held' = held /\ lineAdd' = lineAdd /\ lineCmt' = lineCmt /\ lineCmtNl' = lineCmtNl
      /\ off' = off /\ fin' = fin /\ finAtBol' = finAtBol /\ reader' = reader /\ said' = said
      /\ hidden' = hidden /\ tok' = tok /\ rawAtBol' = rawAtBol /\ lexBol' = lexBol
  BY <1>1 DEF finVars, rawVars
<1>8. StreamsInv' /\ LineTypes' /\ Undirected' /\ Beginnings'
  <2>1. StreamsInv'
    BY <1>4, <1>5 DEF StreamsInv, NotAFile
  <2>2. LineTypes'
    BY <1>7 DEF LinesInv, LineTypes
  <2>3. Undirected' /\ Beginnings'
    BY <1>6, <1>7 DEF LinesInv, Undirected, Beginnings, LineBegins
  <2> QED
    BY <2>1, <2>2, <2>3
<1>9. cur'.line <= cur.line + lineAdd' + NewlinesIn(held'.buf)
  BY <1>2, <1>5, <1>6, <1>7, TokenParts, CountNewlines
<1>10. ~ Started'
  BY <1>6, <1>7 DEF Started
<1> QED
  BY <1>1, <1>2, <1>5, <1>7, <1>8, <1>9, <1>10 DEF Lexed

LEMMA EndNewlineLexed == ASSUME LinesInv, EndNewline PROVE Lexed
<1>1. /\ Wanted /\ NothingUnread /\ top.ended = 0
      /\ tok' = cur /\ rawAtBol' = TRUE /\ lexBol' = TRUE
      /\ streams' = Append(Front(streams), [Passed(top, 1) EXCEPT !.ended = 2])
      /\ held' = Token("white", <<Newline>>)
      /\ UNCHANGED <<off, lineAdd, lineCmt, lineCmtNl, finVars>>
  BY DEF EndNewline
<1>2. /\ StreamsInv /\ StackOK(streams) /\ top \in StreamRecords /\ top = Last(streams)
      /\ cur \in Positions /\ cur.line \in Nat /\ cur.file = top.file /\ cur.line = top.line
  BY CurIs DEF LinesInv, StreamsInv
<1> DEFINE p == Passed(top, 1)
           e == [p EXCEPT !.ended = 2]
<1>3. p \in StreamRecords /\ p.file = top.file /\ top.line <= p.line /\ p.line <= top.line + 1
  BY <1>2, PassedIs
<1> HIDE DEF p
<1>4. e \in StreamRecords /\ e.file = p.file /\ e.line = p.line /\ e.ended = 2
  BY <1>3 DEF StreamRecords
<1>5. streams' = Append(Front(streams), e)
  BY <1>1 DEF p
<1> HIDE DEF e
<1>6. StackOK(streams') /\ Last(streams') = e
  BY <1>2, <1>4, <1>5, TopReplaced DEF NotAFile
<1>7. top' = e /\ cur'.file = e.file /\ cur'.line = e.line /\ cur'.line \in Nat
  BY <1>2, <1>6, Moved
<1>8. /\ off' = off /\ fin' = fin /\ finAtBol' = finAtBol /\ reader' = reader /\ said' = said
      /\ hidden' = hidden /\ UNCHANGED <<off, lineAdd, lineCmt, lineCmtNl>>
  BY <1>1 DEF finVars
<1> DEFINE t == Token("white", <<Newline>>)
<1>9. t \in PlainTokens /\ t.buf = <<Newline>> /\ held' = t
  BY <1>1, TokenParts DEF PlainTokens, WhiteBufs
<1> HIDE DEF t
<1>10. Last(<<Newline>>) = Newline /\ <<Newline>> # <<>>
  BY DEF Last
<1>11. Undirected' /\ lineAdd' = 0 /\ lineCmt' = <<>> /\ off' \in BOOLEAN
      /\ held'.buf = <<Newline>> /\ LineBegins'
  BY <1>1, <1>8, <1>9, <1>10, ReturnedIs, Endings
<1>12. StreamsInv' /\ LineTypes' /\ Beginnings'
  <2>1. StreamsInv'
    BY <1>1, <1>6 DEF StreamsInv
  <2>2. LineTypes'
    BY <1>1, <1>2, <1>8, <1>11 DEF LinesInv, LineTypes
  <2>3. Beginnings'
    BY <1>8, <1>11 DEF LinesInv, Beginnings
  <2> QED
    BY <2>1, <2>2, <2>3
<1>13. cur'.line <= cur.line + lineAdd' + NewlinesIn(held'.buf)
  BY <1>2, <1>3, <1>4, <1>7, <1>11, CountNewlines
<1> QED
  BY <1>1, <1>2, <1>3, <1>4, <1>7, <1>8, <1>11, <1>12, <1>13 DEF Lexed

(* The last file. *)
LEMMA EofLexed == ASSUME LinesInv, EndFile, Len(streams) = 1 PROVE Lexed
<1>1. /\ Wanted /\ NothingUnread /\ top.ended = 3
      /\ streams' = <<[top EXCEPT !.ended = 4]>> /\ tok' = cur
      /\ held' = Token("eof", <<>>)
      /\ UNCHANGED <<lineCmt, lineCmtNl, rawAtBol>>
      /\ UNCHANGED <<lexBol, off, lineAdd, finVars>>
  BY DEF EndFile
<1>2. /\ StreamsInv /\ StackOK(streams) /\ top \in StreamRecords /\ top = Last(streams)
      /\ cur \in Positions /\ cur.line \in Nat /\ cur.file = top.file /\ cur.line = top.line
  BY CurIs DEF LinesInv, StreamsInv
<1> DEFINE e == [top EXCEPT !.ended = 4]
<1>3. e \in StreamRecords /\ e.file = top.file /\ e.line = top.line /\ e.ended = 4
  BY <1>2 DEF StreamRecords
<1>4. streams' = <<e>>
  BY <1>1
<1> HIDE DEF e
<1>5. streams' \in Seq(StreamRecords) /\ streams' # <<>> /\ Len(streams') = 1 /\ streams'[1] = e
  BY <1>3, <1>4
<1>6. StackOK(streams') /\ Last(streams') = e
  BY <1>3, <1>5 DEF StackOK, NotAFile, Last
<1>7. top' = e /\ cur'.file = e.file /\ cur'.line = e.line
  BY <1>2, <1>6, Moved
<1>8. /\ off' = off /\ fin' = fin /\ finAtBol' = finAtBol /\ reader' = reader /\ said' = said
      /\ hidden' = hidden /\ rawAtBol' = rawAtBol /\ lexBol' = lexBol
      /\ UNCHANGED <<off, lineAdd, lineCmt, lineCmtNl>>
  BY <1>1 DEF finVars
<1> DEFINE t == Token("eof", <<>>)
<1>9. t \in PlainTokens /\ t.buf = <<>> /\ held' = t
  BY <1>1, TokenParts DEF PlainTokens
<1> HIDE DEF t
<1>10. Undirected' /\ lineAdd' = 0 /\ lineCmt' = <<>> /\ off' \in BOOLEAN /\ held'.buf = <<>>
  BY <1>1, <1>8, <1>9, ReturnedIs
<1>11. (rawAtBol => reader.bol) /\ (lexBol => reader.bol)
  BY <1>1, Quiet
<1>12. StreamsInv' /\ LineTypes' /\ Beginnings'
  <2>1. StreamsInv'
    BY <1>3, <1>6, <1>7 DEF StreamsInv
  <2>2. LineTypes'
    BY <1>1, <1>2, <1>8, <1>10 DEF LinesInv, LineTypes
  <2>3. Beginnings'
    BY <1>8, <1>10, <1>11 DEF LinesInv, Beginnings, LineBegins
  <2> QED
    BY <2>1, <2>2, <2>3
<1>13. cur'.line <= cur.line + lineAdd' + NewlinesIn(held'.buf)
  BY <1>2, <1>3, <1>7, <1>10, CountNewlines
<1> QED
  BY <1>1, <1>2, <1>3, <1>7, <1>8, <1>10, <1>12, <1>13 DEF Lexed

(* Steps that put a directive before what is read next. *)
LEMMA DirectedBy ==
  ASSUME LinesInv, Wanted, NothingUnread, StackOK(streams'),
         NEW e, Last(streams') = e, e.ended \in {2, 3} => lexBol' = TRUE,
         NEW p \in Positions, Directive(Position(e.file, e.line), p, lineCmt'), lineCmtNl' = TRUE,
         UNCHANGED <<off, lineAdd, held, finVars>>, off => reader.bol,
         tok' \in Positions, lexBol' \in BOOLEAN, rawAtBol' \in BOOLEAN, rawAtBol' => reader.bol
  PROVE  Directed
<1>1. StreamsInv /\ LineTypes
  BY DEF LinesInv
<1>2. top' = e /\ cur' = Position(e.file, e.line)
  BY <1>1, Moved
<1>3. held = NoToken /\ lineAdd = 0
  BY Quiet
<1>4. /\ off' = off /\ lineAdd' = lineAdd /\ held' = held /\ fin' = fin
      /\ finAtBol' = finAtBol /\ reader' = reader /\ said' = said /\ hidden' = hidden
  BY DEF finVars
<1>5. StreamsInv'
  BY <1>2 DEF StreamsInv
<1>6. LineTypes'
  BY <1>1, <1>4 DEF LineTypes
<1>7. \E x : Directive(cur', x, lineCmt')
  BY <1>2
<1>8. DirectiveUnread'
  BY <1>3, <1>4, <1>7 DEF DirectiveUnread
<1> QED
  BY <1>4, <1>5, <1>6, <1>8 DEF Directed

LEMMA LexIncludeDirected == ASSUME LinesInv, LexInclude PROVE Directed
<1>1. PICK file \in Files :
        /\ Wanted /\ NothingUnread /\ Reading /\ ~ off
        /\ tok' = cur /\ rawAtBol' = FALSE /\ lexBol' = TRUE
        /\ streams' = Append(streams, Stream(file, 1, 0, 0))
        /\ InsertAtBol(<<Line(cur), Line(Position(file, 1))>>)
        /\ UNCHANGED <<off, lineAdd, held, finVars>>
  BY DEF LexInclude
<1>2. /\ StreamsInv /\ StackOK(streams) /\ top = Last(streams)
      /\ cur \in Positions /\ cur.line \in Nat \ {0}
  BY CurIs DEF LinesInv, StreamsInv
<1> DEFINE e == Stream(file, 1, 0, 0)
<1>3. e \in StreamRecords /\ e.file = file /\ e.line = 1 /\ e.ended = 0
  BY DEF Stream, StreamRecords
<1>4. streams' = Append(streams, e) /\ top.ended \in {0, NotAFile}
  BY <1>1 DEF Reading
<1> HIDE DEF e
<1>5. StackOK(streams') /\ Last(streams') = e
  BY <1>2, <1>3, <1>4, Pushed DEF NotAFile
<1>6. Position(file, 1).line = 1
  BY DEF Position
<1>7. Directive(Position(e.file, e.line), cur, lineCmt') /\ lineCmtNl' = TRUE
  BY <1>1, <1>2, <1>3, <1>6 DEF Directive, InsertAtBol
<1>8. e.ended \in {2, 3} => lexBol' = TRUE
  BY <1>3
<1> QED
  BY <1>1, <1>2, <1>5, <1>7, <1>8, DirectedBy

LEMMA LexLineDirected == ASSUME LinesInv, LexLine PROVE Directed
<1>1. PICK file \in Files, line \in 1 .. LineBound - 1 :
        /\ Wanted /\ NothingUnread /\ InFile /\ lexBol
        /\ tok' = cur /\ rawAtBol' = TRUE /\ lexBol' = TRUE
        /\ streams' = Append(Front(streams), [top EXCEPT !.file = file, !.line = line])
        /\ InsertAtBol(<<Line(Position(file, line))>>)
        /\ UNCHANGED <<off, lineAdd, held, finVars>>
  BY DEF LexLine
<1>2. /\ StreamsInv /\ StackOK(streams) /\ top \in StreamRecords /\ top = Last(streams)
      /\ cur \in Positions
  BY CurIs DEF LinesInv, StreamsInv
<1> DEFINE e == [top EXCEPT !.file = file, !.line = line]
<1>3. e \in StreamRecords /\ e.file = file /\ e.line = line /\ e.ended = 0
  <2>1. line \in Nat \ {0} /\ top.ended = 0
    BY <1>1, LinesAssumption DEF InFile
  <2> QED
    BY <1>2, <2>1 DEF StreamRecords
<1>4. streams' = Append(Front(streams), e)
  BY <1>1
<1> HIDE DEF e
<1>5. StackOK(streams') /\ Last(streams') = e
  BY <1>2, <1>3, <1>4, TopReplaced DEF NotAFile
<1> DEFINE q == Position(file, line)
<1>6. q = Position(e.file, e.line) /\ q \in Positions /\ q.line \in Nat
  <2>1. streams' \in Seq(StreamRecords) /\ streams' # <<>>
    BY <1>5 DEF StackOK
  <2>2. At(streams') \in Positions /\ At(streams').line \in Nat
    BY <2>1, AtIs
  <2> QED
    BY <1>3, <1>5, <2>2 DEF At
<1>7. lineCmt' = <<Line(q)>> /\ lineCmtNl' = TRUE
  BY <1>1 DEF InsertAtBol
<1> HIDE DEF q
<1>8. Directive(Position(e.file, e.line), q, lineCmt')
  BY <1>6, <1>7 DEF Directive
<1>9. reader.bol
  BY <1>1, Quiet
<1>10. e.ended \in {2, 3} => lexBol' = TRUE
  BY <1>3
<1> QED
  BY <1>1, <1>2, <1>5, <1>6, <1>7, <1>8, <1>9, <1>10, DirectedBy

LEMMA EndLineDirected == ASSUME LinesInv, EndLine PROVE Directed
<1>1. /\ Wanted /\ NothingUnread /\ top.ended = 2
      /\ tok' = cur /\ rawAtBol' = TRUE /\ lexBol' = lexBol
      /\ streams' = Append(Front(streams), [top EXCEPT !.ended = 3])
      /\ InsertAtBol(<<Line(cur)>>)
      /\ UNCHANGED <<off, lineAdd, held, finVars>>
  BY DEF EndLine
<1>2. /\ StreamsInv /\ StackOK(streams) /\ top \in StreamRecords /\ top = Last(streams)
      /\ cur \in Positions /\ cur = Position(top.file, top.line) /\ cur.line \in Nat
  BY CurIs DEF LinesInv, StreamsInv
<1> DEFINE e == [top EXCEPT !.ended = 3]
<1>3. e \in StreamRecords /\ e.file = top.file /\ e.line = top.line /\ e.ended = 3
  BY <1>2 DEF StreamRecords
<1>4. streams' = Append(Front(streams), e)
  BY <1>1
<1> HIDE DEF e
<1>5. StackOK(streams') /\ Last(streams') = e
  BY <1>2, <1>3, <1>4, TopReplaced DEF NotAFile
<1>6. lineCmt' = <<Line(cur)>> /\ lineCmtNl' = TRUE /\ Position(e.file, e.line) = cur
  BY <1>1, <1>2, <1>3 DEF InsertAtBol
<1>7. Directive(Position(e.file, e.line), cur, lineCmt')
  BY <1>2, <1>6 DEF Directive
<1>8. lexBol /\ lexBol \in BOOLEAN
  BY <1>1, <1>2 DEF StreamsInv, LinesInv, LineTypes
<1>9. reader.bol
  BY <1>1, <1>8, Quiet
<1> QED
  BY <1>1, <1>2, <1>5, <1>6, <1>7, <1>8, <1>9, DirectedBy

LEMMA EndFileDirected == ASSUME LinesInv, EndFile, Len(streams) # 1 PROVE Directed
<1> DEFINE e == Last(Front(streams))
           back == Position(e.file, e.line)
<1>1. /\ Wanted /\ NothingUnread /\ top.ended = 3
      /\ streams' = Front(streams) /\ tok' = back /\ rawAtBol' = TRUE
      /\ InsertAtBol(<<Line(back)>>) /\ UNCHANGED held
      /\ UNCHANGED <<lexBol, off, lineAdd, finVars>>
  BY DEF EndFile
<1>2. /\ StreamsInv /\ StackOK(streams)
  BY DEF LinesInv, StreamsInv
<1>3. Len(streams) > 1
  <2>1. streams \in Seq(StreamRecords) /\ streams # <<>>
    BY <1>2 DEF StackOK
  <2> DEFINE n == Len(streams)
  <2>2. n \in Nat \ {0} /\ n # 1
    BY <2>1, FrontLast
  <2> HIDE DEF n, e, back
  <2>3. n > 1
    BY <2>2
  <2> QED
    BY <2>3 DEF n
<1>4. StackOK(streams') /\ Last(streams') = e /\ e.ended \in {0, NotAFile}
  BY <1>1, <1>2, <1>3, Popped
<1> HIDE DEF e
<1>5. back \in Positions /\ back.line \in Nat
  <2>1. streams' \in Seq(StreamRecords) /\ streams' # <<>>
    BY <1>4 DEF StackOK
  <2>2. At(streams') \in Positions /\ At(streams').line \in Nat
    BY <2>1, AtIs
  <2> QED
    BY <1>4, <2>2 DEF At
<1>6. lineCmt' = <<Line(back)>> /\ lineCmtNl' = TRUE
  BY <1>1 DEF InsertAtBol
<1>7. Directive(back, back, lineCmt')
  BY <1>5, <1>6 DEF Directive
<1>8. lexBol /\ lexBol \in BOOLEAN
  BY <1>1, <1>2 DEF StreamsInv, LinesInv, LineTypes
<1>9. reader.bol
  BY <1>1, <1>8, Quiet
<1>10. e.ended \in {2, 3} => lexBol' = TRUE
  BY <1>4 DEF NotAFile
<1>11. UNCHANGED <<off, lineAdd, held, finVars>> /\ lexBol' = lexBol
  BY <1>1
<1> QED
  BY <1>1, <1>4, <1>5, <1>6, <1>7, <1>8, <1>9, <1>10, <1>11, DirectedBy
-----------------------------------------------------------------------------
(* The newlines and the text that were put before what the lexer returns.  *)
LEMMA StreamsStay ==
  ASSUME StreamsInv, UNCHANGED lexerVars
  PROVE  /\ StreamsInv' /\ cur' = cur /\ top' = top /\ tok' = tok
         /\ lexBol' = lexBol /\ off' = off
BY DEF lexerVars, StreamsInv, cur, top

RawStep ==
  /\ held = NoToken /\ held' \in {NoToken} \cup PlainTokens
  /\ fin' = fin /\ finAtBol' = finAtBol /\ reader' = reader /\ said' = said
  /\ cur' = cur /\ tok' = tok /\ (hidden => hidden')
  /\ Undirected /\ Started /\ Undirected'
  /\ ~ hidden' => lineAdd' + NewlinesIn(held'.buf) = lineAdd

LEMMA RawLineAddInv ==
  ASSUME LinesInv, RawLineAdd
  PROVE  LinesInv' /\ RawStep
<1> DEFINE t == Token("white", <<Newline>>)
<1>1. /\ held = NoToken /\ lineAdd > 0 /\ lineAdd' = lineAdd - 1 /\ rawAtBol' = TRUE /\ held' = t
      /\ UNCHANGED lexerVars /\ lineCmt' = lineCmt /\ lineCmtNl' = lineCmtNl
      /\ fin' = fin /\ finAtBol' = finAtBol /\ reader' = reader /\ hidden' = hidden /\ said' = said
  BY DEF RawLineAdd, Wanted, finVars
<1>2. t \in PlainTokens /\ t.buf = <<Newline>>
  BY TokenParts DEF PlainTokens, WhiteBufs
<1> HIDE DEF t
<1>3. /\ StreamsInv' /\ cur' = cur /\ tok' = tok /\ lexBol' = lexBol /\ off' = off
  BY <1>1, StreamsStay DEF LinesInv
<1>4. lineAdd \in Nat /\ lineAdd # 0 /\ lineAdd - 1 \in Nat
  BY <1>1 DEF LinesInv, LineTypes
<1>5. Undirected
  BY <1>4 DEF LinesInv, DirectiveUnread, DirectiveHeld
<1>6. ~ lexBol
  BY <1>4, <1>5 DEF LinesInv, Beginnings
<1>7. Undirected'
  BY <1>1, <1>2, <1>5 DEF Undirected
<1>8. LineTypes'
  BY <1>1, <1>3, <1>4 DEF LinesInv, LineTypes
<1>9. LineBegins'
  <2>1. Last(<<Newline>>) = Newline /\ <<Newline>> # <<>>
    BY DEF Last
  <2> QED
    BY <1>1, <1>2, <2>1, Endings DEF LineBegins
<1>10. Beginnings'
  BY <1>1, <1>3, <1>6, <1>9 DEF LinesInv, Beginnings
<1>11. lineAdd' + NewlinesIn(held'.buf) = lineAdd
  BY <1>1, <1>2, <1>4, CountNewlines
<1>12. LinesInv'
  BY <1>3, <1>7, <1>8, <1>10 DEF LinesInv
<1>13. RawStep
  BY <1>1, <1>2, <1>3, <1>5, <1>7, <1>11 DEF RawStep, Started
<1> QED
  BY <1>12, <1>13

(* White space for a comment, or a directive. *)
LEMMA RawLineCmtInv ==
  ASSUME LinesInv, RawLineCmt
  PROVE  /\ LinesInv' /\ said' = said /\ (hidden => hidden')
         /\ RawStep \/ DirectiveHeld' \/ (hidden' /\ ~ Started')
<1> DEFINE pieces == IF lineCmtNl /\ ~ rawAtBol THEN <<Newline>> \o lineCmt ELSE lineCmt
<1>1. /\ held = NoToken /\ lineAdd = 0 /\ lineCmt # <<>> /\ lineCmt' = <<>> /\ lineCmtNl' = FALSE
      /\ rawAtBol' = EndsLine(Last(pieces))
      /\ held' = IF off THEN NoToken ELSE Token("text", pieces)
      /\ hidden' = (hidden \/ off)
      /\ UNCHANGED lexerVars /\ lineAdd' = lineAdd
      /\ fin' = fin /\ finAtBol' = finAtBol /\ reader' = reader /\ said' = said
  BY DEF RawLineCmt, Wanted
<1>2. /\ StreamsInv /\ StreamsInv' /\ cur' = cur /\ tok' = tok /\ lexBol' = lexBol /\ off' = off
  BY <1>1, StreamsStay DEF LinesInv
<1>3. LineTypes'
  <2>1. EndsLine(Last(pieces)) \in BOOLEAN
    BY DEF EndsLine
  <2> QED
    BY <1>1, <1>2, <2>1 DEF LinesInv, LineTypes
<1>4. cur \in Positions
  BY <1>2, CurIs
<1>5. NoToken.buf = <<>> /\ (\A b : Token("text", b).buf = b)
  BY TokenParts
<1>6. Undirected \/ DirectiveUnread
  BY <1>1 DEF LinesInv, DirectiveHeld
<1> HIDE DEF pieces
<1>7. CASE Undirected
  <2>1. lineCmt = <<Blank>> /\ lineCmtNl = FALSE
    BY <1>1, <1>7 DEF Undirected
  <2>2. pieces = <<Blank>> /\ Last(pieces) = Blank
    BY <2>1 DEF pieces, Last
  <2>3. ~ lexBol /\ rawAtBol' = FALSE
    BY <1>1, <1>7, <2>2, Endings DEF LinesInv, Beginnings
  <2>4. Token("text", <<Blank>>) \in PlainTokens
    BY DEF PlainTokens, TextBufs
  <2>5. held' \in {NoToken} \cup PlainTokens
    BY <1>1, <2>2, <2>4
  <2>6. Undirected'
    BY <1>1, <2>5 DEF Undirected
  <2>7. Beginnings'
    BY <1>1, <1>2, <2>3 DEF LinesInv, Beginnings
  <2>8. lineAdd' + NewlinesIn(held'.buf) = lineAdd
    BY <1>1, <1>5, <2>2, CountNewlines
  <2>9. LinesInv'
    BY <1>2, <1>3, <2>6, <2>7 DEF LinesInv
  <2>10. RawStep
    BY <1>1, <1>2, <1>7, <2>5, <2>6, <2>8 DEF RawStep, Started
  <2> QED
    BY <1>1, <1>2, <2>9, <2>10
<1>8. CASE DirectiveUnread
  <2>1. PICK p : Directive(cur, p, lineCmt)
    BY <1>8 DEF DirectiveUnread
  <2>2. Inserted(cur, p, pieces)
    BY <2>1 DEF Inserted, pieces
  <2>3. pieces # <<>> /\ Last(pieces) = Line(cur)
    BY <1>4, <2>2, InsertedIs
  <2>4. EndsLine(Last(pieces)) = TRUE
    BY <2>3, Endings
  <2>5. CASE off
    <3>1. held' = NoToken /\ hidden'
      BY <1>1, <2>5
    <3>2. Undirected'
      BY <1>1, <3>1 DEF Undirected
    <3>3. LineBegins'
      BY <1>1, <1>5, <1>8, <2>5, <3>1 DEF LineBegins, DirectiveUnread
    <3>4. Beginnings'
      BY <1>1, <3>3 DEF LinesInv, Beginnings
    <3>5. ~ Started'
      BY <1>1, <3>1 DEF Started
    <3> QED
      BY <1>1, <1>2, <1>3, <3>1, <3>2, <3>4, <3>5 DEF LinesInv
  <2>6. CASE ~ off
    <3>1. held' = Token("text", pieces) /\ held'.buf = pieces
      BY <1>1, <1>5, <2>6
    <3>2. reader'.bol \/ Head(pieces) = Newline
      <4>1. CASE rawAtBol
        <5>1. held.buf = <<>>
          BY <1>1, <1>5
        <5> QED
          BY <1>1, <4>1, <5>1 DEF LinesInv, Beginnings, LineBegins
      <4>2. CASE ~ rawAtBol
        <5>1. lineCmtNl
          BY <1>8 DEF DirectiveUnread
        <5>2. pieces = <<Newline>> \o lineCmt
          BY <4>2, <5>1 DEF pieces
        <5>3. lineCmt \in Seq(Pieces)
          BY <1>4, <2>1, InsertedIs DEF Inserted
        <5>4. <<Newline>> \in Seq(Pieces) /\ Len(<<Newline>>) = 1 /\ <<Newline>>[1] = Newline
          BY PieceTypes
        <5>5. pieces \in Seq(Pieces) /\ pieces[1] = Newline
          BY <5>2, <5>3, <5>4, ConcatProperties
        <5> QED
          BY <2>3, <5>5
      <4> QED
        BY <4>1, <4>2
    <3>3. DirectiveHeld'
      BY <1>1, <1>2, <2>2, <3>1, <3>2 DEF DirectiveHeld
    <3>4. LineBegins'
      BY <2>3, <2>4, <3>1 DEF LineBegins
    <3>5. Beginnings'
      BY <1>1, <3>4 DEF LinesInv, Beginnings
    <3> QED
      BY <1>1, <1>2, <1>3, <3>3, <3>5 DEF LinesInv
  <2> QED
    BY <2>5, <2>6
<1> QED
  BY <1>6, <1>7, <1>8
-----------------------------------------------------------------------------
(* getFinalToken. *)
LEMMA Delivered ==
  ASSUME LinesInv, held # NoToken
  PROVE  /\ StartsWithLine(held) => DirectiveHeld
         /\ ~ StartsWithLine(held) => Undirected /\ held \in PlainTokens
<1>1. cur \in Positions
  BY CurIs DEF LinesInv
<1>2. ~ DirectiveUnread
  BY DEF DirectiveUnread
<1>3. Undirected => held \in PlainTokens /\ ~ StartsWithLine(held)
  BY PlainHeld DEF Undirected
<1>4. DirectiveHeld => StartsWithLine(held)
  <2> SUFFICES ASSUME DirectiveHeld PROVE StartsWithLine(held)
    OBVIOUS
  <2>1. PICK p : Inserted(cur, p, held.buf)
    BY DEF DirectiveHeld
  <2>2. StartsWithLine(Token("text", held.buf))
    BY <1>1, <2>1, InsertedIs
  <2>3. held = Token("text", held.buf)
    BY DEF DirectiveHeld
  <2> DEFINE t == Token("text", held.buf)
  <2>4. StartsWithLine(t) /\ held = t
    BY <2>2, <2>3
  <2> HIDE DEF t
  <2> QED
    BY <2>4
<1> QED
  BY <1>2, <1>3, <1>4 DEF LinesInv

(* A directive: whoever reads it is where the lexer is. *)
LEMMA FinLineInv ==
  ASSUME LinesInv, FinLine
  PROVE  /\ LinesInv' /\ Undirected' /\ ~ Started' /\ said' = NothingSaid
         /\ cur' = cur /\ cur \in Positions /\ lineAdd' = 0 /\ held' = NoToken
         /\ (reader'.at = cur /\ reader'.bol = TRUE) /\ cur.line <= fin'.line
<1>1. /\ held # NoToken /\ StartsWithLine(held) /\ fin' = First(held).at /\ held' = NoToken
      /\ finAtBol' = finAtBol /\ UNCHANGED lexerVars /\ UNCHANGED rawVars
      /\ reader' = Claims(reader, held.buf)[Len(held.buf)]
      /\ said' = IF reader.bol /\ held.buf # <<>> /\ Head(held.buf) = Word
                 THEN [claimed |-> reader.at, real |-> tok] ELSE NothingSaid
  BY DEF FinLine, Write
<1>2. /\ StreamsInv /\ StreamsInv' /\ cur' = cur /\ tok' = tok /\ lexBol' = lexBol /\ off' = off
  BY <1>1, StreamsStay DEF LinesInv
<1>3. cur \in Positions /\ reader \in Readers
  BY <1>2, CurIs DEF LinesInv, LineTypes
<1>4. DirectiveHeld
  BY <1>1, Delivered
<1>5. PICK p : Inserted(cur, p, held.buf)
  BY <1>4 DEF DirectiveHeld
<1>6. p \in Positions /\ p.line >= cur.line
  BY <1>3, <1>5, InsertedShapes
<1>7. /\ Head(held.buf) # Word /\ First(Token("text", held.buf)) = Line(p)
      /\ reader.bol \/ Head(held.buf) = Newline =>
           Claims(reader, held.buf)[Len(held.buf)] = [at |-> cur, bol |-> TRUE]
  BY <1>3, <1>5, InsertedIs
<1>8. held = Token("text", held.buf) /\ (reader.bol \/ Head(held.buf) = Newline)
      /\ lineCmt = <<>> /\ lineCmtNl = FALSE /\ lineAdd = 0
  BY <1>4 DEF DirectiveHeld
<1>9. reader' = [at |-> cur, bol |-> TRUE] /\ said' = NothingSaid
  BY <1>1, <1>7, <1>8
<1>10. First(held) = Line(p)
  <2> DEFINE t == Token("text", held.buf)
  <2>1. First(t) = Line(p) /\ held = t
    BY <1>7, <1>8
  <2> HIDE DEF t
  <2> QED
    BY <2>1
<1>11. fin' = p
  BY <1>1, <1>10 DEF Line, Piece
<1>12. reader' \in Readers /\ reader'.at = cur /\ reader'.bol = TRUE
  BY <1>3, <1>9 DEF Readers
<1>13. /\ lineAdd' = lineAdd /\ lineCmt' = lineCmt /\ lineCmtNl' = lineCmtNl /\ rawAtBol' = rawAtBol
  BY <1>1 DEF rawVars
<1>14. LineTypes'
  BY <1>1, <1>2, <1>6, <1>11, <1>12, <1>13 DEF LinesInv, LineTypes
<1>15. Undirected'
  BY <1>1, <1>8, <1>13 DEF Undirected
<1>16. LineBegins'
  BY <1>1, <1>12, TokenParts DEF LineBegins
<1>17. Beginnings'
  BY <1>8, <1>12, <1>13, <1>16 DEF Beginnings
<1>18. LinesInv'
  BY <1>2, <1>14, <1>15, <1>17 DEF LinesInv
<1>19. ~ Started'
  BY <1>1, <1>8, <1>13 DEF Started
<1> QED
  BY <1>1, <1>2, <1>3, <1>6, <1>8, <1>9, <1>11, <1>12, <1>13, <1>15, <1>18, <1>19

(* Newlines or a directive put out to catch up. *)
LEMMA FinAdjustInv ==
  ASSUME LinesInv, FinAdjust
  PROVE  /\ LinesInv' /\ Undirected /\ Undirected' /\ Started /\ said' = NothingSaid
         /\ cur' = cur /\ tok' = tok /\ fin' = tok /\ finAtBol' = TRUE /\ finAtBol = TRUE
         /\ reader'.bol = TRUE
         /\ Behind => /\ KeepWhitespace /\ (hidden => hidden')
                      /\ ReadMoves(reader, reader', tok.line - fin.line)
         /\ ~ Behind => reader'.at = tok
<1> DEFINE buf == IF Behind THEN Newlines(tok.line - fin.line) ELSE <<Line(tok)>>
<1>1. /\ held # NoToken /\ ~ StartsWithLine(held) /\ OutOfStep /\ (Behind => KeepWhitespace)
      /\ fin' = tok /\ held' = held
      /\ finAtBol' = finAtBol /\ UNCHANGED lexerVars /\ UNCHANGED rawVars
      /\ reader' = Claims(reader, buf)[Len(buf)]
      /\ said' = IF reader.bol /\ buf # <<>> /\ Head(buf) = Word
                 THEN [claimed |-> reader.at, real |-> tok] ELSE NothingSaid
      /\ hidden' = (hidden /\ \A i \in 1 .. Len(buf) : buf[i].kind # "line")
  BY DEF FinAdjust, Write, CaughtUp
<1>2. /\ StreamsInv /\ StreamsInv' /\ cur' = cur /\ tok' = tok /\ lexBol' = lexBol /\ off' = off
  BY <1>1, StreamsStay DEF LinesInv
<1>3. tok \in Positions /\ fin \in Positions /\ reader \in Readers
  BY DEF LinesInv, LineTypes
<1>4. Undirected /\ held \in PlainTokens
  BY <1>1, Delivered
<1>5. finAtBol /\ finAtBol = TRUE
  BY <1>1 DEF OutOfStep, LinesInv, LineTypes
<1>6. reader.bol
  BY <1>5 DEF LinesInv, Beginnings
<1>7. tok.line \in Nat /\ fin.line \in Nat
  BY <1>3 DEF Positions
<1>8. Behind => /\ reader' \in Readers /\ reader'.bol = TRUE /\ said' = NothingSaid
                /\ ReadMoves(reader, reader', tok.line - fin.line) /\ (hidden => hidden')
  <2> SUFFICES ASSUME Behind
               PROVE  /\ reader' \in Readers /\ reader'.bol = TRUE /\ said' = NothingSaid
                      /\ ReadMoves(reader, reader', tok.line - fin.line) /\ (hidden => hidden')
    OBVIOUS
  <2> DEFINE n == tok.line - fin.line
  <2>1. n \in Nat /\ n > 0
    BY <1>7 DEF Behind
  <2>2. buf = Newlines(n)
    OBVIOUS
  <2> HIDE DEF n, buf
  <2>3. reader' \in Readers /\ ReadMoves(reader, reader', n) /\ reader'.bol = TRUE
    BY <1>1, <1>3, <2>1, <2>2, ReadNewlines
  <2>4. buf # <<>> /\ Len(buf) = n /\ buf[1] = Newline /\ \A i \in 1 .. Len(buf) : buf[i] = Newline
    BY <2>1, <2>2 DEF Newlines
  <2>5. Head(buf) = Newline
    <3>1. buf \in Seq(Pieces)
      BY <2>1, <2>2, PieceTypes DEF Newlines
    <3> QED
      BY <2>4, <3>1
  <2>6. said' = NothingSaid
    BY <1>1, <2>5, PieceTypes
  <2>7. Newline.kind # "line"
    BY DEF Newline, Piece
  <2>8. hidden => hidden'
    BY <1>1, <2>4, <2>7
  <2> QED
    BY <2>3, <2>6, <2>8 DEF n
<1>9. ~ Behind => reader' \in Readers /\ reader'.bol = TRUE /\ reader'.at = tok /\ said' = NothingSaid
  <2> SUFFICES ASSUME ~ Behind
               PROVE  reader' \in Readers /\ reader'.bol = TRUE /\ reader'.at = tok
                      /\ said' = NothingSaid
    OBVIOUS
  <2>1. Inserted(tok, tok, <<Line(tok)>>)
    BY <1>3, <1>7 DEF Inserted, Directive
  <2>2. buf = <<Line(tok)>>
    OBVIOUS
  <2> HIDE DEF buf
  <2>3. Head(buf) # Word /\ Claims(reader, buf)[Len(buf)] = [at |-> tok, bol |-> TRUE]
    BY <1>3, <1>6, <2>1, <2>2, InsertedIs
  <2>4. reader' = [at |-> tok, bol |-> TRUE] /\ said' = NothingSaid
    BY <1>1, <2>3
  <2> QED
    BY <1>3, <2>4 DEF Readers
<1> HIDE DEF buf
<1>10. reader' \in Readers /\ reader'.bol = TRUE /\ said' = NothingSaid
  BY <1>8, <1>9
<1>11. /\ lineAdd' = lineAdd /\ lineCmt' = lineCmt /\ lineCmtNl' = lineCmtNl /\ rawAtBol' = rawAtBol
  BY <1>1 DEF rawVars
<1>12. LineTypes'
  BY <1>1, <1>2, <1>3, <1>10, <1>11 DEF LinesInv, LineTypes
<1>13. Undirected'
  BY <1>1, <1>4, <1>11 DEF Undirected
<1>14. Beginnings'
  BY <1>1, <1>2, <1>4, <1>10, <1>11 DEF LinesInv, Beginnings, LineBegins
<1>15. LinesInv'
  BY <1>2, <1>12, <1>13, <1>14 DEF LinesInv
<1>16. Started
  BY <1>1 DEF Started
<1> QED
  BY <1>1, <1>2, <1>4, <1>5, <1>8, <1>9, <1>10, <1>13, <1>15, <1>16

(* The token itself. *)
LEMMA FinTokenInv ==
  ASSUME LinesInv, FinToken
  PROVE  /\ LinesInv' /\ Undirected /\ Undirected' /\ held \in PlainTokens
         /\ held' = NoToken /\ cur' = cur /\ tok' = tok /\ (hidden => hidden')
         /\ lineAdd' = lineAdd /\ lineCmt' = lineCmt
         /\ ReadMoves(reader, reader', NewlinesIn(held.buf)) /\ NewlinesIn(held.buf) \in Nat
         /\ held.buf = <<>> => finAtBol' = finAtBol /\ reader'.bol = reader.bol
         /\ held.buf # <<>> => finAtBol' = reader'.bol
         /\ KeepWhitespace => /\ ~ OutOfStep /\ fin'.file = fin.file
                              /\ fin'.line = fin.line + NewlinesIn(held.buf)
         /\ said' = IF reader.bol /\ held.buf # <<>> /\ Head(held.buf) = Word
                    THEN [claimed |-> reader.at, real |-> tok] ELSE NothingSaid
<1> DEFINE from == IF OutOfStep THEN tok ELSE fin
           buf == held.buf
<1>1. /\ held # NoToken /\ ~ StartsWithLine(held) /\ (OutOfStep => Behind /\ ~ KeepWhitespace)
      /\ fin' = [from EXCEPT !.line = @ + NewlinesIn(buf)] /\ held' = NoToken
      /\ finAtBol' = IF buf = <<>> THEN finAtBol ELSE Last(buf) = Newline
      /\ UNCHANGED lexerVars /\ UNCHANGED rawVars
      /\ reader' = Claims(reader, buf)[Len(buf)]
      /\ said' = IF reader.bol /\ buf # <<>> /\ Head(buf) = Word
                 THEN [claimed |-> reader.at, real |-> tok] ELSE NothingSaid
      /\ hidden' = (hidden /\ \A i \in 1 .. Len(buf) : buf[i].kind # "line")
  BY DEF FinToken, Write
<1>2. /\ StreamsInv /\ StreamsInv' /\ cur' = cur /\ tok' = tok /\ lexBol' = lexBol /\ off' = off
  BY <1>1, StreamsStay DEF LinesInv
<1>3. tok \in Positions /\ fin \in Positions /\ reader \in Readers
  BY DEF LinesInv, LineTypes
<1>4. Undirected /\ held \in PlainTokens
  BY <1>1, Delivered
<1>5. buf \in PlainBufs /\ (buf # <<>> => (EndsLine(Last(buf)) <=> Last(buf) = Newline))
  BY <1>4, PlainHeld
<1>6. hidden => hidden'
  BY <1>1, <1>5, PlainPieces
<1> HIDE DEF buf
<1>7. /\ reader' \in Readers /\ NewlinesIn(buf) \in Nat
      /\ ReadMoves(reader, reader', NewlinesIn(buf))
      /\ (buf = <<>> => reader'.bol = reader.bol)
      /\ (buf # <<>> /\ Last(buf) = Newline => reader'.bol = TRUE)
      /\ (buf # <<>> /\ Last(buf) # Newline => reader'.bol = FALSE)
  BY <1>1, <1>3, <1>5, ReadPlain
<1>8. from \in Positions
  BY <1>3
<1>9. fin' \in Positions /\ fin'.file = from.file /\ fin'.line = from.line + NewlinesIn(buf)
  <2> HIDE DEF from
  <2> QED
    BY <1>1, <1>7, <1>8, Further
<1>10. buf # <<>> => finAtBol' = reader'.bol
  BY <1>1, <1>7
<1>11. finAtBol' \in BOOLEAN
  BY <1>1 DEF LinesInv, LineTypes
<1>12. /\ lineAdd' = lineAdd /\ lineCmt' = lineCmt /\ lineCmtNl' = lineCmtNl /\ rawAtBol' = rawAtBol
  BY <1>1 DEF rawVars
<1>13. LineTypes'
  BY <1>2, <1>7, <1>9, <1>11, <1>12 DEF LinesInv, LineTypes
<1>14. Undirected'
  BY <1>1, <1>4, <1>12 DEF Undirected
<1>15. LineBegins => LineBegins'
  BY <1>1, <1>5, <1>7, TokenParts DEF LineBegins, buf
<1>16. finAtBol' => reader'.bol
  BY <1>1, <1>7, <1>10 DEF LinesInv, Beginnings
<1>17. Beginnings'
  BY <1>2, <1>4, <1>12, <1>15, <1>16 DEF LinesInv, Beginnings
<1>18. LinesInv'
  BY <1>2, <1>13, <1>14, <1>17 DEF LinesInv
<1> QED
  BY <1>1, <1>2, <1>4, <1>6, <1>7, <1>9, <1>10, <1>12, <1>14, <1>18 DEF buf
-----------------------------------------------------------------------------
(* Where the reader is.  With the output's own count, when a directive or  *)
(* newlines were put out to catch up last; or, after a directive from the  *)
(* source, no further than that count, and not so far behind the lexer     *)
(* that the newlines still to come would not bring it there.               *)
Beside ==
  /\ reader.at.line <= fin.line
  /\ cur.line <= reader.at.line + lineAdd + NewlinesIn(held.buf)
  /\ Started => tok.line <= reader.at.line
  /\ reader.bol /\ ~ finAtBol =>
       reader.at.line <= cur.line /\ (Started => reader.at.line <= tok.line)
InStep == reader.at.file = cur.file /\ (Same \/ Beside)
Sync ==
  Undirected => (Started => tok.file = cur.file) /\ (~ hidden => InStep)

LEMMA LinesAreNumbers ==
  ASSUME LinesInv
  PROVE  /\ cur.line \in Nat /\ tok.line \in Nat /\ fin.line \in Nat /\ reader.at.line \in Nat
         /\ tok \in Positions /\ fin \in Positions /\ reader.at \in Positions
         /\ reader.bol \in BOOLEAN /\ finAtBol \in BOOLEAN /\ lineAdd \in Nat
<1>1. StreamsInv /\ LineTypes
  BY DEF LinesInv
<1>2. cur.line \in Nat
  BY <1>1, CurIs
<1>3. /\ tok \in Positions /\ fin \in Positions /\ reader.at \in Positions
      /\ reader.bol \in BOOLEAN /\ finAtBol \in BOOLEAN /\ lineAdd \in Nat
  BY <1>1 DEF LineTypes, Readers
<1>4. \A p \in Positions : p.line \in Nat
  BY DEF Positions
<1> QED
  BY <1>2, <1>3, <1>4

LEMMA HeldNewlines ==
  ASSUME Undirected PROVE NewlinesIn(held.buf) \in Nat
<1>1. \A b \in PlainBufs : NewlinesIn(b) \in Nat
  BY CountNewlines DEF PlainBufs, WhiteBufs, TextBufs
<1>2. held.buf \in PlainBufs
  <2>1. <<>> \in PlainBufs
    BY DEF PlainBufs
  <2> QED
    BY <2>1, TokenParts, PlainHeld DEF Undirected
<1> QED
  BY <1>1, <1>2

LEMMA SameIs ==
  ASSUME LinesInv
  PROVE  Same <=> reader.at = fin /\ reader.bol = finAtBol
<1>1. reader \in [at : Positions, bol : BOOLEAN]
  BY DEF LinesInv, LineTypes, Readers
<1> QED
  BY <1>1 DEF Same

LEMMA LexedSync ==
  ASSUME LinesInv, LinesInv', Sync, Lexed
  PROVE  Sync' /\ said' = said /\ (hidden => hidden')
<1>1. /\ Wanted /\ NothingUnread /\ said' = said /\ (hidden => hidden')
      /\ fin' = fin /\ finAtBol' = finAtBol /\ reader' = reader
      /\ cur'.file = cur.file /\ cur.line <= cur'.line
      /\ (Started' => tok' = cur)
      /\ (~ hidden' => Same \/ cur'.line <= cur.line + lineAdd' + NewlinesIn(held'.buf))
      /\ Undirected'
  BY DEF Lexed
<1>2. Undirected /\ held = NoToken /\ NewlinesIn(held.buf) = 0 /\ lineAdd = 0 /\ lineCmt = <<>>
  BY <1>1, Quiet, CountNewlines
<1>3. /\ cur.line \in Nat /\ tok.line \in Nat /\ fin.line \in Nat /\ reader.at.line \in Nat
  BY LinesAreNumbers
<1>4. cur'.line \in Nat /\ lineAdd' \in Nat
  <2>1. (LinesInv => cur.line \in Nat /\ lineAdd \in Nat)'
    BY LinesAreNumbers, PTL
  <2> QED
    BY <2>1
<1>5. NewlinesIn(held'.buf) \in Nat
  <2>1. (Undirected => NewlinesIn(held.buf) \in Nat)'
    BY HeldNewlines, PTL
  <2> QED
    BY <1>1, <2>1
<1>6. Started' => tok'.file = cur'.file /\ tok'.line = cur.line
  BY <1>1
<1>7. ASSUME ~ hidden' PROVE InStep'
  <2>1. reader.at.file = cur.file /\ (Same \/ Beside)
    BY <1>1, <1>2, <1>7 DEF Sync, InStep
  <2>2. CASE Same
    <3>1. Same'
      BY <1>1, <2>2 DEF Same
    <3> QED
      BY <1>1, <2>1, <3>1 DEF InStep
  <2>3. CASE Beside /\ ~ Same
    <3>1. /\ reader.at.line <= fin.line /\ cur.line <= reader.at.line
          /\ (reader.bol /\ ~ finAtBol => reader.at.line <= cur.line)
      BY <1>2, <1>3, <2>3 DEF Beside
    <3>2. cur'.line <= cur.line + lineAdd' + NewlinesIn(held'.buf)
      BY <1>1, <1>7, <2>3
    <3>3. cur'.line <= reader.at.line + lineAdd' + NewlinesIn(held'.buf)
      BY <1>3, <1>4, <1>5, <3>1, <3>2
    <3>4. reader.bol /\ ~ finAtBol => reader.at.line <= cur'.line
      BY <1>1, <1>3, <1>4, <3>1
    <3>5. /\ reader'.at.line <= fin'.line
          /\ cur'.line <= reader'.at.line + lineAdd' + NewlinesIn(held'.buf)
          /\ (Started' => tok'.line <= reader'.at.line)
          /\ (reader'.bol /\ ~ finAtBol' =>
                reader'.at.line <= cur'.line /\ (Started' => reader'.at.line <= tok'.line))
      BY <1>1, <1>6, <3>1, <3>3, <3>4
    <3>6. Beside'
      BY <3>5 DEF Beside
    <3> QED
      BY <1>1, <2>1, <3>6 DEF InStep
  <2> QED
    BY <2>1, <2>2, <2>3
<1> QED
  BY <1>1, <1>6, <1>7 DEF Sync

LEMMA RawSync ==
  ASSUME LinesInv, LinesInv', Sync, RawStep
  PROVE  Sync'
<1>1. /\ fin' = fin /\ finAtBol' = finAtBol /\ reader' = reader /\ held = NoToken
      /\ cur' = cur /\ tok' = tok /\ (hidden => hidden') /\ Undirected /\ Started
      /\ (~ hidden' => lineAdd' + NewlinesIn(held'.buf) = lineAdd)
  BY DEF RawStep
<1>2. NewlinesIn(held.buf) = 0
  BY <1>1, TokenParts, CountNewlines
<1>3. /\ cur.line \in Nat /\ reader.at.line \in Nat /\ lineAdd \in Nat
      /\ lineAdd' \in Nat /\ NewlinesIn(held'.buf) \in Nat
  <2>1. (LinesInv => lineAdd \in Nat)'
    BY LinesAreNumbers, PTL
  <2>2. (Undirected => NewlinesIn(held.buf) \in Nat)'
    BY HeldNewlines, PTL
  <2> QED
    BY <2>1, <2>2, LinesAreNumbers DEF RawStep
<1>4. tok'.file = cur'.file
  BY <1>1 DEF Sync
<1>5. ASSUME ~ hidden' PROVE InStep'
  <2>1. reader.at.file = cur.file /\ (Same \/ Beside)
    BY <1>1, <1>5 DEF Sync, InStep
  <2>2. CASE Same
    <3>1. Same'
      BY <1>1, <2>2 DEF Same
    <3> QED
      BY <1>1, <2>1, <3>1 DEF InStep
  <2>3. CASE Beside
    <3>1. lineAdd' + NewlinesIn(held'.buf) = lineAdd
      BY <1>1, <1>5
    <3>2. reader.at.line + lineAdd' + NewlinesIn(held'.buf) = reader.at.line + lineAdd
      BY <1>3, <3>1
    <3>3. reader.at.line + lineAdd + NewlinesIn(held.buf) = reader.at.line + lineAdd
      BY <1>2, <1>3
    <3>4. /\ reader'.at.line <= fin'.line
          /\ cur'.line <= reader'.at.line + lineAdd' + NewlinesIn(held'.buf)
          /\ tok'.line <= reader'.at.line
          /\ (reader'.bol /\ ~ finAtBol' =>
                reader'.at.line <= cur'.line /\ reader'.at.line <= tok'.line)
      BY <1>1, <2>3, <3>2, <3>3 DEF Beside
    <3>5. Beside'
      BY <3>4 DEF Beside
    <3> QED
      BY <1>1, <2>1, <3>5 DEF InStep
  <2> QED
    BY <2>1, <2>2, <2>3
<1> QED
  BY <1>1, <1>4, <1>5 DEF Sync

(* Nothing of the kind while a directive waits. *)
LEMMA DirectedSync ==
  ASSUME ~ Undirected' PROVE Sync'
BY DEF Sync

(* A directive brings the reader where the lexer is. *)
LEMMA FinLineSync ==
  ASSUME LinesInv, FinLine
  PROVE  Sync'
<1>1. /\ LinesInv' /\ ~ Started' /\ cur' = cur /\ lineAdd' = 0 /\ held' = NoToken
      /\ (reader'.at = cur /\ reader'.bol = TRUE) /\ cur.line <= fin'.line
  BY FinLineInv
<1>2. cur.line \in Nat
  BY LinesAreNumbers
<1>3. NewlinesIn(held'.buf) = 0
  BY <1>1, TokenParts, CountNewlines
<1>4. cur.line <= cur.line + lineAdd' + NewlinesIn(held'.buf) /\ cur.line <= cur.line
  BY <1>1, <1>2, <1>3
<1>5. Beside'
  BY <1>1, <1>4 DEF Beside
<1>6. InStep'
  BY <1>1, <1>5 DEF InStep
<1> QED
  BY <1>1, <1>6 DEF Sync

LEMMA FinAdjustSync ==
  ASSUME LinesInv, Sync, FinAdjust
  PROVE  Sync'
<1>1. /\ LinesInv' /\ Undirected /\ Undirected' /\ Started
      /\ cur' = cur /\ tok' = tok /\ fin' = tok /\ finAtBol' = TRUE /\ finAtBol = TRUE
      /\ reader'.bol = TRUE
      /\ (Behind => (hidden => hidden') /\ ReadMoves(reader, reader', tok.line - fin.line))
      /\ (~ Behind => reader'.at = tok)
  BY FinAdjustInv
<1>2. /\ tok.line \in Nat /\ fin.line \in Nat /\ reader.at.line \in Nat
      /\ tok \in Positions
  BY LinesAreNumbers
<1>3. tok.file = cur.file
  BY <1>1 DEF Sync
<1>4. reader'.at \in Positions
  <2>1. (LinesInv => reader.at \in Positions)'
    BY LinesAreNumbers, PTL
  <2> QED
    BY <1>1, <2>1
<1>5. ASSUME ~ hidden' PROVE reader'.at = tok
  <2>1. CASE ~ Behind
    BY <1>1, <2>1
  <2>2. CASE Behind
    <3>1. InStep
      BY <1>1, <1>5, <2>2 DEF Sync
    <3>2. fin.line < tok.line
      BY <2>2 DEF Behind
    <3>3. ~ Beside
      <4>1. Beside => reader.at.line <= fin.line /\ tok.line <= reader.at.line
        BY <1>1 DEF Beside
      <4> QED
        BY <1>2, <3>2, <4>1
    <3>4. reader.at = fin /\ reader.at.file = cur.file
      BY <3>1, <3>3, SameIs DEF InStep
    <3>5. reader'.at.file = tok.file
      BY <1>1, <1>3, <2>2, <3>4 DEF ReadMoves
    <3>6. reader'.at.line = reader.at.line + (tok.line - fin.line) /\ reader.at.line = fin.line
      BY <1>1, <2>2, <3>4 DEF ReadMoves
    <3>7. reader'.at.line = tok.line
      BY <1>2, <3>6
    <3> QED
      BY <1>2, <1>4, <3>5, <3>7, SamePosition
  <2> QED
    BY <2>1, <2>2
<1>6. (LinesInv => (Same <=> reader.at = fin /\ reader.bol = finAtBol))'
  BY SameIs, PTL
<1>7. ASSUME ~ hidden' PROVE InStep'
  BY <1>1, <1>3, <1>5, <1>6, <1>7 DEF InStep
<1> QED
  BY <1>1, <1>3, <1>7 DEF Sync

LEMMA FinTokenSync ==
  ASSUME LinesInv, Sync, FinToken, KeepWhitespace
  PROVE  Sync' /\ (~ hidden' => InSync')
<1> DEFINE n == NewlinesIn(held.buf)
<1>1. /\ LinesInv' /\ Undirected /\ Undirected' /\ held \in PlainTokens
      /\ held' = NoToken /\ cur' = cur /\ tok' = tok /\ (hidden => hidden')
      /\ lineAdd' = lineAdd /\ lineCmt' = lineCmt
      /\ reader'.at.file = reader.at.file /\ reader'.at.line = reader.at.line + n /\ n \in Nat
      /\ (held.buf = <<>> => finAtBol' = finAtBol /\ reader'.bol = reader.bol)
      /\ (held.buf # <<>> => finAtBol' = reader'.bol)
      /\ ~ OutOfStep /\ fin'.file = fin.file /\ fin'.line = fin.line + n
      /\ said' = IF reader.bol /\ held.buf # <<>> /\ Head(held.buf) = Word
                 THEN [claimed |-> reader.at, real |-> tok] ELSE NothingSaid
  BY FinTokenInv DEF ReadMoves
<1>2. NewlinesIn(held'.buf) = 0 /\ (held.buf = <<>> => n = 0)
  BY <1>1, TokenParts, CountNewlines
<1> HIDE DEF n
<1>3. /\ cur.line \in Nat /\ tok.line \in Nat /\ fin.line \in Nat /\ reader.at.line \in Nat
      /\ tok \in Positions /\ reader.at \in Positions /\ lineAdd \in Nat
      /\ reader.bol \in BOOLEAN /\ finAtBol \in BOOLEAN
  BY LinesAreNumbers
<1>4. /\ (LinesInv => reader.at \in Positions /\ fin \in Positions)'
      /\ (LinesInv => (Same <=> reader.at = fin /\ reader.bol = finAtBol))'
  <2>1. (LinesInv => reader.at \in Positions /\ fin \in Positions)'
    BY LinesAreNumbers, PTL
  <2>2. (LinesInv => (Same <=> reader.at = fin /\ reader.bol = finAtBol))'
    BY SameIs, PTL
  <2> QED
    BY <2>1, <2>2
<1>5. Started /\ tok.file = cur.file
  <2>1. Started
    BY <1>1, TokenParts DEF Started
  <2> QED
    BY <1>1, <2>1 DEF Sync
<1>6. ASSUME ~ hidden PROVE InStep
  BY <1>1, <1>6 DEF Sync
<1>7. ASSUME ~ hidden' PROVE InStep'
  <2>1. reader.at.file = cur.file /\ (Same \/ Beside)
    BY <1>1, <1>6, <1>7 DEF InStep
  <2>2. CASE Same
    <3>1. reader.at = fin /\ reader.bol = finAtBol
      BY <2>2, SameIs
    <3>2. reader'.at.file = fin'.file /\ reader'.at.line = fin'.line
      BY <1>1, <3>1
    <3>3. reader'.at = fin'
      BY <1>1, <1>4, <3>2, SamePosition
    <3>4. reader'.bol = finAtBol'
      BY <1>1, <3>1
    <3>5. Same'
      BY <1>1, <1>4, <3>3, <3>4
    <3> QED
      BY <1>1, <2>1, <3>5 DEF InStep
  <2>3. CASE Beside
    <3>1. /\ reader.at.line <= fin.line
          /\ cur.line <= reader.at.line + lineAdd + n
          /\ tok.line <= reader.at.line
          /\ (reader.bol /\ ~ finAtBol => reader.at.line <= cur.line /\ reader.at.line <= tok.line)
      BY <1>5, <2>3 DEF Beside, n
    <3>2. reader'.at.line <= fin'.line /\ tok'.line <= reader'.at.line
          /\ cur'.line <= reader'.at.line + lineAdd' + NewlinesIn(held'.buf)
      <4>1. reader.at.line + n <= fin.line + n /\ tok.line <= reader.at.line + n
            /\ cur.line <= reader.at.line + n + lineAdd + 0
        BY <1>1, <1>3, <3>1
      <4> QED
        BY <1>1, <1>2, <4>1
    <3>3. reader'.bol /\ ~ finAtBol' => reader'.at.line <= cur'.line /\ reader'.at.line <= tok'.line
      <4>1. CASE held.buf = <<>>
        <5>1. reader'.at.line = reader.at.line
          BY <1>1, <1>2, <1>3, <4>1
        <5> QED
          BY <1>1, <3>1, <4>1, <5>1
      <4>2. CASE held.buf # <<>>
        BY <1>1, <4>2
      <4> QED
        BY <4>1, <4>2
    <3>4. Beside'
      BY <3>2, <3>3 DEF Beside
    <3> QED
      BY <1>1, <2>1, <3>4 DEF InStep
  <2> QED
    BY <2>1, <2>2, <2>3
<1>8. Sync'
  BY <1>1, <1>5, <1>7 DEF Sync
<1>9. ASSUME ~ hidden', reader.bol, held.buf # <<>>, Head(held.buf) = Word
      PROVE  reader.at = tok
  <2>1. reader.at.file = cur.file /\ (Same \/ Beside)
    BY <1>1, <1>6, <1>9 DEF InStep
  <2>2. finAtBol => fin.line = tok.line
    <3>1. held # Token("text", <<Newline>>)
      BY <1>1, <1>9, PlainHeld
    <3> QED
      BY <1>1, <3>1 DEF OutOfStep
  <2>3. reader.at.line = tok.line
    <3>1. CASE Same
      <4>1. reader.at = fin /\ reader.bol = finAtBol
        BY <3>1, SameIs
      <4> QED
        BY <1>9, <2>2, <4>1
    <3>2. CASE Beside
      <4>1. /\ reader.at.line <= fin.line /\ tok.line <= reader.at.line
            /\ (~ finAtBol => reader.at.line <= tok.line)
        BY <1>5, <1>9, <3>2 DEF Beside
      <4> QED
        BY <1>3, <2>2, <4>1
    <3> QED
      BY <2>1, <3>1, <3>2
  <2> QED
    BY <1>3, <1>5, <2>1, <2>3, SamePosition
<1>10. ~ hidden' => InSync'
  <2>1. NothingSaid.claimed = NothingSaid.real
    BY DEF NothingSaid
  <2>2. CASE reader.bol /\ held.buf # <<>> /\ Head(held.buf) = Word
    <3>1. said'.claimed = reader.at /\ said'.real = tok
      BY <1>1, <2>2
    <3> QED
      BY <1>9, <2>2, <3>1 DEF InSync
  <2>3. CASE ~ (reader.bol /\ held.buf # <<>> /\ Head(held.buf) = Word)
    BY <1>1, <2>1, <2>3 DEF InSync
  <2> QED
    BY <2>2, <2>3
<1> QED
  BY <1>8, <1>10
-----------------------------------------------------------------------------
LEMMA LinesInvInit ==
  ASSUME LinesInit PROVE LinesInv /\ Sync /\ KnownUnlessHidden
<1> DEFINE e == Stream(TopFile, 1, 0, 0)
           p == Position(TopFile, 1)
<1>1. /\ streams = <<e>> /\ tok = p
      /\ lexBol = TRUE /\ off = FALSE /\ lineAdd = 0 /\ lineCmt = <<Line(p)>>
      /\ lineCmtNl = TRUE /\ rawAtBol = TRUE /\ held = NoToken
      /\ fin = Position("", 1) /\ finAtBol = TRUE
      /\ reader = [at |-> NoPosition, bol |-> TRUE] /\ said = NothingSaid
  BY DEF LinesInit
<1>2. e \in StreamRecords /\ e.file = TopFile /\ e.line = 1 /\ e.ended = 0
  BY LinesAssumption DEF Stream, StreamRecords
<1> HIDE DEF e
<1>3. streams \in Seq(StreamRecords) /\ streams # <<>> /\ Len(streams) = 1 /\ streams[1] = e
  <2>1. streams = <<e>>
    BY <1>1
  <2> HIDE DEF p
  <2> QED
    BY <1>2, <2>1
<1>4. StackOK(streams) /\ Last(streams) = e
  BY <1>2, <1>3 DEF StackOK, NotAFile, Last
<1>5. StreamsInv
  BY <1>1, <1>4 DEF StreamsInv
<1>6. cur = p /\ cur \in Positions /\ cur.line \in Nat
  BY <1>2, <1>4, <1>5, CurIs DEF At
<1>7. NoPosition \in Positions /\ Position("", 1) \in Positions
  BY DEF NoPosition, Position, Positions
<1> HIDE DEF p
<1>8. reader \in Readers /\ reader.bol
  BY <1>1, <1>7 DEF Readers
<1>9. LineTypes
  BY <1>1, <1>6, <1>7, <1>8 DEF LineTypes
<1>10. Directive(cur, p, lineCmt)
  <2>1. p \in Positions /\ p.line >= p.line
    BY <1>6
  <2>2. lineCmt = <<Line(p)>>
    BY <1>1
  <2> QED
    BY <1>6, <2>1, <2>2 DEF Directive
<1>11. DirectiveUnread
  BY <1>1, <1>10 DEF DirectiveUnread
<1>12. ~ Undirected
  BY <1>1 DEF Undirected
<1>13. Beginnings
  BY <1>1, <1>8, <1>12, TokenParts DEF Beginnings, LineBegins
<1>14. LinesInv
  BY <1>5, <1>9, <1>11, <1>13 DEF LinesInv
<1>15. KnownUnlessHidden
  BY <1>1 DEF KnownUnlessHidden, InSync, NothingSaid
<1> QED
  BY <1>12, <1>14, <1>15 DEF Sync

LexerStep ==
  \/ LexNewline \/ LexBlank \/ LexText \/ LexComment \/ LexDefine \/ LexCondition
  \/ LexMacro \/ MacroEnd \/ LexInclude \/ LexLine
  \/ EndNewline \/ EndLine \/ EndFile

LEMMA LexerSteps ==
  ASSUME LinesInv, LexerStep PROVE Lexed \/ Directed
<1>1. EndFile => Lexed \/ Directed
  BY EofLexed, EndFileDirected
<1> QED
  BY <1>1, LexNewlineLexed, LexBlankLexed, LexTextLexed, LexCommentLexed, LexDefineLexed,
     LexConditionLexed, LexMacroLexed, MacroEndLexed, EndNewlineLexed,
     LexIncludeDirected, LexLineDirected, EndLineDirected DEF LexerStep

LEMMA LinesStay ==
  ASSUME UNCHANGED lineVars
  PROVE  (LinesInv => LinesInv') /\ (Sync => Sync') /\ (KnownUnlessHidden => KnownUnlessHidden')
<1> USE DEF lineVars, lexerVars, rawVars, finVars
<1>1. LinesInv => LinesInv'
  BY DEF LinesInv, StreamsInv, LineTypes, Beginnings, LineBegins, Undirected, DirectiveUnread,
         DirectiveHeld, cur, top
<1>2. Sync => Sync'
  BY DEF Sync, InStep, Same, Beside, Started, Undirected, cur, top
<1>3. KnownUnlessHidden => KnownUnlessHidden'
  BY DEF KnownUnlessHidden, InSync
<1> QED
  BY <1>1, <1>2, <1>3

LEMMA LinesInvNext ==
  ASSUME LinesInv, [LinesNext]_lineVars PROVE LinesInv'
<1>1. CASE LexerStep
  BY <1>1, LexerSteps, LexedInv, DirectedInv
<1>2. CASE RawLineAdd
  BY <1>2, RawLineAddInv
<1>3. CASE RawLineCmt
  BY <1>3, RawLineCmtInv
<1>4. CASE FinLine
  BY <1>4, FinLineInv
<1>5. CASE FinAdjust
  BY <1>5, FinAdjustInv
<1>6. CASE FinToken
  BY <1>6, FinTokenInv
<1>7. CASE UNCHANGED lineVars
  BY <1>7, LinesStay
<1> QED
  BY <1>1, <1>2, <1>3, <1>4, <1>5, <1>6, <1>7 DEF LinesNext, LexerStep

LEMMA SyncNext ==
  ASSUME KeepWhitespace, LinesInv, LinesInv', Sync, KnownUnlessHidden, [LinesNext]_lineVars
  PROVE  Sync' /\ KnownUnlessHidden'
<1>1. ASSUME said' = said, hidden => hidden' PROVE KnownUnlessHidden'
  BY <1>1 DEF KnownUnlessHidden, InSync
<1>2. CASE LexerStep
  <2>1. CASE Lexed
    BY <1>1, <2>1, LexedSync
  <2>2. CASE Directed
    <3>1. said' = said /\ (hidden => hidden')
      BY <2>2 DEF Directed
    <3> QED
      BY <1>1, <2>2, <3>1, DirectedInv, DirectedSync
  <2> QED
    BY <1>2, <2>1, <2>2, LexerSteps
<1>3. CASE RawLineAdd
  <2>1. RawStep
    BY <1>3, RawLineAddInv
  <2>2. said' = said /\ (hidden => hidden')
    BY <2>1 DEF RawStep
  <2> QED
    BY <1>1, <2>1, <2>2, RawSync
<1>4. CASE RawLineCmt
  <2>1. /\ RawStep \/ DirectiveHeld' \/ (hidden' /\ ~ Started')
        /\ said' = said /\ (hidden => hidden')
    BY <1>4, RawLineCmtInv
  <2>2. CASE RawStep
    BY <1>1, <2>1, <2>2, RawSync
  <2>3. CASE DirectiveHeld'
    <3>1. held' # NoToken /\ StartsWithLine(held')
      <4>1. cur' \in Positions
        <5>1. (StreamsInv => cur \in Positions)'
          BY CurIs, PTL
        <5> QED
          BY <5>1 DEF LinesInv
      <4>2. PICK p : Inserted(cur', p, held'.buf)
        BY <2>3 DEF DirectiveHeld
      <4> DEFINE t == Token("text", held'.buf)
      <4>3. StartsWithLine(t) /\ held' = t /\ t.kind = "text"
        BY <2>3, <4>1, <4>2, InsertedIs, TokenParts DEF DirectiveHeld
      <4> HIDE DEF t
      <4>4. "text" # "none"
        OBVIOUS
      <4> QED
        BY <4>3, <4>4, TokenParts
    <3>2. ~ Undirected'
      BY <3>1, PlainHeld DEF Undirected
    <3> QED
      BY <1>1, <2>1, <3>2, DirectedSync
  <2>4. CASE hidden' /\ ~ Started'
    <3>1. Sync'
      BY <2>4 DEF Sync
    <3> QED
      BY <1>1, <2>1, <3>1
  <2> QED
    BY <2>1, <2>2, <2>3, <2>4
<1>5. CASE FinLine
  <2>1. said' = NothingSaid /\ Sync'
    BY <1>5, FinLineInv, FinLineSync
  <2> QED
    BY <2>1 DEF KnownUnlessHidden, InSync, NothingSaid
<1>6. CASE FinAdjust
  <2>1. said' = NothingSaid /\ Sync'
    BY <1>6, FinAdjustInv, FinAdjustSync
  <2> QED
    BY <2>1 DEF KnownUnlessHidden, InSync, NothingSaid
<1>7. CASE FinToken
  BY <1>7, FinTokenSync DEF KnownUnlessHidden
<1>8. CASE UNCHANGED lineVars
  BY <1>8, LinesStay
<1> QED
  BY <1>2, <1>3, <1>4, <1>5, <1>6, <1>7, <1>8 DEF LinesNext, LexerStep

-----------------------------------------------------------------------------
LEMMA LinesInvHolds == LinesSpec => []LinesInv
<1>1. LinesInit => LinesInv
  BY LinesInvInit
<1>2. LinesInv /\ [LinesNext]_lineVars => LinesInv'
  BY LinesInvNext
<1> QED
  BY <1>1, <1>2, PTL DEF LinesSpec

(* The positions that the preprocessor keeps of its input and its output,  *)
(* and the newlines it owes, are of their types (VFileLine).               *)
THEOREM LinesTypes == LinesSpec => []LinesTypeOK
<1>1. LinesInv => LinesTypeOK
  BY DEF LinesInv, LinesTypeOK, StreamsInv, StackOK, LineTypes, Readers, Undirected,
         DirectiveUnread, DirectiveHeld
<1> QED
  BY <1>1, LinesInvHolds, PTL

(* Of any files, with any includes, macros, comments and disabled text, a  *)
(* `line comes out at the beginning of a line (insertUnreadbackAtBol,      *)
(* m_rawAtBol, m_finAtBol).                                                *)
THEOREM DirectivesAreRead == LinesSpec => []DirectivesStartLines
<1>1. LinesInv => DirectivesStartLines
  <2> SUFFICES ASSUME LinesInv PROVE DirectivesStartLines
    OBVIOUS
  <2>1. StartsWithLine(held) => held # NoToken
    <3>1. "none" # "text"
      OBVIOUS
    <3> QED
      BY <3>1, TokenParts DEF StartsWithLine
  <2>2. StartsWithLine(held) => DirectiveHeld
    BY <2>1, Delivered
  <2> QED
    BY <2>2 DEF LinesInv, Beginnings, DirectiveHeld, DirectivesStartLines
<1> QED
  BY <1>1, LinesInvHolds, PTL

(* With white space kept, which is the default, the first text of a line   *)
(* of the output is where the newlines and `line directives before it say, *)
(* as long as getFinalToken was not kept from comparing, or from putting   *)
(* out a `line, by disabled text.                                          *)
THEOREM PositionsAreKnown ==
  ASSUME KeepWhitespace
  PROVE  LinesSpec => []KnownUnlessHidden
<1>1. LinesInit => Sync /\ KnownUnlessHidden
  BY LinesInvInit
<1>2. /\ LinesInv /\ LinesInv' /\ Sync /\ KnownUnlessHidden /\ [LinesNext]_lineVars
      => Sync' /\ KnownUnlessHidden'
  BY SyncNext
<1> QED
  BY <1>1, <1>2, LinesInvHolds, PTL DEF LinesSpec
=============================================================================
