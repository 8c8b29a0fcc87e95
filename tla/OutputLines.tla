----------------------------- MODULE OutputLines -----------------------------
(***************************************************************************)
(* Lines of the output (Preproc/VPreProc.cpp): what getRawToken and        *)
(* getStateToken do to newlines, the `line directives that files and the   *)
(* user cause, and getFinalToken, which compares where the output is with  *)
(* where the lexer is and puts newlines or a `line between the tokens.     *)
(* `reader` is whoever reads the output, with nothing but its newlines and *)
(* `line directives to go by.                                              *)
(* The source is any text; streams are reduced to the position that each   *)
(* keeps, as Streams shows that text is read in the order of insertion.    *)
(***************************************************************************)
EXTENDS Naturals, SequencesExt

CONSTANTS
  Files,
  TopFile,
  TickLine,        \* NEWLINES_VS_TICKLINE
  KeepComments,    \* keep_comments: whether a comment stays in the output
  KeepWhitespace,  \* keep_whitespace
  LineBound,       \* bound: lines of a file
  StreamBound      \* bound: streams on the stack

ASSUME LinesAssumption ==
  /\ TopFile \in Files /\ {KeepComments, KeepWhitespace} \subseteq BOOLEAN
  /\ {TickLine, LineBound, StreamBound} \subseteq Nat \ {0}

VARIABLES
  streams,    \* m_streampStack: file, line, ignored newlines, how far it ended
  tok,        \* m_tokFilelinep
  lexBol,     \* what was lexed last ended a line
  off,        \* m_off > 0
  lineAdd, lineCmt, lineCmtNl, rawAtBol,   \* m_...
  held,       \* m_finToken and m_finBuf when m_finAhead
  fin,        \* m_finFilelinep
  finAtBol,   \* m_finAtBol
  reader,     \* history: where the output claims to be
  said,       \* history: of text just put out as the first of its line, the
              \*   claimed and the real position
  hidden      \* history: disabled text hid a `line, or hid lines while fin was not
              \*   where the output is, and no `line was put out since

lexerVars == <<streams, tok, lexBol, off>>
rawVars   == <<lineAdd, lineCmt, lineCmtNl, rawAtBol>>
finVars   == <<fin, finAtBol, reader, said, hidden>>
lineVars  == <<lexerVars, rawVars, held, finVars>>
-----------------------------------------------------------------------------
Position(file, line) == [file |-> file, line |-> line]
NoPosition == Position("", 0)

(* What tokens are made of; lineDirectiveStrg ends its line. *)
Piece(kind, at) == [kind |-> kind, at |-> at]
Newline  == Piece("newline", NoPosition)
Blank    == Piece("blank", NoPosition)
Word     == Piece("word", NoPosition)
Line(at) == Piece("line", at)
EndsLine(piece) == piece.kind \in {"newline", "line"}
Newlines(n) == [i \in 1 .. n |-> Newline]

Token(kind, buf) == [kind |-> kind, buf |-> buf]
NoToken == Token("none", <<>>)

top   == Last(streams)
cur   == Position(top.file, top.line)    \* curFilelinep
isEof == top.ended = 4
Stream(file, line, ignored, ended) ==
  [file |-> file, line |-> line, ignored |-> ignored, ended |-> ended]
NotAFile == 5    \* `ended` of a macro's text
InFile   == top.ended = 0
Reading  == top.ended \in {0, NotAFile}

(* linenoInc, n times *)
Passed(s, n) ==
  IF n <= s.ignored THEN [s EXCEPT !.ignored = @ - n]
  ELSE [s EXCEPT !.ignored = 0, !.line = @ + n - s.ignored]
Pass(n) == streams' = Append(Front(streams), Passed(top, n))

(* insertUnreadbackAtBol, nothing being unread: the newline before it is   *)
(* decided on when it is read.  Mutant: it is never wanted.                *)
MutInsertAtBol(pieces) == lineCmt' = pieces /\ lineCmtNl' = FALSE
InsertAtBol(pieces) == lineCmt' = pieces /\ lineCmtNl' = TRUE
NothingUnread == lineAdd = 0 /\ lineCmt = <<>>
-----------------------------------------------------------------------------
(* getRawToken and getStateToken, up to the next token returned.  Disabled *)
(* text is dropped, white space never is.                                 *)
Wanted == held = NoToken /\ ~ isEof

RawLineAdd ==
  /\ Wanted /\ lineAdd > 0
  /\ lineAdd' = lineAdd - 1 /\ rawAtBol' = TRUE
  /\ held' = Token("white", <<Newline>>)
  /\ UNCHANGED <<lexerVars, lineCmt, lineCmtNl, finVars>>

RawLineCmt ==
  LET pieces == IF lineCmtNl /\ ~ rawAtBol THEN <<Newline>> \o lineCmt ELSE lineCmt
  IN  /\ Wanted /\ lineAdd = 0 /\ lineCmt # <<>>
      /\ lineCmt' = <<>> /\ lineCmtNl' = FALSE
      /\ rawAtBol' = EndsLine(Last(pieces))
      /\ held' = IF off THEN NoToken ELSE Token("text", pieces)
      /\ hidden' = (hidden \/ off)
      /\ UNCHANGED <<lexerVars, lineAdd, fin, finAtBol, reader, said>>

(* The lexer returns a token that spans n newlines and may end with one.   *)
Lex(n, bol) ==
  /\ Wanted /\ NothingUnread /\ Reading
  /\ top.ended = NotAFile => n <= top.ignored
  /\ top.line + n < LineBound
  /\ tok' = cur /\ Pass(n)
  /\ rawAtBol' = bol /\ lexBol' = bol
  /\ hidden' = (hidden \/ (off /\ ~ bol /\ n > 0 /\ [at |-> fin, bol |-> finAtBol] # reader))
  /\ UNCHANGED <<fin, finAtBol, reader, said>>
Returned(kind, buf) ==
  held' = Token(kind, buf) /\ UNCHANGED <<off, lineAdd, lineCmt, lineCmtNl>>
NotReturned == UNCHANGED <<held, off, lineAdd, lineCmt, lineCmtNl>>

LexNewline == Lex(1, TRUE) /\ Returned("white", <<Newline>>)
LexBlank   == Lex(0, FALSE) /\ Returned("white", <<Blank>>)

(* A symbol or the like; a string, which may go on on the next line. *)
LexText ==
  \E n \in 0 .. 1 :
    /\ Lex(n, FALSE)
    /\ IF off THEN NotReturned
       ELSE Returned("text", <<Word>> \o Newlines(n) \o (IF n = 0 THEN <<>> ELSE <<Word>>))

(* A comment on one or two lines.  Mutant: the last line is not counted. *)
MutStripped(n) == lineAdd' = n - 1
Stripped(n) == lineAdd' = n
LexComment ==
  \E n \in 0 .. 1 :
    /\ Lex(n, FALSE)
    /\ IF KeepComments /\ ~ off
       THEN Returned("comment", <<Word>> \o Newlines(n) \o (IF n = 0 THEN <<>> ELSE <<Word>>))
       ELSE /\ lineCmt' = IF off THEN <<>> ELSE <<Blank>>
            /\ Stripped(n)
            /\ UNCHANGED <<held, off, lineCmtNl>>

(* `define, whose value takes n lines more: the newlines of it, and the    *)
(* one that ends it, are what is returned.                                 *)
LexDefine ==
  \E n \in 0 .. 1 : Lex(n + 1, TRUE) /\ Returned("white", Newlines(n + 1))

(* `ifdef of something undefined, and its `endif *)
LexCondition ==
  /\ Lex(0, FALSE) /\ off' = ~ off
  /\ UNCHANGED <<held, lineAdd, lineCmt, lineCmtNl>>

(* A macro whose text has n newlines, which stand for no source line. *)
LexMacro ==
  \E n \in 0 .. 1 :
    /\ Wanted /\ NothingUnread /\ Reading /\ ~ off /\ Len(streams) < StreamBound
    /\ fin.line + n < LineBound
    /\ tok' = cur /\ rawAtBol' = FALSE /\ lexBol' = FALSE
    /\ streams' = Append(streams, Stream(top.file, top.line, n, NotAFile))
    /\ UNCHANGED <<off, lineAdd, lineCmt, lineCmtNl, held, finVars>>
MacroEnd ==
  /\ Wanted /\ NothingUnread /\ top.ended = NotAFile /\ top.ignored = 0
  /\ streams' = Front(streams)
  /\ UNCHANGED <<tok, lexBol, off, rawVars, held, finVars>>

(* openFile under `include: the directive for the file that is left and    *)
(* that for the file entered are one piece of text.                        *)
LexInclude ==
  \E file \in Files :
    /\ Wanted /\ NothingUnread /\ Reading /\ ~ off /\ Len(streams) < StreamBound
    /\ tok' = cur /\ rawAtBol' = FALSE /\ lexBol' = TRUE
    /\ streams' = Append(streams, Stream(file, 1, 0, 0))
    /\ InsertAtBol(<<Line(cur), Line(Position(file, 1))>>)
    /\ UNCHANGED <<off, lineAdd, held, finVars>>

(* A `line in the source: the position follows it in disabled text too.    *)
LexLine ==
  \E file \in Files, line \in 1 .. LineBound - 1 :
    /\ Wanted /\ NothingUnread /\ InFile /\ lexBol
    /\ tok' = cur /\ rawAtBol' = TRUE /\ lexBol' = TRUE
    /\ streams' = Append(Front(streams), [top EXCEPT !.file = file, !.line = line])
    /\ InsertAtBol(<<Line(Position(file, line))>>)
    /\ UNCHANGED <<off, lineAdd, held, finVars>>

(* The end of a file: a newline, `line .. 2, then, back in the file around *)
(* it, `line .. 0.  The EOF stream takes over the position.                *)
EndNewline ==
  /\ Wanted /\ NothingUnread /\ top.ended = 0
  /\ tok' = cur /\ rawAtBol' = TRUE /\ lexBol' = TRUE
  /\ streams' = Append(Front(streams), [Passed(top, 1) EXCEPT !.ended = 2])
  /\ held' = Token("white", <<Newline>>)
  /\ UNCHANGED <<off, lineAdd, lineCmt, lineCmtNl, finVars>>
EndLine ==
  /\ Wanted /\ NothingUnread /\ top.ended = 2
  /\ tok' = cur /\ rawAtBol' = TRUE
  /\ streams' = Append(Front(streams), [top EXCEPT !.ended = 3])
  /\ InsertAtBol(<<Line(cur)>>)
  /\ UNCHANGED <<lexBol, off, lineAdd, held, finVars>>
EndFile ==
  /\ Wanted /\ NothingUnread /\ top.ended = 3
  /\ IF Len(streams) = 1
     THEN /\ streams' = <<[top EXCEPT !.ended = 4]>> /\ tok' = cur
          /\ held' = Token("eof", <<>>)
          /\ UNCHANGED <<lineCmt, lineCmtNl, rawAtBol>>
     ELSE LET left == Last(Front(streams))
              back == Position(left.file, left.line)
          IN  /\ streams' = Front(streams) /\ tok' = back /\ rawAtBol' = TRUE
              /\ InsertAtBol(<<Line(back)>>)
              /\ UNCHANGED held
  /\ UNCHANGED <<lexBol, off, lineAdd, finVars>>
-----------------------------------------------------------------------------
(* Whoever reads the output takes a `line only at the beginning of a line. *)
Read(r, piece) ==
  CASE piece.kind = "newline" -> [at |-> [r.at EXCEPT !.line = @ + 1], bol |-> TRUE]
    [] piece.kind = "line" /\ r.bol -> [at |-> piece.at, bol |-> TRUE]
    [] OTHER -> [r EXCEPT !.bol = FALSE]
Claims(r, buf) ==
  LET after[i \in 0 .. Len(buf)] == IF i = 0 THEN r ELSE Read(after[i - 1], buf[i])
  IN  after
NothingSaid == [claimed |-> NoPosition, real |-> NoPosition]
Write(buf) ==
  /\ reader' = Claims(reader, buf)[Len(buf)]
  /\ said' = IF reader.bol /\ buf # <<>> /\ Head(buf) = Word
             THEN [claimed |-> reader.at, real |-> tok] ELSE NothingSaid
  /\ hidden' = (hidden /\ \A i \in 1 .. Len(buf) : buf[i].kind # "line")

(* getFinalToken, for the token held ahead. *)
NewlinesIn(buf) == Cardinality({i \in DOMAIN buf : buf[i] = Newline})
Others(buf) == {i \in DOMAIN buf : buf[i] # Newline}
First(token) == token.buf[Min(Others(token.buf))]
StartsWithLine(token) ==
  token.kind = "text" /\ Others(token.buf) # {} /\ First(token).kind = "line"

FinLine ==
  /\ held # NoToken /\ StartsWithLine(held)
  /\ fin' = First(held).at
  /\ Write(held.buf) /\ held' = NoToken
  /\ UNCHANGED <<finAtBol, lexerVars, rawVars>>

(* Only line numbers are compared.  Mutant: only at another file. *)
MutOutOfStep == finAtBol /\ fin.line # tok.line /\ fin.file # tok.file
OutOfStep == finAtBol /\ held # Token("text", <<Newline>>) /\ fin.line # tok.line
Behind == fin.line < tok.line /\ tok.line - fin.line <= TickLine
(* Mutant: a `line put out is not followed. *)
MutCaughtUp == IF Behind THEN tok ELSE fin
CaughtUp == tok
FinAdjust ==
  /\ held # NoToken /\ ~ StartsWithLine(held) /\ OutOfStep
  /\ Behind => KeepWhitespace
  /\ fin' = CaughtUp
  /\ Write(IF Behind THEN Newlines(tok.line - fin.line) ELSE <<Line(tok)>>)
  /\ UNCHANGED <<held, finAtBol, lexerVars, rawVars>>
FinToken ==
  LET from == IF OutOfStep THEN tok ELSE fin
  IN  /\ held # NoToken /\ ~ StartsWithLine(held)
      /\ OutOfStep => Behind /\ ~ KeepWhitespace
      /\ fin' = [from EXCEPT !.line = @ + NewlinesIn(held.buf)]
      /\ finAtBol' = IF held.buf = <<>> THEN finAtBol ELSE Last(held.buf) = Newline
      /\ Write(held.buf) /\ held' = NoToken
      /\ UNCHANGED <<lexerVars, rawVars>>
-----------------------------------------------------------------------------
(* openFile for the first file, which has only its own directive. *)
LinesInit ==
  /\ streams = <<Stream(TopFile, 1, 0, 0)>> /\ tok = Position(TopFile, 1)
  /\ lexBol = TRUE /\ off = FALSE
  /\ lineAdd = 0 /\ lineCmt = <<Line(Position(TopFile, 1))>>
  /\ lineCmtNl = TRUE /\ rawAtBol = TRUE
  /\ held = NoToken /\ fin = Position("", 1) /\ finAtBol = TRUE
  /\ reader = [at |-> NoPosition, bol |-> TRUE]
  /\ said = NothingSaid /\ hidden = FALSE

LinesNext ==
  \/ RawLineAdd \/ RawLineCmt
  \/ LexNewline \/ LexBlank \/ LexText \/ LexComment \/ LexDefine \/ LexCondition
  \/ LexMacro \/ MacroEnd \/ LexInclude \/ LexLine
  \/ EndNewline \/ EndLine \/ EndFile
  \/ FinLine \/ FinAdjust \/ FinToken

(* A call of getFinalToken returns, and getparseline calls it again. *)
LinesSpec ==
  LinesInit /\ [][LinesNext]_lineVars /\ WF_lineVars(FinLine \/ FinAdjust \/ FinToken)
-----------------------------------------------------------------------------
(* Types. *)
Positions == [file : Files \cup {""}, line : Nat]
LinesTypeOK ==
  /\ streams # <<>> /\ {tok, fin, reader.at} \subseteq Positions
  /\ lineAdd \in Nat /\ {lexBol, off, lineCmtNl, rawAtBol, finAtBol} \subseteq BOOLEAN

(* The first text of every line of the output is where the output says it  *)
(* is, whatever white space, comments, definitions, macros, included files *)
(* and `line directives came before, and whatever text was disabled; but   *)
(* for what `hidden` tells.                                                *)
InSync == said.claimed = said.real
KnownUnlessHidden == ~ hidden => InSync

(* No `line comes out in the middle of a line, where nobody would read it. *)
DirectivesStartLines ==
  /\ finAtBol => reader.bol
  /\ StartsWithLine(held) => reader.bol \/ Head(held.buf) = Newline

(* Catching up comes to an end: every token fetched ahead is delivered.    *)
HeldIsDelivered == held # NoToken ~> held = NoToken
=============================================================================
