----------------------------- MODULE TextProofs -----------------------------
(* That the texts of the station arrive whole (TextsArriveWhole), for every  *)
(* value of the constants, if the answers of its handshake are well formed.  *)
(*                                                                           *)
(* What is on its way was cut by the station into lines or frames.  Where    *)
(* the driver stands is a place: how many of them it has read and what it    *)
(* has of the next.  A line or a frame is a piece, which leads from a place  *)
(* to a place, and what is on its way is a path of pieces from the place of  *)
(* the driver to that of the station.  Each step of the driver takes the     *)
(* first byte, or the first piece, from the path, and each message of the    *)
(* station puts pieces behind it.  No step tells where the pieces end: that  *)
(* the reader finds it is what is proved.                                    *)
(*                                                                           *)
(* UsbInv says so of the serial port, where a pause may cut a line, WifiInv  *)
(* of the WebSocket, where frames carry parts of a message and others come   *)
(* between, and Received of the messages that wait for parse.                *)
EXTENDS WebSocketProofs

(* What is on its way, cut into the pieces it was sent in.  A piece is a move: *)
(* it leads from a place to a place, and the pieces follow each other.  The  *)
(* least set that has the empty rest at the last place, and with a rest all  *)
(* that a piece in front of it makes, is that of the rests and places from   *)
(* which the pieces lead to the last.                                        *)
Place == Nat \X Text
Piece == [from : Place, code : Signals, to : Place]

ClosedUnder(X, M, last) ==
  /\ <<<<>>, last>> \in X
  /\ \A move \in M, rest \in Signals : <<rest, move.to>> \in X => <<move.code \o rest, move.from>> \in X
Path(M, s, first, last) ==
  \A X \in SUBSET (Signals \X Place) : ClosedUnder(X, M, last) => <<s, first>> \in X

LEMMA PathEmpty ==
  ASSUME NEW M \in SUBSET Piece, NEW last \in Place
  PROVE  Path(M, <<>>, last, last)
BY DEF Path, ClosedUnder

LEMMA PathPrepend ==
  ASSUME NEW M \in SUBSET Piece, NEW last \in Place, NEW move \in M, NEW rest \in Signals,
         Path(M, rest, move.to, last)
  PROVE  Path(M, move.code \o rest, move.from, last)
BY DEF Path, ClosedUnder

LEMMA PieceType ==
  ASSUME NEW move \in Piece
  PROVE  move.from \in Place /\ move.to \in Place /\ move.code \in Signals
BY DEF Piece

LEMMA ConcatSignals ==
  ASSUME NEW s \in Signals, NEW t \in Signals
  PROVE  s \o t \in Signals
BY ConcatProperties DEF Signals

LEMMA ConcatThree ==
  ASSUME NEW s \in Signals, NEW t \in Signals, NEW u \in Signals
  PROVE  s \o (t \o u) = (s \o t) \o u
BY ConcatAssociative DEF Signals

LEMMA ConcatTexts ==
  ASSUME NEW s \in Text, NEW t \in Text, NEW u \in Text
  PROVE  s \o (t \o u) = (s \o t) \o u
<1> HIDE DEF Bytes
<1> QED BY ConcatAssociative DEF Text

(* All pieces have been taken, or there is a first one.                      *)
Begins(M, s, first, last) ==
  \/ s = <<>> /\ first = last
  \/ \E move \in M, rest \in Signals :
       s = move.code \o rest /\ first = move.from /\ Path(M, rest, move.to, last)

LEMMA PathFirst ==
  ASSUME NEW M \in SUBSET Piece, NEW first \in Place, NEW last \in Place, NEW s \in Signals,
         Path(M, s, first, last)
  PROVE  Begins(M, s, first, last)
<1> DEFINE Cut(t, place) == Begins(M, t, place, last)
           X == {x \in Signals \X Place : Cut(x[1], x[2])}
<1>0. \A t \in Signals, place \in Place : <<t, place>> \in X <=> Cut(t, place)
  BY Zenon
<1>1. <<<<>>, last>> \in X
  <2>1. <<>> \in Signals /\ Cut(<<>>, last)
    BY DEF Signals, Begins
  <2> HIDE DEF X, Cut
  <2> QED BY <2>1, <1>0
<1>2. ASSUME NEW move \in M, NEW rest \in Signals, <<rest, move.to>> \in X
      PROVE  <<move.code \o rest, move.from>> \in X
  <2>1. move.from \in Place /\ move.to \in Place /\ move.code \in Signals
    BY PieceType
  <2>2. Cut(rest, move.to)
    BY <1>0, <1>2, <2>1
  <2>3. Path(M, rest, move.to, last)
    BY <2>1, <2>2, PathEmpty, PathPrepend DEF Begins
  <2>4. Cut(move.code \o rest, move.from)
    BY <2>3 DEF Begins
  <2> HIDE DEF X, Cut
  <2>5. move.code \o rest \in Signals
    BY <2>1, ConcatSignals
  <2> QED BY <1>0, <2>1, <2>4, <2>5
<1>3. X \in SUBSET (Signals \X Place)
  OBVIOUS
<1> HIDE DEF X
<1>4. <<s, first>> \in X
  BY <1>1, <1>2, <1>3 DEF Path, ClosedUnder
<1> HIDE DEF Cut
<1>5. Cut(s, first)
  BY <1>0, <1>4
<1> QED BY <1>5 DEF Cut

(* What is sent comes behind everything else.                                *)
LEMMA PathAppend ==
  ASSUME NEW M \in SUBSET Piece, NEW first \in Place, NEW s \in Signals, NEW move \in M,
         Path(M, s, first, move.from)
  PROVE  Path(M, s \o move.code, first, move.to)
<1>0. move.from \in Place /\ move.to \in Place /\ move.code \in Signals
  BY PieceType
<1> DEFINE code == move.code
           Longer(t, place) == Path(M, t \o code, place, move.to)
           X == {x \in Signals \X Place : Longer(x[1], x[2])}
<1>1. \A t \in Signals, place \in Place : <<t, place>> \in X <=> Longer(t, place)
  BY Zenon
<1>2. <<<<>>, move.from>> \in X
  <2>1. <<>> \o code = code /\ code \o <<>> = code /\ <<>> \in Signals
    BY <1>0, ConcatEmptySeq DEF Signals
  <2>2. Path(M, code \o <<>>, move.from, move.to)
    BY <1>0, <2>1, PathEmpty, PathPrepend
  <2>3. Longer(<<>>, move.from)
    BY <2>1, <2>2
  <2> HIDE DEF X, Longer
  <2> QED BY <1>0, <1>1, <2>1, <2>3
<1>3. ASSUME NEW other \in M, NEW rest \in Signals, <<rest, other.to>> \in X
      PROVE  <<other.code \o rest, other.from>> \in X
  <2>1. other.from \in Place /\ other.to \in Place /\ other.code \in Signals
    BY PieceType
  <2>2. Path(M, rest \o code, other.to, move.to)
    BY <1>1, <1>3, <2>1
  <2>3. rest \o code \in Signals /\ other.code \o rest \in Signals
    BY <1>0, <2>1, ConcatSignals
  <2>4. Path(M, other.code \o (rest \o code), other.from, move.to)
    BY <1>0, <2>2, <2>3, PathPrepend
  <2>5. other.code \o (rest \o code) = (other.code \o rest) \o code
    <3> HIDE DEF code
    <3> QED BY <1>0, <2>1, ConcatThree DEF code
  <2>6. Longer(other.code \o rest, other.from)
    BY <2>4, <2>5
  <2> HIDE DEF X, Longer
  <2> QED BY <1>1, <2>1, <2>3, <2>6
<1>4. X \in SUBSET (Signals \X Place)
  OBVIOUS
<1> HIDE DEF X
<1>5. <<s, first>> \in X
  BY <1>2, <1>3, <1>4 DEF Path, ClosedUnder
<1> HIDE DEF Longer
<1>6. Longer(s, first)
  BY <1>1, <1>5
<1> QED BY <1>6 DEF Longer

LEMMA PathMore ==
  ASSUME NEW M \in SUBSET Piece, NEW M2 \in SUBSET Piece, M \subseteq M2,
         NEW s, NEW first, NEW last, Path(M, s, first, last)
  PROVE  Path(M2, s, first, last)
<1> SUFFICES ASSUME NEW X \in SUBSET (Signals \X Place), ClosedUnder(X, M2, last)
             PROVE  <<s, first>> \in X
  BY DEF Path
<1>1. ClosedUnder(X, M, last)
  BY DEF ClosedUnder
<1> QED BY <1>1 DEF Path
-----------------------------------------------------------------------------
(* The serial line.                                                          *)

(* What a printed line is: its LF is its end.  Where the station did not     *)
(* pause in it, it is the text, behind a pause or not.                       *)
Ends(code) == Len(code) >= 1 /\ \A k \in 1..Len(code) : code[k] = LF <=> k = Len(code)
IsLineOf(code, n) ==
  /\ Ends(code)
  /\ ~sent[n].paused => code = sent[n].text \/ code = <<PAUSE>> \o sent[n].text
LinePieces ==
  {piece \in Piece : \E n \in 1..Len(sent) :
     piece.from = <<n - 1, <<>>>> /\ piece.to = <<n, <<>>>> /\ IsLineOf(piece.code, n)}
LinesFrom(s, n) == Path(LinePieces, s, <<n, <<>>>>, <<Len(sent), <<>>>>)

LinesSaid == \A n \in DOMAIN sent :
  /\ Ends(sent[n].text) /\ Len(sent[n].text) >= 2
  /\ \A k \in 1..Len(sent[n].text) : sent[n].text[k] # NUL
  /\ sent[n].safe => ~sent[n].paused /\ (n > 1 => ~sent[n - 1].paused)

InLine == loopPc \in {"read", "overrun"}

(* The next byte to be read is the first of a line; if the reader is in the  *)
(* middle of one, then because it took the LF of the last line for its first *)
(* byte, which it does only where the station had paused.                    *)
AtLine ==
  /\ LinesFrom(port, finished)
  /\ InLine => finished \in DOMAIN sent /\ sent[finished].paused /\ buffer[0] = LF

(* The next byte is in the line Current, of which head is left.  Of a line   *)
(* without a pause, j bytes are read; of a safe one, they are in the buffer. *)
Left(head, text, j) ==
  \/ j = 0 /\ head = <<PAUSE>> \o text
  \/ Len(head) = Len(text) - j /\ \A k \in 1..Len(head) : head[k] = text[j + k]
Reads(head, line_) == \E j \in 0..(Len(line_.text) - 1) :
  /\ Left(head, line_.text, j)
  /\ j > 0 => InLine
  /\ line_.safe => /\ InLine => j > 0
                   /\ j > 0 => i = j - 1 /\ \A k \in 1..j : buffer[k - 1] = line_.text[k]
Within(head, rest) ==
  /\ port = head \o rest /\ LinesFrom(rest, Current)
  /\ Current \in DOMAIN sent /\ Ends(head)
  /\ ~sent[Current].paused => Reads(head, sent[Current])

OnLine == AtLine \/ \E head, rest \in Signals : Within(head, rest)

UsbInv == mode = "usb" => loopPc \notin {"send", "dispatch"} /\ LinesSaid /\ OnLine

LEMMA LinePiecesType == LinePieces \in SUBSET Piece
BY DEF LinePieces

LEMMA LinePlaces ==
  ASSUME TypeOK
  PROVE  /\ \A n \in Nat : <<n, <<>>>> \in Place
         /\ Len(sent) \in Nat /\ finished \in Nat /\ Current \in Nat
         /\ DOMAIN sent = 1..Len(sent) /\ port \in Signals
         /\ \A n \in DOMAIN sent : sent[n].text \in Text /\ sent[n].safe \in BOOLEAN /\ sent[n].paused \in BOOLEAN
<1>1. <<>> \in Text
  BY DEF Text
<1>2. sent \in Seq(SentMessage) /\ finished \in Nat /\ port \in Signals
  BY DEF TypeOK, SerialTypeOK, Signals, Symbols
<1>3. \A n \in DOMAIN sent : sent[n] \in SentMessage
  <2> HIDE DEF SentMessage
  <2> QED BY <1>2, ElementOfSeq
<1>4. \A m \in SentMessage : m.text \in Text /\ m.safe \in BOOLEAN /\ m.paused \in BOOLEAN
  BY DEF SentMessage
<1> HIDE DEF SentMessage, Text
<1> QED BY <1>1, <1>2, <1>3, <1>4 DEF Place, Current

(* At the beginning of a line that is there, the whole of it is left.        *)
LEMMA LineBegins ==
  ASSUME TypeOK, LinesSaid, AtLine, port # <<>>
  PROVE  \E head, rest \in Signals : Within(head, rest)
<1>1. /\ <<finished, <<>>>> \in Place /\ <<Len(sent), <<>>>> \in Place /\ port \in Signals
      /\ DOMAIN sent = 1..Len(sent) /\ Len(sent) \in Nat /\ finished \in Nat
      /\ \A n \in DOMAIN sent : sent[n].text \in Text
  BY LinePlaces
<1>2. PICK piece \in LinePieces, rest \in Signals :
        /\ port = piece.code \o rest /\ <<finished, <<>>>> = piece.from
        /\ Path(LinePieces, rest, piece.to, <<Len(sent), <<>>>>)
  <2>1. Path(LinePieces, port, <<finished, <<>>>>, <<Len(sent), <<>>>>)
    BY DEF AtLine, LinesFrom
  <2> HIDE DEF Place, Signals
  <2>2. PICK M \in SUBSET Piece : M = LinePieces
    BY LinePiecesType
  <2>3. PICK s \in Signals, first \in Place, last \in Place :
          s = port /\ first = <<finished, <<>>>> /\ last = <<Len(sent), <<>>>>
    BY <1>1
  <2>4. Path(M, s, first, last)
    BY <2>1, <2>2, <2>3
  <2>5. Begins(M, s, first, last)
    BY <2>4, PathFirst
  <2> QED BY <2>2, <2>3, <2>5 DEF Begins
<1>3. PICK n \in 1..Len(sent) :
        piece.from = <<n - 1, <<>>>> /\ piece.to = <<n, <<>>>> /\ IsLineOf(piece.code, n)
  BY DEF LinePieces
<1>4. piece.code \in Signals
  BY LinePiecesType, PieceType
<1>5. n = Current
  BY <1>1, <1>2, <1>3 DEF Current
<1>6. sent[n].safe => ~InLine
  <2>1. n - 1 = finished /\ n \in DOMAIN sent
    BY <1>1, <1>5 DEF Current
  <2>2. finished \in DOMAIN sent => n > 1
    BY <1>1, <2>1
  <2> QED BY <2>1, <2>2 DEF LinesSaid, AtLine
<1>7. ~sent[n].paused => Left(piece.code, sent[n].text, 0)
  <2>1. Len(sent[n].text) \in Nat
    BY <1>1 DEF Text
  <2>2. ASSUME piece.code = sent[n].text PROVE Left(piece.code, sent[n].text, 0)
    BY <2>1, <2>2 DEF Left
  <2> QED BY <2>2, <1>3 DEF IsLineOf, Left
<1>8. ~sent[n].paused => Reads(piece.code, sent[n])
  <2>1. 0 \in 0..(Len(sent[n].text) - 1) /\ ~(0 > 0)
    BY <1>1 DEF LinesSaid, Text
  <2> QED BY <2>1, <1>6, <1>7 DEF Reads
<1>9. Within(piece.code, rest)
  BY <1>1, <1>2, <1>3, <1>5, <1>8 DEF Within, LinesFrom, IsLineOf
<1> QED BY <1>4, <1>9

(* With nothing on the line every message has been read to its end.          *)
LEMMA NothingLeft ==
  ASSUME TypeOK, OnLine, port = <<>>
  PROVE  AtLine /\ finished = Len(sent)
<1>1. /\ <<finished, <<>>>> \in Place /\ <<Len(sent), <<>>>> \in Place /\ port \in Signals
      /\ finished \in Nat
  BY LinePlaces
<1>2. \A head, rest \in Signals : Ends(head) => port # head \o rest
  <2> SUFFICES ASSUME NEW head \in Signals, NEW rest \in Signals, Ends(head), port = head \o rest
               PROVE FALSE
    OBVIOUS
  <2>1. Len(head) \in Nat /\ Len(rest) \in Nat /\ Len(head) >= 1
    BY DEF Ends, Signals
  <2>2. Len(head \o rest) = Len(head) + Len(rest)
    BY ConcatProperties DEF Signals
  <2> QED BY <2>1, <2>2
<1>3. AtLine
  BY <1>2 DEF OnLine, Within
<1>4. ~\E piece \in LinePieces, rest \in Signals : port = piece.code \o rest
  <2>1. \A piece \in LinePieces : Ends(piece.code) /\ piece.code \in Signals
    BY LinePiecesType, PieceType DEF LinePieces, IsLineOf
  <2> QED BY <2>1, <1>2
<1>5. <<finished, <<>>>> = <<Len(sent), <<>>>>
  <2>1. Path(LinePieces, port, <<finished, <<>>>>, <<Len(sent), <<>>>>)
    BY <1>3 DEF AtLine, LinesFrom
  <2>2. Begins(LinePieces, port, <<finished, <<>>>>, <<Len(sent), <<>>>>)
    BY <1>1, <2>1, LinePiecesType, PathFirst
  <2> QED BY <1>4, <2>2 DEF Begins
<1> QED BY <1>3, <1>5
-----------------------------------------------------------------------------
(* The rest of two sequences after the first element.                        *)
LEMMA TailOfConcat ==
  ASSUME NEW S, NEW s \in Seq(S), NEW t \in Seq(S), Len(s) >= 1
  PROVE  Tail(s \o t) = Tail(s) \o t
<1>1. Len(s) \in Nat /\ Len(t) \in Nat /\ s # <<>>
  BY LenProperties
<1>2. PICK u \in Seq(S) :
        /\ u = s \o t /\ Len(u) = Len(s) + Len(t)
        /\ \A k \in 1..(Len(s) + Len(t)) : u[k] = IF k <= Len(s) THEN s[k] ELSE t[k - Len(s)]
  <2>1. /\ s \o t \in Seq(S) /\ Len(s \o t) = Len(s) + Len(t)
        /\ \A k \in 1..(Len(s) + Len(t)) : (s \o t)[k] = IF k <= Len(s) THEN s[k] ELSE t[k - Len(s)]
    BY ConcatProperties
  <2>2. PICK both : both = s \o t
    OBVIOUS
  <2> QED BY <2>1, <2>2
<1>3. PICK v \in Seq(S) :
        /\ v = Tail(s) /\ Len(v) = Len(s) - 1
        /\ \A k \in 1..(Len(s) - 1) : v[k] = s[k + 1]
  <2>1. PICK v \in Seq(S) : v = Tail(s) /\ Len(v) = Len(s) - 1 /\ \A k \in 1..Len(v) : v[k] = s[k + 1]
    BY <1>1, HeadTailProperties
  <2> QED BY <2>1
<1>4. PICK left \in Seq(S) :
        /\ left = Tail(u) /\ Len(left) = Len(u) - 1
        /\ \A k \in 1..Len(left) : left[k] = u[k + 1]
  <2>1. u # <<>>
    BY <1>1, <1>2
  <2> QED BY <2>1, HeadTailProperties
<1>5. PICK right \in Seq(S) :
        /\ right = v \o t /\ Len(right) = Len(v) + Len(t)
        /\ \A k \in 1..(Len(v) + Len(t)) : right[k] = IF k <= Len(v) THEN v[k] ELSE t[k - Len(v)]
  <2>1. /\ v \o t \in Seq(S) /\ Len(v \o t) = Len(v) + Len(t)
        /\ \A k \in 1..(Len(v) + Len(t)) : (v \o t)[k] = IF k <= Len(v) THEN v[k] ELSE t[k - Len(v)]
    BY ConcatProperties
  <2>2. PICK both : both = v \o t
    OBVIOUS
  <2> QED BY <2>1, <2>2
<1>6. ASSUME NEW k \in 1..Len(left) PROVE left[k] = right[k]
  <2>1. k + 1 \in 1..(Len(s) + Len(t)) /\ k \in 1..(Len(v) + Len(t))
    BY <1>1, <1>2, <1>3, <1>4
  <2>2. k <= Len(v) <=> k + 1 <= Len(s)
    BY <1>1, <1>3
  <2>3. CASE k <= Len(v)
    <3>1. k \in 1..(Len(s) - 1)
      BY <1>1, <1>3, <2>3
    <3> QED BY <1>2, <1>3, <1>4, <1>5, <2>1, <2>2, <2>3, <3>1
  <2>4. CASE ~(k <= Len(v))
    <3>1. (k + 1) - Len(s) = k - Len(v)
      BY <1>1, <1>3
    <3> QED BY <1>2, <1>4, <1>5, <2>1, <2>2, <2>4, <3>1
  <2> QED BY <2>3, <2>4
<1>7. left = right
  <2>1. Len(left) = Len(right)
    BY <1>1, <1>2, <1>3, <1>4, <1>5
  <2> QED BY <1>6, <2>1, SeqEqual
<1> QED BY <1>2, <1>3, <1>4, <1>5, <1>7

(* Taking the first symbol of a line.                                        *)
LEMMA TakeOne ==
  ASSUME NEW head \in Signals, NEW rest \in Signals, Ends(head), port = head \o rest
  PROVE  /\ port # <<>> /\ Head(port) = head[1] /\ Head(port) \in Symbols
         /\ Tail(head) \in Signals /\ Tail(port) = Tail(head) \o rest
         /\ Len(head) \in Nat /\ Len(head) >= 1 /\ Len(Tail(head)) = Len(head) - 1
         /\ \A k \in 1..Len(Tail(head)) : Tail(head)[k] = head[k + 1]
         /\ Head(port) = LF => Len(head) = 1 /\ Tail(port) = rest
         /\ Head(port) # LF => Len(head) >= 2 /\ Ends(Tail(head))
<1>1. head \in Seq(Symbols) /\ rest \in Seq(Symbols) /\ Len(head) \in Nat /\ Len(rest) \in Nat /\ Len(head) >= 1
  BY DEF Signals, Ends
<1> HIDE DEF Symbols
<1>2. /\ port \in Seq(Symbols) /\ Len(port) = Len(head) + Len(rest)
      /\ \A k \in 1..Len(head) : port[k] = head[k]
      /\ \A k \in 1..Len(port) : port[k] = IF k <= Len(head) THEN head[k] ELSE rest[k - Len(head)]
  BY <1>1
<1>3. port # <<>> /\ Head(port) = head[1] /\ Head(port) \in Symbols
  <2>1. Len(port) >= 1
    BY <1>1, <1>2
  <2>2. port # <<>>
    BY <2>1, <1>2
  <2>3. head[1] \in Symbols
    BY <1>1
  <2> QED BY <1>1, <1>2, <2>2, <2>3
<1>4. /\ Tail(head) \in Seq(Symbols) /\ Len(Tail(head)) = Len(head) - 1
      /\ \A k \in 1..Len(Tail(head)) : Tail(head)[k] = head[k + 1]
  BY <1>1
<1>5. /\ Tail(port) \in Seq(Symbols) /\ Len(Tail(port)) = Len(port) - 1
      /\ \A k \in 1..Len(Tail(port)) : Tail(port)[k] = port[k + 1]
  BY <1>2, <1>3
<1>6. Tail(port) = Tail(head) \o rest
  BY <1>1, TailOfConcat
<1>7. Head(port) = LF => Len(head) = 1 /\ Tail(port) = rest
  <2>0. 1 \in 1..Len(head)
    BY <1>1
  <2>1. Head(port) = LF => Len(head) = 1
    BY <1>1, <1>3, <2>0 DEF Ends
  <2>2. ASSUME Len(head) = 1 PROVE Tail(head) = <<>>
    <3>1. Len(Tail(head)) = 0
      BY <1>4, <2>2
    <3> QED BY <1>4, <3>1, EmptySeq
  <2>3. <<>> \o rest = rest
    BY <1>1, ConcatEmptySeq
  <2> QED BY <1>6, <2>1, <2>2, <2>3
<1>8. Head(port) # LF => Len(head) >= 2 /\ Ends(Tail(head))
  <2>0. 1 \in 1..Len(head)
    BY <1>1
  <2>1. Head(port) # LF => Len(head) # 1
    BY <1>1, <1>3, <2>0 DEF Ends
  <2>2. ASSUME Len(head) >= 2 PROVE Ends(Tail(head))
    <3>1. Len(Tail(head)) >= 1
      BY <1>1, <1>4, <2>2
    <3>2. ASSUME NEW k \in 1..Len(Tail(head)) PROVE Tail(head)[k] = LF <=> k = Len(Tail(head))
      <4>1. Tail(head)[k] = head[k + 1] /\ k + 1 \in 1..Len(head) /\ (k + 1 = Len(head) <=> k = Len(Tail(head)))
        BY <1>1, <1>4
      <4> QED BY <4>1 DEF Ends
    <3> QED BY <3>1, <3>2 DEF Ends
  <2>3. \A n \in Nat : n >= 1 /\ n # 1 => n >= 2
    OBVIOUS
  <2>4. Head(port) # LF => Len(head) >= 2
    BY <1>1, <2>1, <2>3
  <2> QED BY <2>2, <2>4
<1> QED BY <1>1, <1>3, <1>4, <1>6, <1>7, <1>8 DEF Signals

(* What is left of a line after one more byte of it.                         *)
LEMMA LeftAfter ==
  ASSUME NEW text \in Text, NEW head \in Signals, NEW j \in Nat, Left(head, text, j),
         j < Len(text), Len(head) >= 1,
         Len(Tail(head)) = Len(head) - 1,
         \A k \in 1..Len(Tail(head)) : Tail(head)[k] = head[k + 1]
  PROVE  /\ head[1] = PAUSE => j = 0 /\ Left(Tail(head), text, 0)
         /\ head[1] # PAUSE => /\ Left(Tail(head), text, j + 1) /\ Len(head) = Len(text) - j
                               /\ head[1] = text[j + 1]
<1>1. Len(text) \in Nat /\ Len(head) \in Nat
  BY DEF Text, Signals
<1>2. text[j + 1] # PAUSE
  <2>1. j + 1 \in 1..Len(text)
    BY <1>1
  <2>2. text[j + 1] \in Bytes
    <3> HIDE DEF Bytes
    <3> QED BY <2>1 DEF Text
  <2>3. \A b \in Bytes : b # PAUSE
    BY DEF Bytes, PAUSE
  <2> HIDE DEF Bytes
  <2> QED BY <2>2, <2>3
<1>3. CASE j = 0 /\ head = <<PAUSE>> \o text
  <2>1. /\ Len(head) = Len(text) + 1 /\ head[1] = PAUSE
        /\ \A k \in 1..Len(text) : head[k + 1] = text[k]
    <3> HIDE DEF Bytes
    <3>1. text \in Seq(Bytes \cup {PAUSE}) /\ <<PAUSE>> \in Seq(Bytes \cup {PAUSE}) /\ Len(<<PAUSE>>) = 1
      BY DEF Text
    <3>2. /\ Len(head) = 1 + Len(text) /\ head[1] = <<PAUSE>>[1]
          /\ \A k \in 1..Len(text) : head[1 + k] = text[k]
      BY <1>3, <3>1, ConcatProperties
    <3>3. \A k \in 1..Len(text) : 1 + k = k + 1
      BY <1>1
    <3> QED BY <3>2, <3>3, <1>1
  <2>2. Len(Tail(head)) = Len(text) - 0 /\ \A k \in 1..Len(Tail(head)) : Tail(head)[k] = text[0 + k]
    <3>1. Len(Tail(head)) = Len(text)
      BY <1>1, <2>1
    <3>2. \A k \in 1..Len(text) : 0 + k = k
      BY <1>1
    <3> QED BY <1>1, <2>1, <3>1, <3>2
  <2> QED BY <1>3, <2>1, <2>2 DEF Left
<1>4. CASE Len(head) = Len(text) - j /\ \A k \in 1..Len(head) : head[k] = text[j + k]
  <2>1. head[1] = text[j + 1]
    BY <1>1, <1>4
  <2>2. Len(Tail(head)) = Len(text) - (j + 1)
    BY <1>1, <1>4
  <2>3. ASSUME NEW k \in 1..Len(Tail(head)) PROVE Tail(head)[k] = text[(j + 1) + k]
    <3>1. k + 1 \in 1..Len(head) /\ j + (k + 1) = (j + 1) + k
      BY <1>1
    <3> QED BY <1>4, <3>1
  <2> QED BY <1>2, <1>4, <2>1, <2>2, <2>3 DEF Left
<1> QED BY <1>3, <1>4 DEF Left
-----------------------------------------------------------------------------
LEMMA SaidLine ==
  ASSUME TypeOK, LinesSaid, NEW n \in DOMAIN sent
  PROVE  /\ sent[n].text \in Text /\ Len(sent[n].text) \in Nat /\ Len(sent[n].text) >= 2
         /\ Ends(sent[n].text)
         /\ sent[n].safe => ~sent[n].paused
         /\ \A k \in 1..Len(sent[n].text) : sent[n].text[k] # NUL
<1>1. sent[n].text \in Text
  BY LinePlaces
<1>2. \A text \in Text : Len(text) \in Nat
  BY DEF Text
<1> QED BY <1>1, <1>2 DEF LinesSaid

LEMMA LinesStay ==
  ASSUME sent' = sent, NEW s, NEW n, LinesFrom(s, n)
  PROVE  LinesFrom(s, n)'
<1>1. LinePieces' = LinePieces
  BY DEF LinePieces, IsLineOf
<1> QED BY <1>1 DEF LinesFrom

(* The LF of a line has been read.                                           *)
LEMMA LineOver ==
  ASSUME TypeOK, NEW head \in Signals, NEW rest \in Signals, Within(head, rest),
         Head(port) = LF, port' = Tail(port), finished' = finished + 1, sent' = sent,
         InLine' => sent[Current].paused /\ buffer'[0] = LF
  PROVE  AtLine'
<1>1. port' = rest /\ finished' = Current /\ Current \in DOMAIN sent
  BY TakeOne DEF Within, Current
<1>2. LinesFrom(rest, Current) /\ Current \in Nat
  BY LinePlaces DEF Within
<1>3. PICK n \in Nat : n = Current
  BY <1>2
<1>4. LinesFrom(rest, n)'
  BY <1>2, <1>3, LinesStay
<1>5. LinesFrom(port, finished)'
  BY <1>1, <1>3, <1>4 DEF LinesFrom
<1> QED BY <1>1, <1>5 DEF AtLine

(* Another byte of a line, or a pause in it, has been read.                  *)
LEMMA LineContinues ==
  ASSUME TypeOK, NEW head \in Signals, NEW rest \in Signals, Within(head, rest),
         Head(port) # LF, port' = Tail(port), finished' = finished, sent' = sent,
         NEW told, told = sent[Current], ~told.paused => Reads(Tail(head), told)'
  PROVE  Within(Tail(head), rest)'
<1>1. Tail(port) = Tail(head) \o rest /\ Ends(Tail(head)) /\ Current' = Current
  BY TakeOne DEF Within, Current
<1>2. LinesFrom(rest, Current) /\ Current \in Nat /\ Current \in DOMAIN sent
  BY LinePlaces DEF Within
<1>3. PICK n \in Nat : n = Current
  BY <1>2
<1>4. LinesFrom(rest, n)'
  BY <1>2, <1>3, LinesStay
<1>5. LinesFrom(rest, Current)'
  BY <1>1, <1>3, <1>4 DEF LinesFrom
<1>6. ~sent'[Current'].paused => Reads(Tail(head), sent[Current])'
  BY <1>1 DEF Reads, Left, InLine
<1> QED BY <1>1, <1>2, <1>5, <1>6 DEF Within, Ends

LEMMA NoFirstByteStep ==
  ASSUME TypeOK, LinesSaid, OnLine, noFirstByte
  PROVE  OnLine'
<1>1. /\ ~InLine /\ ~InLine' /\ sent' = sent /\ finished' = finished
      /\ \/ port = <<>> /\ port' = port
         \/ port # <<>> /\ Head(port) = PAUSE /\ port' = Tail(port)
  BY DEF noFirstByte, InLine
<1>2. CASE port = <<>> /\ port' = port
  <2>1. AtLine
    BY <1>2, NothingLeft
  <2>2. PICK n : n = finished
    OBVIOUS
  <2>3. LinesFrom(port, n)'
    <3>1. PICK s : s = port
      OBVIOUS
    <3>2. LinesFrom(s, n)'
      BY <1>1, <2>1, <2>2, <3>1, LinesStay DEF AtLine
    <3> QED BY <1>2, <3>1, <3>2 DEF LinesFrom
  <2> QED BY <1>1, <2>2, <2>3 DEF AtLine, OnLine, LinesFrom
<1>3. CASE port # <<>> /\ Head(port) = PAUSE /\ port' = Tail(port)
  <2>1. PICK head \in Signals, rest \in Signals : Within(head, rest)
    BY <1>3, LineBegins DEF OnLine
  <2>2. Head(port) # LF
    BY <1>3 DEF LF, PAUSE
  <2>3. /\ Head(port) = head[1] /\ Tail(head) \in Signals
        /\ Len(head) >= 1 /\ Len(Tail(head)) = Len(head) - 1
        /\ \A k \in 1..Len(Tail(head)) : Tail(head)[k] = head[k + 1]
    BY <2>1, TakeOne DEF Within
  <2>4. PICK told : told = sent[Current]
    OBVIOUS
  <2>5. told.text \in Text /\ Len(told.text) \in Nat /\ Len(told.text) >= 2
    BY <2>1, <2>4, SaidLine DEF Within
  <2>6. ASSUME ~told.paused PROVE Reads(Tail(head), told)'
    <3>1. PICK j \in 0..(Len(told.text) - 1) : Left(head, told.text, j) /\ (j > 0 => InLine)
      BY <2>1, <2>4, <2>6 DEF Within, Reads
    <3>2. Left(Tail(head), told.text, 0)
      <4>1. j \in Nat /\ j < Len(told.text)
        BY <2>5, <3>1
      <4> QED BY <1>3, <2>3, <2>5, <3>1, <4>1, LeftAfter
    <3>3. 0 \in 0..(Len(told.text) - 1) /\ ~(0 > 0)
      BY <2>5
    <3> QED BY <1>1, <3>2, <3>3 DEF Reads
  <2>7. Within(Tail(head), rest)'
    BY <1>1, <1>3, <2>1, <2>2, <2>4, <2>6, LineContinues
  <2> QED BY <2>3, <2>7 DEF OnLine
<1> QED BY <1>1, <1>2, <1>3

LEMMA FirstByteStep ==
  ASSUME TypeOK, LinesSaid, OnLine, firstByte
  PROVE  OnLine'
<1>1. /\ ~InLine /\ InLine' /\ sent' = sent /\ finished' = finished + EndsLine(Head(port))
      /\ port # <<>> /\ Head(port) # PAUSE /\ port' = Tail(port) /\ i' = 0
      /\ buffer' = [buffer EXCEPT ![0] = Head(port)]
  BY DEF firstByte, InLine
<1>2. buffer'[0] = Head(port)
  <2>1. buffer \in [Positions -> Bytes] /\ 0 \in Positions
    BY SerialAssumption DEF TypeOK, SerialTypeOK, Positions
  <2> HIDE DEF Positions, Bytes
  <2> QED BY <1>1, <2>1
<1>3. PICK head \in Signals, rest \in Signals : Within(head, rest)
  BY <1>1, LineBegins DEF OnLine
<1>4. PICK told : told = sent[Current]
  OBVIOUS
<1>5. told.text \in Text /\ Len(told.text) \in Nat /\ Len(told.text) >= 2
  BY <1>3, <1>4, SaidLine DEF Within
<1>6. /\ Head(port) = head[1] /\ Tail(head) \in Signals
      /\ Len(head) >= 1 /\ Len(Tail(head)) = Len(head) - 1
      /\ \A k \in 1..Len(Tail(head)) : Tail(head)[k] = head[k + 1]
      /\ Head(port) = LF => Len(head) = 1
  BY <1>3, TakeOne DEF Within
<1>7. ~told.paused => Left(Tail(head), told.text, 1) /\ Len(head) = Len(told.text) /\ head[1] = told.text[1]
  <2> SUFFICES ASSUME ~told.paused
               PROVE  Left(Tail(head), told.text, 1) /\ Len(head) = Len(told.text) /\ head[1] = told.text[1]
    OBVIOUS
  <2>1. PICK j \in 0..(Len(told.text) - 1) : Left(head, told.text, j) /\ (j > 0 => InLine)
    BY <1>3, <1>4 DEF Within, Reads
  <2>2. j = 0 /\ j < Len(told.text)
    BY <1>1, <1>5, <2>1
  <2>3. Left(Tail(head), told.text, 0 + 1) /\ Len(head) = Len(told.text) - 0 /\ head[1] = told.text[0 + 1]
    BY <1>1, <1>5, <1>6, <2>1, <2>2, LeftAfter
  <2>4. \A n \in Nat : n - 0 = n
    OBVIOUS
  <2> QED BY <1>5, <2>3, <2>4
<1>8. CASE Head(port) = LF
  <2>1. finished' = finished + 1
    BY <1>1, <1>8 DEF EndsLine
  <2>2. told.paused
    <3> SUFFICES ASSUME ~told.paused PROVE FALSE
      OBVIOUS
    <3>1. Len(head) = 1 /\ Len(head) = Len(told.text)
      BY <1>6, <1>7, <1>8
    <3>2. \A n \in Nat : n >= 2 => n # 1
      OBVIOUS
    <3> QED BY <1>5, <3>1, <3>2
  <2>3. AtLine'
    BY <1>1, <1>2, <1>3, <1>4, <1>8, <2>1, <2>2, LineOver
  <2> QED BY <2>3 DEF OnLine
<1>9. CASE Head(port) # LF
  <2>1. finished' = finished
    <3>1. finished' = finished + 0 /\ finished \in Nat
      BY <1>1, <1>9, LinePlaces DEF EndsLine
    <3> QED BY <3>1
  <2>2. ASSUME ~told.paused PROVE Reads(Tail(head), told)'
    <3>1. 1 \in 0..(Len(told.text) - 1) /\ 1 > 0 /\ i' = 1 - 1
      BY <1>1, <1>5
    <3>2. \A k \in 1..1 : buffer'[k - 1] = told.text[k]
      <4>1. \A k \in 1..1 : k = 1 /\ k - 1 = 0
        OBVIOUS
      <4> QED BY <1>2, <1>6, <1>7, <2>2, <4>1
    <3> QED BY <1>1, <1>7, <2>2, <3>1, <3>2 DEF Reads
  <2>3. Within(Tail(head), rest)'
    BY <1>1, <1>3, <1>4, <1>9, <2>1, <2>2, LineContinues
  <2> QED BY <1>6, <2>3 DEF OnLine
<1> QED BY <1>8, <1>9
-----------------------------------------------------------------------------
(* The messages that wait for parse are what the station said.               *)
Arrived(message) ==
  /\ message.of \in DOMAIN sent
  /\ sent[message.of].safe => Seqs!IsPrefix(sent[message.of].text, message.text)
Received == \A message \in Values(cmdToParse) : Arrived(message)

LEMMA ReceivesOne ==
  ASSUME TypeOK, Received, NEW text \in Text, Receive(text), sent' = sent,
         Current \in DOMAIN sent,
         sent[Current].safe => Seqs!IsPrefix(sent[Current].text, text)
  PROVE  Received'
<1> DEFINE one == [text |-> text, of |-> Current]
<1>1. one \in Message
  BY LinePlaces DEF Message
<1>2. Values(cmdToParse') = Values(cmdToParse) \cup {one}
  BY <1>1, PushBackValues DEF Receive, TypeOK
<1>3. Arrived(one)
  BY DEF Arrived
<1> HIDE DEF one
<1>4. \A message \in Values(cmdToParse') : Arrived(message)
  BY <1>2, <1>3 DEF Received
<1> QED BY <1>4 DEF Received, Arrived

LEMMA ReceivesNothing ==
  ASSUME Received, sent' = sent, cmdToParse' = cmdToParse
  PROVE  Received'
BY DEF Received, Arrived

(* Where the buffer begins with a text without NUL, so do its C strings.      *)
LEMMA BufferHolds ==
  ASSUME NEW b \in [Positions -> Bytes], NEW text \in Text, Len(text) <= BufferSize,
         \A k \in 1..Len(text) : text[k] # NUL /\ b[k - 1] = text[k],
         NEW string \in CStrings(b)
  PROVE  Seqs!IsPrefix(text, string)
<1> DEFINE ends == {p \in Positions : b[p] = NUL}
           UpTo(length) == [p \in 1..length |-> b[p - 1]]
<1>1. BufferSize \in Nat \ {0} /\ Behind \subseteq Text /\ Len(text) \in Nat
  BY SerialAssumption DEF Text
<1>2. string \in Text
  BY CStringsType
<1>3. ASSUME NEW length \in 0..BufferSize, Len(text) <= length
      PROVE  /\ UpTo(length) \in Text /\ Len(UpTo(length)) = length
             /\ \A k \in 1..Len(text) : text[k] = UpTo(length)[k]
  <2>1. \A p \in 1..length : p - 1 \in Positions
    BY <1>1 DEF Positions
  <2>2. UpTo(length) \in [1..length -> Bytes] /\ length \in Nat
    BY <1>1, <2>1
  <2>3. ASSUME NEW k \in 1..Len(text) PROVE text[k] = UpTo(length)[k]
    <3>1. k \in 1..length
      BY <1>1, <1>3
    <3> QED BY <3>1
  <2>4. \A f \in [1..length -> Bytes] : f \in Text /\ Len(f) = length
    BY <2>2, IsText
  <2> HIDE DEF UpTo
  <2> QED BY <2>2, <2>3, <2>4
<1>4. CASE ends = {}
  <2>1. PICK behind \in Behind : string = UpTo(BufferSize) \o behind
    BY <1>4 DEF CStrings
  <2>2. BufferSize \in 0..BufferSize
    BY <1>1
  <2> HIDE DEF UpTo
  <2>3. /\ UpTo(BufferSize) \in Text /\ Len(UpTo(BufferSize)) = BufferSize
        /\ \A k \in 1..Len(text) : text[k] = UpTo(BufferSize)[k]
    BY <1>3, <2>2
  <2>4. /\ Len(string) = BufferSize + Len(behind) /\ Len(behind) \in Nat
        /\ \A k \in 1..BufferSize : string[k] = UpTo(BufferSize)[k]
    <3>1. behind \in Seq(Bytes) /\ UpTo(BufferSize) \in Seq(Bytes)
      BY <1>1, <2>1, <2>3 DEF Text
    <3> HIDE DEF Bytes
    <3> QED BY <2>1, <2>3, <3>1, ConcatProperties
  <2>5. Len(text) <= Len(string) /\ \A k \in 1..Len(text) : text[k] = string[k]
    <3>1. \A k \in 1..Len(text) : k \in 1..BufferSize
      BY <1>1
    <3> QED BY <1>1, <2>3, <2>4, <3>1
  <2> QED BY <1>2, <2>5, PrefixByElement DEF Text
<1>5. CASE ends # {}
  <2>1. PICK p \in ends : string = UpTo(p)
    BY <1>5 DEF CStrings
  <2>2. p \in 0..BufferSize /\ p \in Nat /\ b[p] = NUL
    BY <1>1, <2>1 DEF Positions
  <2>3. Len(text) <= p
    <3> SUFFICES ASSUME p < Len(text) PROVE FALSE
      BY <1>1, <2>2
    <3>1. p + 1 \in 1..Len(text) /\ (p + 1) - 1 = p
      BY <1>1, <2>2
    <3> QED BY <2>2, <3>1
  <2> HIDE DEF UpTo
  <2>4. Len(string) = p /\ \A k \in 1..Len(text) : text[k] = string[k]
    BY <1>3, <2>1, <2>2, <2>3
  <2> QED BY <1>2, <2>3, <2>4, PrefixByElement DEF Text
<1> QED BY <1>4, <1>5

(* What a read of the rest of a line does.                                   *)
Byte == IF port = <<>> THEN PAUSE ELSE Head(port)
NextByteEffect(content) ==
  /\ content \in [Positions -> Bytes]
  /\ \A p \in Positions : p # i + 1 => content[p] = buffer[p]
  /\ Byte # PAUSE => content[i + 1] = Byte
  /\ IF content[i + 1] = LF
     THEN /\ IF IsMessage(content) THEN \E text \in CStrings(content) : Receive(text) ELSE UNCHANGED cmdToParse
          /\ buffer' = [content EXCEPT ![0] = NUL]
          /\ loopPc' = "command"
     ELSE buffer' = content /\ UNCHANGED <<cmdToParse, loopPc>>

LEMMA NextByteFacts ==
  ASSUME TypeOK, nextByte
  PROVE  /\ InLine /\ sent' = sent /\ i' = i + 1 /\ i \in Nat /\ i + 1 < BufferSize
         /\ BufferSize \in Nat /\ i + 1 \in Positions /\ 0 \in Positions
         /\ port = <<>> => port' = port
         /\ port # <<>> => port' = Tail(port)
         /\ finished' = finished + EndsLine(Byte)
         /\ \E content : NextByteEffect(content)
<1>1. /\ InLine /\ sent' = sent /\ i' = i + 1 /\ i + 1 < BufferSize
      /\ port' = IF port = <<>> THEN port ELSE Tail(port)
      /\ finished' = finished + EndsLine(Byte)
  BY DEF nextByte, Byte, InLine
<1>2. BufferSize \in Nat /\ i + 1 \in Positions /\ 0 \in Positions /\ i \in Nat
  BY <1>1, SerialAssumption DEF TypeOK, SerialTypeOK, Positions
<1>3. PICK content \in Holds(Byte, i + 1) :
        IF content[i + 1] = LF
        THEN /\ IF IsMessage(content) THEN \E text \in CStrings(content) : Receive(text) ELSE UNCHANGED cmdToParse
             /\ buffer' = [content EXCEPT ![0] = NUL]
             /\ loopPc' = "command"
        ELSE buffer' = content /\ UNCHANGED <<cmdToParse, loopPc>>
  BY DEF nextByte, Byte
<1>4. buffer \in [Positions -> Bytes] /\ Byte \in Bytes \cup {PAUSE}
  <2>1. port # <<>> => Head(port) \in Bytes \cup {PAUSE}
    <3> HIDE DEF Bytes
    <3> QED BY HeadTailProperties DEF TypeOK, SerialTypeOK
  <2> QED BY <2>1 DEF TypeOK, SerialTypeOK, Byte
<1> HIDE DEF Positions, Bytes
<1>5. PICK b \in Bytes : content = [buffer EXCEPT ![i + 1] = b] /\ (Byte # PAUSE => b = Byte)
  <2>1. buffer[i + 1] \in Bytes /\ Leftovers \subseteq Bytes
    BY <1>2, <1>4, TurnAssumption
  <2> QED BY <1>3, <1>4, <2>1 DEF Holds
<1>6. /\ content \in [Positions -> Bytes]
      /\ \A p \in Positions : p # i + 1 => content[p] = buffer[p]
      /\ Byte # PAUSE => content[i + 1] = Byte
  BY <1>2, <1>4, <1>5
<1>7. NextByteEffect(content)
  BY <1>3, <1>6 DEF NextByteEffect
<1> QED BY <1>1, <1>2, <1>7

(* With nothing on the line, what is there is at best the LF that a call     *)
(* took for its first byte: no message.                                      *)
LEMMA NextOfNothing ==
  ASSUME TypeOK, LinesSaid, OnLine, Received, nextByte, port = <<>>
  PROVE  OnLine' /\ Received'
<1>1. /\ InLine /\ sent' = sent /\ i' = i + 1 /\ i \in Nat /\ i + 1 \in Positions /\ 0 \in Positions
      /\ port' = port /\ finished' = finished + EndsLine(Byte)
  BY NextByteFacts
<1>2. PICK content : NextByteEffect(content)
  BY NextByteFacts
<1>3. AtLine /\ buffer[0] = LF /\ finished \in DOMAIN sent /\ sent[finished].paused
  BY <1>1, NothingLeft DEF AtLine
<1>4. finished' = finished
  <2>1. finished' = finished + 0 /\ finished \in Nat
    BY <1>1, LinePlaces DEF EndsLine, Byte, PAUSE, LF
  <2> QED BY <2>1
<1>5. content[0] = LF
  <2>1. 0 # i + 1
    BY <1>1
  <2> QED BY <1>1, <1>2, <1>3, <2>1 DEF NextByteEffect
<1>6. ~IsMessage(content)
  BY <1>5 DEF IsMessage, LF, LT, DASH
<1>7. cmdToParse' = cmdToParse
  BY <1>2, <1>6 DEF NextByteEffect
<1>8. InLine' => buffer'[0] = LF
  BY <1>2, <1>5 DEF NextByteEffect, InLine
<1>9. AtLine'
  <2>1. PICK s, n : s = port /\ n = finished
    OBVIOUS
  <2>2. LinesFrom(s, n)'
    BY <1>1, <1>3, <2>1, LinesStay DEF AtLine
  <2>3. LinesFrom(port, finished)'
    BY <1>1, <1>4, <2>1, <2>2 DEF LinesFrom
  <2> QED BY <1>1, <1>3, <1>4, <1>8, <2>3 DEF AtLine
<1> QED BY <1>1, <1>7, <1>9, ReceivesNothing DEF OnLine
-----------------------------------------------------------------------------
(* The last byte of a line: if the line is safe, all of it is in the buffer. *)
LEMMA NextEndsLine ==
  ASSUME TypeOK, LinesSaid, Received, nextByte, Head(port) = LF,
         NEW head \in Signals, NEW rest \in Signals, Within(head, rest)
  PROVE  OnLine' /\ Received'
<1>1. /\ InLine /\ sent' = sent /\ i' = i + 1 /\ i \in Nat /\ i + 1 < BufferSize
      /\ BufferSize \in Nat /\ i + 1 \in Positions /\ 0 \in Positions
      /\ port # <<>> => port' = Tail(port)
      /\ finished' = finished + EndsLine(Byte)
  BY NextByteFacts
<1>2. PICK content : NextByteEffect(content)
  BY NextByteFacts
<1>3. port # <<>> /\ Len(head) \in Nat /\ Len(head) = 1 /\ head[1] = LF
      /\ Len(Tail(head)) = Len(head) - 1
      /\ \A k \in 1..Len(Tail(head)) : Tail(head)[k] = head[k + 1]
  BY TakeOne DEF Within
<1>4. port' = Tail(port) /\ Byte = LF /\ finished' = finished + 1
  BY <1>1, <1>3 DEF Byte, EndsLine
<1>5. content[i + 1] = LF /\ content \in [Positions -> Bytes]
  BY <1>2, <1>4 DEF NextByteEffect, LF, PAUSE
<1>6. loopPc' = "command" /\ ((\E string \in CStrings(content) : Receive(string)) \/ UNCHANGED cmdToParse)
  BY <1>2, <1>5 DEF NextByteEffect
<1>7. AtLine'
  <2>1. ~InLine'
    BY <1>6 DEF InLine
  <2> QED BY <1>1, <1>4, <2>1, LineOver
<1>8. Current \in DOMAIN sent
  BY DEF Within
<1>9. PICK told : told = sent[Current]
  OBVIOUS
<1>10. /\ told.text \in Text /\ Len(told.text) \in Nat /\ Len(told.text) >= 2
       /\ told.safe => ~told.paused
       /\ \A k \in 1..Len(told.text) : told.text[k] # NUL
  BY <1>8, <1>9, SaidLine
<1>11. ASSUME told.safe, NEW string \in CStrings(content) PROVE Seqs!IsPrefix(told.text, string)
  <2>1. PICK j \in 0..(Len(told.text) - 1) :
          /\ Left(head, told.text, j)
          /\ j > 0 /\ i = j - 1 /\ \A k \in 1..j : buffer[k - 1] = told.text[k]
    BY <1>1, <1>9, <1>10, <1>11 DEF Within, Reads
  <2>2. Len(head) = Len(told.text) - j /\ head[1] = told.text[j + 1]
    <3>1. j \in Nat /\ j < Len(told.text) /\ Len(head) >= 1
      BY <1>3, <1>10, <2>1
    <3>2. head[1] # PAUSE
      BY <1>3 DEF LF, PAUSE
    <3> QED BY <1>3, <1>10, <2>1, <3>1, <3>2, LeftAfter
  <2>3. j \in Nat /\ j = i + 1 /\ Len(told.text) = i + 2
    <3>1. \A n, l, m \in Nat : n \in 0..(l - 1) /\ m = n - 1 /\ 1 = l - n => n = m + 1 /\ l = m + 2
      OBVIOUS
    <3>2. j \in Nat
      BY <1>3, <1>10, <2>1
    <3>3. 1 = Len(told.text) - j
      BY <1>3, <2>2
    <3> QED BY <3>3, <1>1, <1>10, <2>1, <3>1, <3>2
  <2>4. ASSUME NEW k \in 1..Len(told.text) PROVE content[k - 1] = told.text[k]
    <3>1. CASE k = i + 2
      <4>1. k - 1 = i + 1 /\ k = j + 1
        BY <1>1, <2>3, <3>1
      <4> QED BY <1>3, <1>5, <2>2, <4>1
    <3>2. CASE k # i + 2
      <4>1. \A n, m \in Nat : n \in 1..(m + 2) /\ n # m + 2 =>
              n \in 1..(m + 1) /\ n - 1 \in Nat /\ n - 1 # m + 1 /\ n - 1 < m + 1
        OBVIOUS
      <4>2. k \in Nat
        OBVIOUS
      <4>3. k \in 1..j /\ k - 1 \in Nat /\ k - 1 # i + 1 /\ k - 1 < i + 1
        BY <1>1, <2>3, <3>2, <4>1, <4>2
      <4>4. k - 1 \in Positions
        BY <1>1, <4>3 DEF Positions
      <4> QED BY <1>2, <2>1, <4>3, <4>4 DEF NextByteEffect
    <3> QED BY <3>1, <3>2
  <2>5. Len(told.text) <= BufferSize
    BY <1>1, <2>3
  <2> QED BY <1>5, <1>10, <2>4, <2>5, BufferHolds
<1>12. Received'
  <2>1. ASSUME NEW string \in CStrings(content), Receive(string) PROVE Received'
    <3>1. string \in Text
      BY <1>5, CStringsType
    <3> QED BY <1>1, <1>8, <1>9, <1>11, <2>1, <3>1, ReceivesOne
  <2>2. CASE UNCHANGED cmdToParse
    BY <1>1, <2>2, ReceivesNothing
  <2> QED BY <1>6, <2>1, <2>2
<1> QED BY <1>7, <1>12 DEF OnLine

(* A byte before it, or a pause.                                             *)
LEMMA NextInLine ==
  ASSUME TypeOK, LinesSaid, Received, nextByte, Head(port) # LF,
         NEW head \in Signals, NEW rest \in Signals, Within(head, rest)
  PROVE  OnLine' /\ Received'
<1>1. /\ InLine /\ sent' = sent /\ i' = i + 1 /\ i \in Nat /\ i + 1 < BufferSize
      /\ BufferSize \in Nat /\ i + 1 \in Positions /\ 0 \in Positions
      /\ port # <<>> => port' = Tail(port)
      /\ finished' = finished + EndsLine(Byte)
  BY NextByteFacts
<1>2. PICK content : NextByteEffect(content)
  BY NextByteFacts
<1>3. /\ port # <<>> /\ Len(head) \in Nat /\ Len(head) >= 2 /\ head[1] = Head(port)
      /\ Tail(head) \in Signals /\ Len(Tail(head)) = Len(head) - 1
      /\ \A k \in 1..Len(Tail(head)) : Tail(head)[k] = head[k + 1]
  BY TakeOne DEF Within
<1>4. port' = Tail(port) /\ Byte = head[1] /\ finished' = finished
  <2>1. finished' = finished + 0 /\ finished \in Nat
    BY <1>1, <1>3, LinePlaces DEF Byte, EndsLine
  <2> QED BY <1>1, <1>3, <2>1 DEF Byte
<1>5. Current \in DOMAIN sent
  BY DEF Within
<1>6. PICK told : told = sent[Current]
  OBVIOUS
<1>7. /\ told.text \in Text /\ Len(told.text) \in Nat /\ Len(told.text) >= 2
      /\ told.safe => ~told.paused
  BY <1>5, <1>6, SaidLine
<1>8. ~told.paused =>
        \E j \in 0..(Len(told.text) - 1) :
          /\ Left(head, told.text, j)
          /\ told.safe => j > 0 /\ i = j - 1 /\ \A k \in 1..j : buffer[k - 1] = told.text[k]
  BY <1>1, <1>6 DEF Within, Reads
<1>9. CASE head[1] = PAUSE
  <2>1. ASSUME ~told.paused PROVE ~told.safe /\ Left(Tail(head), told.text, 0)
    <3>1. PICK j \in 0..(Len(told.text) - 1) : Left(head, told.text, j) /\ (told.safe => j > 0)
      BY <1>8, <2>1
    <3>2. j \in Nat /\ j < Len(told.text) /\ Len(head) >= 1
      BY <1>3, <1>7, <3>1
    <3>3. j = 0 /\ Left(Tail(head), told.text, 0)
      BY <1>3, <1>7, <1>9, <3>1, <3>2, LeftAfter
    <3> QED BY <3>1, <3>3
  <2>2. ~told.safe
    BY <1>7, <2>1
  <2>3. ASSUME ~told.paused PROVE Reads(Tail(head), told)'
    <3>1. 0 \in 0..(Len(told.text) - 1) /\ ~(0 > 0)
      BY <1>7
    <3> QED BY <2>1, <2>2, <2>3, <3>1 DEF Reads
  <2>4. Within(Tail(head), rest)'
    BY <1>1, <1>4, <1>6, <2>3, LineContinues
  <2>5. Received'
    <3>1. ASSUME NEW string \in CStrings(content), Receive(string) PROVE Received'
      <4>1. string \in Text
        BY <1>2, CStringsType DEF NextByteEffect
      <4> QED BY <1>1, <1>5, <1>6, <2>2, <3>1, <4>1, ReceivesOne
    <3>2. CASE UNCHANGED cmdToParse
      BY <1>1, <3>2, ReceivesNothing
    <3> QED BY <1>2, <3>1, <3>2 DEF NextByteEffect
  <2> QED BY <1>3, <2>4, <2>5 DEF OnLine
<1>10. CASE head[1] # PAUSE
  <2>1. /\ content[i + 1] = head[1] /\ head[1] # LF
        /\ buffer' = content /\ cmdToParse' = cmdToParse /\ loopPc' = loopPc
    BY <1>2, <1>3, <1>4, <1>10 DEF NextByteEffect
  <2>2. ASSUME ~told.paused PROVE Reads(Tail(head), told)'
    <3>1. PICK j \in 0..(Len(told.text) - 1) :
            /\ Left(head, told.text, j)
            /\ told.safe => j > 0 /\ i = j - 1 /\ \A k \in 1..j : buffer[k - 1] = told.text[k]
      BY <1>8, <2>2
    <3>2. /\ Left(Tail(head), told.text, j + 1) /\ Len(head) = Len(told.text) - j
          /\ head[1] = told.text[j + 1]
      <4>1. j \in Nat /\ j < Len(told.text) /\ Len(head) >= 1
        BY <1>3, <1>7, <3>1
      <4> QED BY <1>3, <1>7, <1>10, <3>1, <4>1, LeftAfter
    <3>3. j + 1 \in 0..(Len(told.text) - 1) /\ j + 1 > 0 /\ (j + 1) - 1 = j
      <4>1. \A n, l, h \in Nat : h >= 2 /\ h = l - n => n + 1 \in 0..(l - 1) /\ n + 1 > 0 /\ (n + 1) - 1 = n
        OBVIOUS
      <4> QED BY <1>3, <1>7, <3>2, <4>1
    <3>4. InLine'
      BY <1>1, <2>1 DEF InLine
    <3>5. ASSUME told.safe
          PROVE  i' = (j + 1) - 1 /\ \A k \in 1..(j + 1) : content[k - 1] = told.text[k]
      <4>1. j = i + 1
        BY <1>1, <3>1, <3>5
      <4>2. ASSUME NEW k \in 1..(j + 1) PROVE content[k - 1] = told.text[k]
        <5>1. CASE k = j + 1
          <6>1. k - 1 = i + 1
            BY <1>1, <4>1, <5>1
          <6> QED BY <2>1, <3>2, <5>1, <6>1
        <5>2. CASE k # j + 1
          <6>1. k \in 1..j /\ k - 1 \in Nat /\ k - 1 # i + 1 /\ k - 1 < i + 1
            BY <1>1, <4>1, <5>2
          <6>2. k - 1 \in Positions
            BY <1>1, <6>1 DEF Positions
          <6> QED BY <1>2, <3>1, <3>5, <6>1, <6>2 DEF NextByteEffect
        <5> QED BY <5>1, <5>2
      <4> QED BY <1>1, <3>3, <4>1, <4>2
    <3> QED BY <2>1, <3>2, <3>3, <3>4, <3>5 DEF Reads
  <2>3. Within(Tail(head), rest)'
    BY <1>1, <1>4, <1>6, <2>2, LineContinues
  <2>4. Received'
    BY <1>1, <2>1, ReceivesNothing
  <2> QED BY <1>3, <2>3, <2>4 DEF OnLine
<1> QED BY <1>9, <1>10
-----------------------------------------------------------------------------
LEMMA PrintedLine ==
  ASSUME NEW format \in Formats, NEW number \in Contents, NEW printed, printed = Append(TextOf(format, number), LF)
  PROVE  /\ printed \in Text /\ Len(printed) \in Nat /\ Len(printed) >= 2 /\ Ends(printed)
         /\ \A k \in 1..Len(printed) : printed[k] # NUL
<1> DEFINE text == TextOf(format, number)
<1>1. text \in Text
  BY TextOfType
<1>2. Len(text) \in Nat /\ Len(text) >= 1 /\ \A k \in 1..Len(text) : text[k] # LF /\ text[k] # NUL
  <2>1. format \in {"old", "new", "boot"}
    BY InboundAssumption
  <2>2. 48 + number # LF /\ 48 + number # NUL
    BY InboundAssumption DEF LF, NUL
  <2>3. CASE format = "old"
    <3>1. text = <<LT, 48 + number, GT>>
      BY <2>3 DEF TextOf
    <3>2. Len(text) = 3 /\ text[1] = LT /\ text[2] = 48 + number /\ text[3] = GT
      BY <3>1
    <3>3. \A k \in 1..3 : k = 1 \/ k = 2 \/ k = 3
      OBVIOUS
    <3> HIDE DEF text
    <3>4. \A k \in 1..3 : text[k] # LF /\ text[k] # NUL
      BY <2>2, <3>2, <3>3 DEF LT, GT, LF, NUL
    <3> QED BY <3>2, <3>4
  <2>4. CASE format = "new"
    <3>1. text = <<DASH, GT, SPACE, 48 + number>>
      BY <2>4 DEF TextOf
    <3>2. Len(text) = 4 /\ text[1] = DASH /\ text[2] = GT /\ text[3] = SPACE /\ text[4] = 48 + number
      BY <3>1
    <3>3. \A k \in 1..4 : k = 1 \/ k = 2 \/ k = 3 \/ k = 4
      OBVIOUS
    <3> HIDE DEF text
    <3>4. \A k \in 1..4 : text[k] # LF /\ text[k] # NUL
      BY <2>2, <3>2, <3>3 DEF DASH, SPACE, GT, LF, NUL
    <3> QED BY <3>2, <3>4
  <2>5. CASE format = "boot"
    <3>1. text = <<48 + number>>
      BY <2>5 DEF TextOf
    <3>2. Len(text) = 1 /\ text[1] = 48 + number
      BY <3>1
    <3>3. \A k \in 1..1 : k = 1
      OBVIOUS
    <3> HIDE DEF text
    <3>4. \A k \in 1..1 : text[k] # LF /\ text[k] # NUL
      BY <2>2, <3>2, <3>3
    <3> QED BY <3>2, <3>4
  <2> QED BY <2>1, <2>3, <2>4, <2>5
<1> HIDE DEF text
<1>3. LF \in Bytes
  BY DEF LF, Bytes
<1>4. /\ printed \in Text /\ Len(printed) = Len(text) + 1
      /\ \A k \in 1..Len(text) : printed[k] = text[k]
      /\ printed[Len(text) + 1] = LF
  <2>1. printed = Append(text, LF)
    BY DEF text
  <2> HIDE DEF Bytes
  <2> QED BY <1>1, <1>3, <2>1, AppendProperties DEF Text
<1>5. ASSUME NEW k \in 1..Len(printed)
      PROVE  printed[k] # NUL /\ (printed[k] = LF <=> k = Len(printed))
  <2>1. CASE k = Len(text) + 1
    BY <1>2, <1>4, <2>1 DEF LF, NUL
  <2>2. CASE k # Len(text) + 1
    <3>1. \A n \in Nat : \A p \in 1..(n + 1) : p # n + 1 => p \in 1..n
      OBVIOUS
    <3>2. k \in 1..Len(text)
      BY <1>2, <1>4, <2>2, <3>1
    <3> QED BY <1>2, <1>4, <2>2, <3>2
  <2> QED BY <2>1, <2>2
<1>6. Len(printed) \in Nat /\ Len(printed) >= 2 /\ Len(printed) >= 1
  BY <1>2, <1>4
<1> QED BY <1>4, <1>5, <1>6 DEF Ends

(* A pause in a line does not end it.                                        *)
LEMMA PausedLine ==
  ASSUME NEW printed \in Text, Ends(printed), NEW at \in Nat, at <= Len(printed)
  PROVE  /\ Paused(printed, at) \in Signals /\ Ends(Paused(printed, at))
         /\ at <= 1 => Paused(printed, at) = printed \/ Paused(printed, at) = <<PAUSE>> \o printed
<1>0. printed \in Seq(Symbols) /\ Len(printed) \in Nat /\ Len(printed) >= 1 /\ PAUSE \in Symbols
  BY SeqMonotonic DEF Text, Symbols, Ends
<1>1. CASE at = 0
  BY <1>0, <1>1 DEF Paused, Signals
<1>2. CASE at # 0
  <2> DEFINE before == SubSeq(printed, 1, at - 1)
             after == SubSeq(printed, at, Len(printed))
             pause == <<PAUSE>>
             code == (before \o pause) \o after
  <2>1. at - 1 \in Int /\ at \in Int /\ at - 1 \in Nat /\ 1 \in Int /\ Len(printed) \in Int
    BY <1>0, <1>2
  <2> HIDE DEF Symbols
  <2>2. \A k \in 1..Len(printed) : printed[k] \in Symbols
    BY <1>0, ElementOfSeq
  <2>3. /\ before \in Seq(Symbols) /\ Len(before) = at - 1
        /\ \A k \in 1..(at - 1) : before[k] = printed[k]
    <3>1. \A k \in 1..(at - 1) : k \in 1..Len(printed)
      BY <1>0, <2>1
    <3>2. /\ before \in Seq(Symbols) /\ Len(before) = IF 1 <= at - 1 THEN (at - 1) - 1 + 1 ELSE 0
          /\ \A k \in 1..((at - 1) - 1 + 1) : before[k] = printed[1 + k - 1]
      BY <2>1, <2>2, <3>1, SubSeqProperties
    <3>3. \A n \in Nat : (IF 1 <= n THEN n - 1 + 1 ELSE 0) = n /\ n - 1 + 1 = n /\ 1 + n - 1 = n
      OBVIOUS
    <3>4. \A k \in 1..(at - 1) : k \in Nat
      OBVIOUS
    <3> HIDE DEF before
    <3> QED BY <2>1, <3>2, <3>3, <3>4
  <2>4. /\ after \in Seq(Symbols) /\ Len(after) = Len(printed) - at + 1
        /\ \A k \in 1..(Len(printed) - at + 1) : after[k] = printed[at + k - 1]
    <3>1. \A k \in at..Len(printed) : k \in 1..Len(printed)
      BY <1>0, <1>2
    <3>2. /\ after \in Seq(Symbols)
          /\ Len(after) = IF at <= Len(printed) THEN Len(printed) - at + 1 ELSE 0
          /\ \A k \in 1..(Len(printed) - at + 1) : after[k] = printed[at + k - 1]
      BY <2>1, <2>2, <3>1, SubSeqProperties
    <3> HIDE DEF after
    <3> QED BY <3>2
  <2>5. pause \in Seq(Symbols) /\ Len(pause) = 1 /\ pause[1] = PAUSE
    BY <1>0
  <2> HIDE DEF before, after, pause
  <2>6. /\ before \o pause \in Seq(Symbols) /\ Len(before \o pause) = at
        /\ \A k \in 1..at : (before \o pause)[k] = IF k <= at - 1 THEN before[k] ELSE pause[k - (at - 1)]
    <3>1. Len(before) + Len(pause) = at
      BY <2>1, <2>3, <2>5
    <3>2. /\ before \o pause \in Seq(Symbols) /\ Len(before \o pause) = Len(before) + Len(pause)
          /\ \A k \in 1..(Len(before) + Len(pause)) :
               (before \o pause)[k] = IF k <= Len(before) THEN before[k] ELSE pause[k - Len(before)]
      BY <2>3, <2>5, ConcatProperties
    <3> QED BY <2>3, <3>1, <3>2
  <2> DEFINE first == before \o pause
  <2> HIDE DEF first
  <2>7. /\ code \in Seq(Symbols) /\ Len(code) = Len(printed) + 1
        /\ \A k \in 1..(Len(printed) + 1) : code[k] = IF k <= at THEN first[k] ELSE after[k - at]
    <3>1. first \in Seq(Symbols) /\ Len(first) = at
      BY <2>6 DEF first
    <3>2. Len(first) + Len(after) = Len(printed) + 1
      BY <1>0, <2>4, <3>1
    <3>3. code = first \o after
      BY DEF first
    <3> HIDE DEF code
    <3>4. /\ code \in Seq(Symbols) /\ Len(code) = Len(first) + Len(after)
          /\ \A k \in 1..(Len(first) + Len(after)) :
               code[k] = IF k <= Len(first) THEN first[k] ELSE after[k - Len(first)]
      BY <2>4, <3>1, <3>3, ConcatProperties
    <3> QED BY <3>1, <3>2, <3>4
  <2>8. ASSUME NEW k \in 1..Len(code) PROVE code[k] = LF <=> k = Len(code)
    <3>1. k \in Nat /\ k \in 1..(Len(printed) + 1)
      BY <2>7
    <3>2. CASE k < at
      <4>1. k <= at /\ k <= at - 1 /\ k \in 1..at /\ k \in 1..(at - 1) /\ k \in 1..Len(printed)
            /\ k # Len(printed) /\ k # Len(printed) + 1
        BY <1>0, <3>1, <3>2
      <4>2. code[k] = printed[k]
        BY <2>3, <2>6, <2>7, <3>1, <4>1 DEF first
      <4> QED BY <2>7, <4>1, <4>2 DEF Ends
    <3>3. CASE k = at
      <4>1. k <= at /\ ~(k <= at - 1) /\ k \in 1..at /\ k - (at - 1) = 1 /\ k # Len(printed) + 1
        BY <1>0, <3>1, <3>3
      <4>2. code[k] = PAUSE
        BY <2>5, <2>6, <2>7, <3>1, <4>1 DEF first
      <4> QED BY <2>7, <4>1, <4>2 DEF PAUSE, LF
    <3>4. CASE k > at
      <4>1. ~(k <= at) /\ k - at \in 1..(Len(printed) - at + 1) /\ at + (k - at) - 1 = k - 1
            /\ k - 1 \in 1..Len(printed) /\ (k - 1 = Len(printed) <=> k = Len(printed) + 1)
        BY <1>0, <1>2, <3>1, <3>4
      <4>2. code[k] = printed[k - 1]
        BY <2>4, <2>7, <3>1, <4>1
      <4> QED BY <2>7, <4>1, <4>2 DEF Ends
    <3> QED BY <3>1, <3>2, <3>3, <3>4
  <2>9. Paused(printed, at) = code
    BY <1>2 DEF Paused, before, after, pause
  <2>10. ASSUME at <= 1 PROVE code = <<PAUSE>> \o printed
    <3>1. at = 1 /\ Len(before) = 0
      BY <1>2, <2>3, <2>10
    <3>2. before = <<>>
      BY <2>3, <3>1, EmptySeq
    <3>3. after = printed
      BY <1>0, <3>1, SubSeqFull DEF after
    <3>4. <<>> \o pause = pause
      BY <2>5, ConcatEmptySeq
    <3> QED BY <3>2, <3>3, <3>4 DEF pause
  <2>11. Len(code) >= 1
    BY <1>0, <2>7
  <2> HIDE DEF code
  <2> QED BY <2>7, <2>8, <2>9, <2>10, <2>11 DEF Ends, Signals
<1> QED BY <1>1, <1>2
-----------------------------------------------------------------------------
LEMMA OneMoreSaid ==
  ASSUME TypeOK, NEW told \in SentMessage, sent' = Append(sent, told)
  PROVE  /\ Len(sent) \in Nat /\ Len(sent') = Len(sent) + 1
         /\ DOMAIN sent = 1..Len(sent) /\ DOMAIN sent' = 1..(Len(sent) + 1)
         /\ \A k \in DOMAIN sent : k \in DOMAIN sent' /\ sent'[k] = sent[k]
         /\ sent'[Len(sent) + 1] = told
         /\ \A k \in DOMAIN sent' : k \in DOMAIN sent \/ k = Len(sent) + 1
<1>1. sent \in Seq(SentMessage)
  BY DEF TypeOK
<1> HIDE DEF SentMessage
<1>2. /\ sent' \in Seq(SentMessage) /\ Len(sent') = Len(sent) + 1 /\ Len(sent) \in Nat
      /\ \A k \in 1..Len(sent) : sent'[k] = sent[k]
      /\ sent'[Len(sent) + 1] = told
  BY <1>1, AppendProperties
<1>3. DOMAIN sent = 1..Len(sent) /\ DOMAIN sent' = 1..(Len(sent) + 1)
  BY <1>1, <1>2, LenProperties
<1>4. \A n \in Nat : \A k \in 1..(n + 1) : k \in 1..n \/ k = n + 1
  OBVIOUS
<1>5. \A n \in Nat : \A k \in 1..n : k \in 1..(n + 1)
  OBVIOUS
<1> QED BY <1>2, <1>3, <1>4, <1>5

LEMMA LinesGrow ==
  ASSUME TypeOK, NEW told \in SentMessage, sent' = Append(sent, told),
         NEW code \in Signals, Ends(code),
         ~told.paused => code = told.text \/ code = <<PAUSE>> \o told.text,
         NEW s \in Signals, NEW n \in Nat, LinesFrom(s, n)
  PROVE  LinesFrom(s \o code, n)'
<1>1. PICK last \in Nat : last = Len(sent)
  BY OneMoreSaid
<1>2. PICK M \in SUBSET Piece : M = LinePieces
  BY LinePiecesType
<1>3. PICK M2 \in SUBSET Piece : M2 = LinePieces'
  <2>1. LinePieces' \in SUBSET Piece
    BY DEF LinePieces
  <2> QED BY <2>1
<1>4. /\ Len(sent') = last + 1 /\ sent'[last + 1] = told
      /\ \A k \in 1..last : k \in 1..(last + 1) /\ sent'[k] = sent[k]
  BY <1>1, OneMoreSaid
<1>5. M \subseteq M2
  BY <1>1, <1>2, <1>3, <1>4 DEF LinePieces, IsLineOf
<1> DEFINE move == [from |-> <<last, <<>>>>, code |-> code, to |-> <<last + 1, <<>>>>]
<1>6. /\ <<last, <<>>>> \in Place /\ <<last + 1, <<>>>> \in Place /\ <<n, <<>>>> \in Place
      /\ move.from = <<last, <<>>>> /\ move.to = <<last + 1, <<>>>> /\ move.code = code
  BY LinePlaces
<1>7. move \in M2
  <2>1. move \in Piece
    BY <1>6 DEF Piece
  <2>2. IsLineOf(code, last + 1)'
    BY <1>4 DEF IsLineOf
  <2>3. last + 1 \in 1..(last + 1) /\ (last + 1) - 1 = last
    OBVIOUS
  <2>4. \E k \in 1..Len(sent') : move.from = <<k - 1, <<>>>> /\ move.to = <<k, <<>>>> /\ IsLineOf(move.code, k)'
    BY <1>4, <1>6, <2>2, <2>3
  <2> HIDE DEF move
  <2> QED BY <1>3, <2>1, <2>4 DEF LinePieces, IsLineOf
<1> HIDE DEF move
<1>8. Path(M, s, <<n, <<>>>>, <<last, <<>>>>)
  BY <1>1, <1>2 DEF LinesFrom
<1>9. Path(M2, s, <<n, <<>>>>, <<last, <<>>>>)
  BY <1>5, <1>8, PathMore
<1>10. Path(M2, s \o code, <<n, <<>>>>, <<last + 1, <<>>>>)
  BY <1>6, <1>7, <1>9, PathAppend
<1> QED BY <1>3, <1>4, <1>10 DEF LinesFrom

LEMMA PrintStep ==
  ASSUME TypeOK, LinesSaid, OnLine, Received, stationPrints
  PROVE  LinesSaid' /\ OnLine' /\ Received'
<1>1. PICK format \in Formats, number \in Contents, at \in Pauses :
        LET printed == Append(TextOf(format, number), LF)
        IN  /\ Len(sent) < MaxSent /\ at <= Len(printed)
            /\ print(printed, at)
            /\ sent' = Append(sent, [text |-> printed, safe |-> SafeLine(format, at), paused |-> at > 1])
            /\ UNCHANGED <<loopPc, cmdToParse, finished>>
  BY DEF stationPrints
<1>2. PICK printed : printed = Append(TextOf(format, number), LF)
  OBVIOUS
<1>3. at \in Nat /\ Len(sent) \in Nat
  BY <1>1, InboundAssumption, LinePlaces
<1>4. /\ printed \in Text /\ Len(printed) \in Nat /\ Len(printed) >= 2 /\ Ends(printed)
      /\ \A k \in 1..Len(printed) : printed[k] # NUL
  BY <1>2, <1>3, PrintedLine
<1>5. PICK told : told = [text |-> printed, safe |-> SafeLine(format, at), paused |-> at > 1]
  OBVIOUS
<1>6. /\ told \in SentMessage /\ told.text = printed
      /\ told.paused <=> at > 1
      /\ told.safe <=> SafeLine(format, at)
  <2>1. PICK safe \in BOOLEAN, paused \in BOOLEAN :
          (safe <=> SafeLine(format, at)) /\ (paused <=> at > 1)
          /\ told = [text |-> printed, safe |-> safe, paused |-> paused]
    <3>1. SafeLine(format, at) \in BOOLEAN /\ (at > 1) \in BOOLEAN
      BY DEF SafeLine
    <3> QED BY <1>5, <3>1, Zenon
  <2> QED BY <1>4, <2>1 DEF SentMessage
<1>7. sent' = Append(sent, told) /\ print(printed, at) /\ at <= Len(printed)
      /\ UNCHANGED <<loopPc, cmdToParse, finished>>
  BY <1>1, <1>2, <1>5
<1>8. PICK code \in Signals :
        /\ code = Paused(printed, at) /\ Ends(code)
        /\ at <= 1 => code = printed \/ code = <<PAUSE>> \o printed
  BY <1>3, <1>4, <1>7, PausedLine
<1>9. port' = port \o code /\ buffer' = buffer /\ i' = i
  BY <1>7, <1>8 DEF print
<1>10. /\ Len(sent') = Len(sent) + 1
       /\ DOMAIN sent = 1..Len(sent)
       /\ \A k \in DOMAIN sent : k \in DOMAIN sent' /\ sent'[k] = sent[k]
       /\ sent'[Len(sent) + 1] = told
       /\ \A k \in DOMAIN sent' : k \in DOMAIN sent \/ k = Len(sent) + 1
  BY <1>6, <1>7, OneMoreSaid
<1>11. ASSUME NEW s \in Signals, NEW n \in Nat, LinesFrom(s, n)
       PROVE  LinesFrom(s \o code, n)'
  <2>1. ~told.paused => at <= 1
    BY <1>3, <1>6
  <2> QED BY <1>6, <1>7, <1>8, <1>11, <2>1, LinesGrow
<1>12. LinesSaid'
  <2>1. SafeLine(format, at) => at < 2 /\ (sent # <<>> => ~sent[Len(sent)].paused)
    BY DEF SafeLine, Seqs!Last
  <2>2. ASSUME NEW n \in DOMAIN sent'
        PROVE  /\ Ends(sent'[n].text) /\ Len(sent'[n].text) >= 2
               /\ \A k \in 1..Len(sent'[n].text) : sent'[n].text[k] # NUL
               /\ sent'[n].safe => ~sent'[n].paused /\ (n > 1 => ~sent'[n - 1].paused)
    <3>1. CASE n \in DOMAIN sent
      <4>1. n > 1 => n - 1 \in DOMAIN sent
        BY <1>3, <1>10, <3>1
      <4>2. sent'[n] = sent[n] /\ (n > 1 => sent'[n - 1] = sent[n - 1])
        BY <1>10, <3>1, <4>1
      <4> QED BY <3>1, <4>2 DEF LinesSaid
    <3>2. CASE n = Len(sent) + 1
      <4>1. sent'[n] = told
        BY <1>10, <3>2
      <4>2. told.safe => ~told.paused /\ (sent # <<>> => ~sent[Len(sent)].paused)
        BY <1>3, <1>6, <2>1
      <4>3. n > 1 => n - 1 = Len(sent) /\ Len(sent) \in DOMAIN sent /\ sent # <<>>
        <5>1. n > 1 => n - 1 = Len(sent) /\ Len(sent) \in 1..Len(sent)
          BY <1>3, <3>2
        <5>2. Len(sent) \in DOMAIN sent => sent # <<>>
          OBVIOUS
        <5> QED BY <1>10, <5>1, <5>2
      <4>4. told.safe /\ n > 1 => ~sent'[n - 1].paused
        BY <1>10, <4>2, <4>3
      <4> QED BY <1>4, <1>6, <4>1, <4>2, <4>4
    <3> QED BY <1>10, <3>1, <3>2
  <2> QED BY <2>2, Zenon DEF LinesSaid, Ends
<1>13. OnLine'
  <2>1. CASE AtLine
    <3>1. PICK s \in Signals, n \in Nat : s = port /\ n = finished
      BY LinePlaces
    <3>2. LinesFrom(s \o code, n)'
      BY <1>11, <2>1, <3>1 DEF AtLine
    <3>3. LinesFrom(port, finished)'
      BY <1>7, <1>9, <3>1, <3>2 DEF LinesFrom
    <3>4. InLine' => finished' \in DOMAIN sent' /\ sent'[finished'].paused /\ buffer'[0] = LF
      BY <1>7, <1>9, <1>10, <2>1 DEF AtLine, InLine
    <3> QED BY <3>3, <3>4 DEF OnLine, AtLine
  <2>2. CASE ~AtLine
    <3>1. PICK head \in Signals, rest \in Signals : Within(head, rest)
      BY <2>2 DEF OnLine
    <3>2. port' = head \o (rest \o code) /\ rest \o code \in Signals
      BY <1>9, <3>1, ConcatThree, ConcatSignals DEF Within
    <3>3. PICK n \in Nat : n = Current
      BY LinePlaces
    <3>4. LinesFrom(rest \o code, n)'
      BY <1>11, <3>1, <3>3 DEF Within
    <3>5. Current' = Current /\ LinesFrom(rest \o code, Current)'
      BY <1>7, <3>3, <3>4 DEF LinesFrom, Current
    <3>6. Current \in DOMAIN sent' /\ sent'[Current] = sent[Current]
      BY <1>10, <3>1 DEF Within
    <3>7. PICK line_ : line_ = sent[Current]
      OBVIOUS
    <3>8. ~line_.paused => Reads(head, line_)'
      BY <1>7, <1>9, <3>1, <3>7 DEF Within, Reads, InLine, Left
    <3>9. ~sent'[Current'].paused => Reads(head, sent[Current])'
      BY <3>5, <3>6, <3>7, <3>8 DEF Reads
    <3>10. Within(head, rest \o code)'
      BY <3>1, <3>2, <3>5, <3>6, <3>9 DEF Within, Ends
    <3> QED BY <3>2, <3>10 DEF OnLine
  <2> QED BY <2>1, <2>2
<1>14. Received'
  BY <1>7, <1>10 DEF Received, Arrived
<1> QED BY <1>12, <1>13, <1>14
-----------------------------------------------------------------------------
(* The frames of the station, by what they do where dispatch is: a place is  *)
(* how many messages it has finished and what it has of the next.            *)
DataOps == {TEXT_FRAME, BINARY_FRAME, CONTINUATION}
ControlPiece(piece) ==
  /\ piece.from = piece.to
  /\ \/ piece.code = BadFrame
     \/ \E op \in {CLOSE, PING, PONG, 3}, data \in Short : Carries(piece.code, 1, op, data)
MessagePiece(piece, n, kept, data, op) ==
  /\ piece.from = <<n - 1, kept>>
  /\ \/ piece.to = <<n - 1, kept \o data>> /\ Carries(piece.code, 0, op, data)
     \/ /\ piece.to = <<n, <<>>>> /\ Carries(piece.code, 1, op, data)
        /\ kept \o data = sent[n].text
FramePieces ==
  {piece \in Piece :
     \/ ControlPiece(piece)
     \/ \E n \in 1..Len(sent), kept \in Text, data \in Short, op \in DataOps :
          MessagePiece(piece, n, kept, data, op)}
FramesFrom(s, place) == Path(FramePieces, s, place, <<Len(sent), <<>>>>)

(* What the driver has of the wire and what it has not: what is left of the  *)
(* answer, and the frames from the place dispatch is at.                     *)
Ahead(answer, s) ==
  /\ Len(answer) = unread /\ rxbuf \o wire = answer \o s
  /\ FramesFrom(s, <<finished, receivedData>>)
WifiInv ==
  /\ handshake = "connect" =>
       wire = <<>> /\ sent = <<>> /\ finished = 0 /\ receivedData = <<>> /\ unread = 0
  /\ handshake # "done" => rxbuf = <<>>
  /\ ~broken /\ handshake # "refused" => \E answer, s \in Signals : Ahead(answer, s)

LEMMA FramePiecesType == FramePieces \in SUBSET Piece
BY DEF FramePieces

LEMMA FramesStay ==
  ASSUME sent' = sent, NEW s, NEW place, FramesFrom(s, place)
  PROVE  FramesFrom(s, place)'
<1>1. FramePieces' = FramePieces
  BY DEF FramePieces, MessagePiece
<1> QED BY <1>1 DEF FramesFrom

LEMMA WirePlaces ==
  ASSUME TypeOK
  PROVE  /\ <<finished, receivedData>> \in Place /\ <<Len(sent), <<>>>> \in Place
         /\ finished \in Nat /\ receivedData \in Text /\ Len(sent) \in Nat
         /\ \A n \in Nat, kept \in Text : <<n, kept>> \in Place
         /\ <<>> \in Text /\ WsTypeOK /\ rxbuf \in Signals /\ wire \in Signals
         /\ \A t \in Text : t \in Signals
<1>1. /\ finished \in Nat /\ receivedData \in Text /\ rxbuf \in Text /\ wire \in Text /\ WsTypeOK
      /\ <<>> \in Text
  BY DEF TypeOK, WsTypeOK, Text
<1>2. \A t \in Text : t \in Signals
  BY SeqMonotonic DEF Text, Signals, Symbols
<1>3. Len(sent) \in Nat
  BY LinePlaces
<1> QED BY <1>1, <1>2, <1>3 DEF Place

(* The frame that dispatch has before it.                                    *)
LEMMA FirstFrame ==
  ASSUME TypeOK, WifiInv, handshake = "done", ~broken, unread = 0, HasFrame
  PROVE  \E piece \in FramePieces, rest \in Signals :
           /\ rxbuf \o wire = piece.code \o rest /\ <<finished, receivedData>> = piece.from
           /\ Path(FramePieces, rest, piece.to, <<Len(sent), <<>>>>)
<1>1. PICK answer \in Signals, s \in Signals : Ahead(answer, s)
  BY DEF WifiInv
<1>2. rxbuf \o wire = s
  <2>1. answer = <<>>
    <3>1. Len(answer) = 0
      BY <1>1 DEF Ahead
    <3> QED BY <3>1, EmptySeq DEF Signals
  <2>2. <<>> \o s = s
    BY ConcatEmptySeq DEF Signals
  <2> QED BY <1>1, <2>1, <2>2 DEF Ahead
<1>3. s # <<>>
  <2>1. Len(rxbuf) >= 2 /\ Len(rxbuf) \in Nat /\ Len(wire) \in Nat
    BY WirePlaces DEF HasFrame, HasHeader, Signals
  <2>2. Len(rxbuf \o wire) = Len(rxbuf) + Len(wire)
    BY WirePlaces, ConcatProperties DEF Signals
  <2>3. Len(s) >= 2 /\ Len(<<>>) = 0
    BY <1>2, <2>1, <2>2
  <2> QED BY <2>3
<1>4. Begins(FramePieces, s, <<finished, receivedData>>, <<Len(sent), <<>>>>)
  <2>1. Path(FramePieces, s, <<finished, receivedData>>, <<Len(sent), <<>>>>)
    BY <1>1 DEF Ahead, FramesFrom
  <2> QED BY <2>1, WirePlaces, FramePiecesType, PathFirst
<1> QED BY <1>2, <1>3, <1>4 DEF Begins

(* It is a frame of one kind or the other, and dispatch reads it so.         *)
LEMMA KindOfFrame ==
  ASSUME TypeOK, HasFrame, NEW piece \in FramePieces, NEW rest \in Signals,
         rxbuf \o wire = piece.code \o rest
  PROVE  \/ /\ opcode \in {CLOSE, PING, PONG, 3} /\ piece.from = piece.to
            /\ SubSeq(rxbuf, header_size + N + 1, Len(rxbuf)) \o wire = rest
         \/ \E n \in 1..Len(sent), kept \in Text, data \in Short, op \in DataOps :
              /\ MessagePiece(piece, n, kept, data, op)
              /\ FrameTaken(piece.code, IF fin THEN 1 ELSE 0, op, data, rest)
              /\ fin => piece.to = <<n, <<>>>> /\ kept \o data = sent[n].text
              /\ ~fin => piece.to = <<n - 1, kept \o data>>
<1>0. WsTypeOK
  BY DEF TypeOK
<1>1. CASE ControlPiece(piece)
  <2>1. piece.code # BadFrame
    BY <1>0, BadIsBad
  <2>2. PICK op \in {CLOSE, PING, PONG, 3}, data \in Short : Carries(piece.code, 1, op, data)
    BY <1>1, <2>1 DEF ControlPiece
  <2>3. op \in 0..15 /\ 1 \in {0, 1}
    BY DEF CLOSE, PING, PONG
  <2>4. FrameTaken(piece.code, 1, op, data, rest)
    BY <1>0, <2>2, <2>3, FrameIsRead
  <2> QED BY <1>1, <2>4 DEF FrameTaken, ControlPiece
<1>2. CASE ~ControlPiece(piece)
  <2>1. PICK n \in 1..Len(sent), kept \in Text, data \in Short, op \in DataOps :
          MessagePiece(piece, n, kept, data, op)
    BY <1>2 DEF FramePieces
  <2>2. op \in 0..15 /\ 1 \in {0, 1} /\ 0 \in {0, 1} /\ 0 # 1
    BY DEF DataOps, TEXT_FRAME, BINARY_FRAME, CONTINUATION
  <2>3. CASE piece.to = <<n - 1, kept \o data>> /\ Carries(piece.code, 0, op, data)
    <3>1. FrameTaken(piece.code, 0, op, data, rest)
      BY <1>0, <2>2, <2>3, FrameIsRead
    <3>2. ~fin
      BY <2>2, <3>1 DEF FrameTaken
    <3>3. (IF fin THEN 1 ELSE 0) = 0
      BY <3>2
    <3> QED BY <2>1, <2>3, <3>1, <3>2, <3>3
  <2>4. CASE /\ piece.to = <<n, <<>>>> /\ Carries(piece.code, 1, op, data)
             /\ kept \o data = sent[n].text
    <3>1. FrameTaken(piece.code, 1, op, data, rest)
      BY <1>0, <2>2, <2>4, FrameIsRead
    <3>2. fin
      BY <3>1 DEF FrameTaken
    <3>3. (IF fin THEN 1 ELSE 0) = 1
      BY <3>2
    <3> QED BY <2>1, <2>4, <3>1, <3>2, <3>3
  <2> QED BY <2>1, <2>3, <2>4 DEF MessagePiece
<1> QED BY <1>1, <1>2
-----------------------------------------------------------------------------
(* Once the answer is read, the wire and rxbuf hold frames only.             *)
LEMMA AfterFrame ==
  ASSUME handshake = "done", unread = 0, UNCHANGED handshakeVars, sent' = sent,
         NEW s \in Signals, rxbuf' \o wire' = s,
         NEW place, place = <<finished', receivedData'>>, FramesFrom(s, place)
  PROVE  WifiInv'
<1>1. FramesFrom(s, place)'
  BY FramesStay
<1>2. FramesFrom(s, <<finished, receivedData>>)'
  BY <1>1 DEF FramesFrom
<1>3. <<>> \o s = s /\ <<>> \in Signals /\ Len(<<>>) = 0
  BY ConcatEmptySeq DEF Signals
<1>4. Ahead(<<>>, s)'
  BY <1>2, <1>3 DEF Ahead, handshakeVars
<1> QED BY <1>3, <1>4 DEF WifiInv, handshakeVars

LEMMA WholeIsPrefix ==
  ASSUME NEW text \in Text
  PROVE  Seqs!IsPrefix(text, text)
<1>1. Len(text) \in Nat /\ Len(text) <= Len(text)
  BY DEF Text
<1> QED BY <1>1, PrefixByElement DEF Text

LEMMA DataStep ==
  ASSUME TypeOK, WifiInv, Received, handshake = "done", ~broken, unread = 0,
         UNCHANGED handshakeVars, dispatchData
  PROVE  WifiInv' /\ Received'
<1>1. /\ HasFrame /\ opcode \in DataOps /\ eraseFrame /\ sent' = sent /\ wire' = wire
      /\ fin => waitWsCommands(Assembled) /\ freeData /\ finished' = finished + 1
      /\ ~fin => keepData /\ cmdToParse' = cmdToParse /\ finished' = finished
  BY DEF dispatchData, DataOps
<1>2. PICK piece \in FramePieces, rest \in Signals :
           /\ rxbuf \o wire = piece.code \o rest /\ <<finished, receivedData>> = piece.from
           /\ Path(FramePieces, rest, piece.to, <<Len(sent), <<>>>>)
  BY <1>1, FirstFrame
<1>3. opcode \notin {CLOSE, PING, PONG, 3}
  BY <1>1 DEF DataOps, TEXT_FRAME, BINARY_FRAME, CONTINUATION, CLOSE, PING, PONG
<1>4. PICK n \in 1..Len(sent), kept \in Text, data \in Short, op \in DataOps :
              /\ MessagePiece(piece, n, kept, data, op)
              /\ FrameTaken(piece.code, IF fin THEN 1 ELSE 0, op, data, rest)
              /\ fin => piece.to = <<n, <<>>>> /\ kept \o data = sent[n].text
              /\ ~fin => piece.to = <<n - 1, kept \o data>>
  BY <1>1, <1>2, <1>3, KindOfFrame
<1>5. n - 1 = finished /\ kept = receivedData
  BY <1>2, <1>4 DEF MessagePiece
<1>6. n = Current /\ n = finished + 1 /\ finished \in Nat
  BY <1>5, WirePlaces DEF Current
<1>7. payload = data /\ rxbuf' \o wire' = rest
  BY <1>1, <1>4 DEF FrameTaken, eraseFrame
<1>8. Assembled = kept \o data
  BY <1>5, <1>7 DEF Assembled
<1>9. CASE fin
  <2>1. waitWsCommands(sent[n].text) /\ receivedData' = <<>> /\ finished' = n
    BY <1>1, <1>4, <1>6, <1>8, <1>9 DEF freeData
  <2>2. Received'
    <3>1. n \in DOMAIN sent /\ sent[n].text \in Text
      BY LinePlaces
    <3>2. CASE Accepts(sent[n].text)
      <4>1. Receive(sent[n].text)
        BY <2>1, <3>2 DEF waitWsCommands
      <4> QED BY <1>1, <1>6, <3>1, <4>1, ReceivesOne, WholeIsPrefix
    <3>3. CASE ~Accepts(sent[n].text)
      <4>1. cmdToParse' = cmdToParse
        BY <2>1, <3>3 DEF waitWsCommands
      <4> QED BY <1>1, <4>1, ReceivesNothing
    <3> QED BY <3>2, <3>3
  <2>3. piece.to = <<finished', receivedData'>>
    BY <1>4, <1>9, <2>1
  <2>4. PICK place : place = piece.to
    OBVIOUS
  <2>5. FramesFrom(rest, place) /\ place = <<finished', receivedData'>>
    BY <1>2, <2>3, <2>4 DEF FramesFrom
  <2> QED BY <1>1, <1>7, <2>2, <2>5, AfterFrame
<1>10. CASE ~fin
  <2>1. Received'
    BY <1>1, <1>10, ReceivesNothing
  <2>2. piece.to = <<finished', receivedData'>>
    BY <1>1, <1>4, <1>5, <1>8, <1>10 DEF keepData
  <2>3. PICK place : place = piece.to
    OBVIOUS
  <2>4. FramesFrom(rest, place) /\ place = <<finished', receivedData'>>
    BY <1>2, <2>2, <2>3 DEF FramesFrom
  <2> QED BY <1>1, <1>7, <2>1, <2>4, AfterFrame
<1> QED BY <1>9, <1>10

(* A frame without a message leaves dispatch where it was.                   *)
LEMMA ControlStep ==
  ASSUME TypeOK, WifiInv, Received, handshake = "done", ~broken, unread = 0,
         UNCHANGED handshakeVars, dispatchPing \/ dispatchPong \/ dispatchClose
  PROVE  WifiInv' /\ Received'
<1>1. /\ HasFrame /\ opcode \notin DataOps /\ eraseFrame /\ sent' = sent /\ wire' = wire
      /\ cmdToParse' = cmdToParse /\ finished' = finished /\ receivedData' = receivedData
  BY DEF dispatchPing, dispatchPong, dispatchClose, DataOps, turn,
         TEXT_FRAME, BINARY_FRAME, CONTINUATION, PING, PONG
<1>2. PICK piece \in FramePieces, rest \in Signals :
           /\ rxbuf \o wire = piece.code \o rest /\ <<finished, receivedData>> = piece.from
           /\ Path(FramePieces, rest, piece.to, <<Len(sent), <<>>>>)
  BY <1>1, FirstFrame
<1>3. piece.from = piece.to /\ SubSeq(rxbuf, header_size + N + 1, Len(rxbuf)) \o wire = rest
  BY <1>1, <1>2, KindOfFrame DEF FrameTaken
<1>4. PICK place : place = piece.to
  OBVIOUS
<1>5. /\ FramesFrom(rest, place) /\ place = <<finished', receivedData'>>
      /\ rxbuf' \o wire' = rest
  BY <1>1, <1>2, <1>3, <1>4 DEF FramesFrom, eraseFrame
<1> QED BY <1>1, <1>5, AfterFrame, ReceivesNothing

(* What moves no byte of the wire.                                           *)
LEMMA WireStays ==
  ASSUME WifiInv, UNCHANGED <<wire, rxbuf, receivedData, sent, finished, handshake, broken, unread>>
  PROVE  WifiInv'
<1>1. ASSUME NEW answer \in Signals, NEW s \in Signals, Ahead(answer, s)
      PROVE  Ahead(answer, s)'
  <2>1. PICK place : place = <<finished, receivedData>>
    OBVIOUS
  <2>2. FramesFrom(s, place)'
    BY <1>1, <2>1, FramesStay DEF Ahead
  <2>3. FramesFrom(s, <<finished, receivedData>>)'
    BY <2>1, <2>2 DEF FramesFrom
  <2> QED BY <1>1, <2>3 DEF Ahead
<1> QED BY <1>1 DEF WifiInv

LEMMA CutAgain ==
  ASSUME NEW t \in Text, NEW m \in Nat, m = Len(t), NEW k \in 1..m
  PROVE  SubSeq(t, 1, k) \o SubSeq(t, k + 1, m) = t
<1>1. t \in Seq(Bytes) /\ k \in 1..(Len(t) + 1) /\ k + 1 \in 1..(Len(t) + 1)
  BY DEF Text
<1>2. SubSeq(t, 1, k) \o SubSeq(t, k + 1, m) = SubSeq(t, 1, m)
  <2> HIDE DEF Bytes
  <2> QED BY <1>1, ConcatAdjacentSubSeq
<1>3. SubSeq(t, 1, m) = t
  <2> HIDE DEF Bytes
  <2> QED BY <1>1, SubSeqFull
<1> QED BY <1>2, <1>3

LEMMA RecvStep ==
  ASSUME TypeOK, WifiInv, handshake = "done", ~broken, unread = 0, UNCHANGED handshakeVars, recvBytes
  PROVE  WifiInv'
<1>1. PICK n \in 1..Len(wire) :
        rxbuf' = rxbuf \o SubSeq(wire, 1, n) /\ wire' = SubSeq(wire, n + 1, Len(wire))
  BY DEF recvBytes
<1>2. UNCHANGED <<sent, finished, receivedData>>
  BY DEF recvBytes, turn
<1>3. rxbuf' \o wire' = rxbuf \o wire
  <2>1. rxbuf \in Text /\ wire \in Text
    BY WirePlaces DEF WsTypeOK
  <2>2. PICK t \in Text, m \in Nat, k \in Nat : t = wire /\ m = Len(wire) /\ k = n /\ k \in 1..m
    <3>1. Len(wire) \in Nat /\ n \in Nat
      BY <2>1 DEF Text
    <3> QED BY <2>1, <3>1
  <2>3. 1 \in 1..(m + 1) /\ k \in (1 - 1)..m /\ k + 1 \in 1..(m + 1) /\ m \in ((k + 1) - 1)..m
    BY <2>2
  <2>4. PICK u \in Text, v \in Text : /\ u = SubSeq(t, 1, k) /\ v = SubSeq(t, k + 1, m)
    BY <2>2, <2>3, SubText
  <2>5. u \o v = t
    BY <2>2, <2>3, <2>4, CutAgain
  <2>6. rxbuf \o (u \o v) = (rxbuf \o u) \o v
    <3>1. rxbuf \in Text /\ u \in Text /\ v \in Text
      BY <2>1, <2>4
    <3> QED BY <3>1, ConcatTexts
  <2> QED BY <1>1, <2>2, <2>4, <2>5, <2>6
<1>4. PICK answer \in Signals, s \in Signals : Ahead(answer, s)
  BY DEF WifiInv
<1>5. PICK place : place = <<finished, receivedData>>
  OBVIOUS
<1>6. Ahead(answer, s)'
  <2>1. FramesFrom(s, place)'
    BY <1>2, <1>4, <1>5, FramesStay DEF Ahead
  <2>2. FramesFrom(s, <<finished, receivedData>>)'
    BY <1>2, <1>5, <2>1 DEF FramesFrom
  <2> QED BY <1>2, <1>3, <1>4, <2>2 DEF Ahead, handshakeVars
<1> QED BY <1>6 DEF WifiInv, handshakeVars
-----------------------------------------------------------------------------
(* What was a frame of the station stays one.                                *)
LEMMA FramesMore ==
  ASSUME \A n \in 1..Len(sent) : n \in 1..Len(sent') /\ sent'[n] = sent[n]
  PROVE  FramePieces \subseteq FramePieces' /\ FramePieces' \in SUBSET Piece
<1>1. FramePieces' \in SUBSET Piece
  BY DEF FramePieces
<1>2. ASSUME NEW piece \in FramePieces PROVE piece \in FramePieces'
  <2>1. CASE ControlPiece(piece)
    BY <2>1 DEF FramePieces
  <2>2. CASE ~ControlPiece(piece)
    <3>1. PICK n \in 1..Len(sent), kept \in Text, data \in Short, op \in DataOps :
            MessagePiece(piece, n, kept, data, op)
      BY <2>2 DEF FramePieces
    <3>2. n \in 1..Len(sent') /\ sent'[n] = sent[n]
      OBVIOUS
    <3>3. MessagePiece(piece, n, kept, data, op)'
      BY <3>1, <3>2 DEF MessagePiece
    <3> QED BY <3>2, <3>3 DEF FramePieces
  <2> QED BY <2>1, <2>2
<1> QED BY <1>1, <1>2

LEMMA TextIsSignals ==
  ASSUME NEW text \in Text
  PROVE  text \in Signals
BY SeqMonotonic DEF Text, Signals, Symbols

LEMMA ControlSent ==
  ASSUME NEW framing \in Framings, ~HasMessage(framing), NEW text, NEW code, code = Sent(framing, text)
  PROVE  /\ code \in Signals
         /\ code = BadFrame \/ \E op \in {CLOSE, PING, PONG, 3}, data \in Short : Carries(code, 1, op, data)
<1>1. framing \in {"ping", "pong", "close", "unknown", "bad"}
  BY WsAssumption DEF HasMessage
<1>2. PICK none \in Short, lt \in Short, gt \in Short :
        none = <<>> /\ Len(none) = 0 /\ lt = <<LT>> /\ Len(lt) = 1 /\ gt = <<GT>> /\ Len(gt) = 1
  <2>1. LT \in Bytes /\ GT \in Bytes /\ 0 \in 0..125 /\ 1 \in 0..125
    BY DEF LT, GT, Bytes
  <2>2. <<>> \in Short /\ Len(<<>>) = 0
    <3> HIDE DEF Bytes
    <3> QED BY <2>1 DEF Short, Text
  <2>3. <<LT>> \in Short /\ Len(<<LT>>) = 1 /\ <<GT>> \in Short /\ Len(<<GT>>) = 1
    <3> HIDE DEF Bytes, LT, GT
    <3> QED BY <2>1 DEF Short, Text
  <2> QED BY <2>2, <2>3
<1>3. CASE framing = "bad"
  <2>1. code = BadFrame
    BY <1>3 DEF Sent, BadFrame
  <2>2. code \in Text
    <3>1. <<>> \in Text /\ 128 \in Bytes /\ 0 \in Bytes /\ 127 \in Bytes /\ 1 \in {0, 1} /\ 1 \in 0..15
      BY DEF Text, Bytes
    <3>2. <<128, 0, 0, 0, 0, 0, 0, 0>> \in Text
      <4> HIDE DEF Bytes
      <4> QED BY <3>1, SMT DEF Text
    <3>3. code = Frame(1, 1, 127, <<128, 0, 0, 0, 0, 0, 0, 0>>, <<>>)
      BY <1>3 DEF Sent, TEXT_FRAME
    <3> QED BY <3>1, <3>2, <3>3, FrameType
  <2> QED BY <2>1, <2>2, TextIsSignals
<1>4. CASE framing # "bad"
  <2>1. \E op \in {CLOSE, PING, PONG, 3}, data \in Short : code = Frame(1, op, Len(data), <<>>, data)
    <3>1. CASE framing = "ping"
      BY <1>2, <3>1 DEF Sent
    <3>2. CASE framing = "pong"
      BY <1>2, <3>2 DEF Sent
    <3>3. CASE framing = "close"
      BY <1>2, <3>3 DEF Sent
    <3>4. CASE framing = "unknown"
      BY <1>2, <3>4 DEF Sent
    <3> QED BY <1>1, <1>4, <3>1, <3>2, <3>3, <3>4
  <2>2. PICK op \in {CLOSE, PING, PONG, 3}, data \in Short : Carries(code, 1, op, data)
    BY <2>1 DEF Carries
  <2>3. op \in 0..15 /\ 1 \in {0, 1}
    BY DEF CLOSE, PING, PONG
  <2> QED BY <2>2, <2>3, CarriesText, TextIsSignals
<1> QED BY <1>3, <1>4

LEMMA SendsControl ==
  ASSUME TypeOK, NEW framing \in Framings, ~HasMessage(framing), NEW text, sent' = sent,
         NEW s \in Signals, NEW place \in Place, FramesFrom(s, place)
  PROVE  Sent(framing, text) \in Signals /\ FramesFrom(s \o Sent(framing, text), place)'
<1>1. PICK code : code = Sent(framing, text)
  OBVIOUS
<1>2. /\ code \in Signals
      /\ code = BadFrame \/ \E op \in {CLOSE, PING, PONG, 3}, data \in Short : Carries(code, 1, op, data)
  BY <1>1, ControlSent
<1>3. PICK last \in Place : last = <<Len(sent), <<>>>>
  BY WirePlaces
<1>4. PICK move : move = [from |-> last, code |-> code, to |-> last]
  OBVIOUS
<1>5. move.from = last /\ move.code = code /\ move.to = last /\ move \in Piece
  BY <1>2, <1>4 DEF Piece
<1>6. move \in FramePieces
  <2>1. ControlPiece(move)
    BY <1>2, <1>5 DEF ControlPiece
  <2> QED BY <1>5, <2>1 DEF FramePieces
<1>7. PICK M \in SUBSET Piece : M = FramePieces
  BY FramePiecesType
<1>8. Path(M, s, place, move.from)
  BY <1>3, <1>5, <1>7 DEF FramesFrom
<1>9. Path(M, s \o move.code, place, move.to)
  BY <1>6, <1>7, <1>8, PathAppend
<1>10. FramesFrom(s \o code, place)
  BY <1>3, <1>5, <1>7, <1>9 DEF FramesFrom
<1>11. PICK longer : longer = s \o code
  OBVIOUS
<1>12. FramesFrom(longer, place)'
  BY <1>10, <1>11, FramesStay
<1> QED BY <1>1, <1>2, <1>11, <1>12

(* A message in one frame, or in two with a ping between them.               *)
InOne(code, text) == \E op \in DataOps : Carries(code, 1, op, text)
InTwo(code, text) ==
  \E a, b, c : /\ code = a \o b \o c
               /\ Carries(a, 0, TEXT_FRAME, SubSeq(text, 1, 1))
               /\ Carries(b, 1, PING, <<>>)
               /\ Carries(c, 1, CONTINUATION, SubSeq(text, 2, Len(text)))

LEMMA MessageSent ==
  ASSUME NEW framing \in Framings, NEW text \in Text, Len(text) \in 1..4, NEW code, code = Sent(framing, text),
         HasMessage(framing)
  PROVE  InOne(code, text) \/ InTwo(code, text)
<1>1. CASE framing = "whole"
  BY <1>1 DEF Sent, Carries, DataOps, InOne
<1>2. CASE framing = "huge"
  BY <1>2 DEF Sent, Carries, DataOps, InOne
<1>3. CASE framing = "masked"
  BY <1>3 DEF Sent, Carries, DataOps, InOne
<1>4. CASE framing = "fragments"
  <2>1. PICK n \in 1..4 : n = Len(text)
    OBVIOUS
  <2>2. Len(SubSeq(text, 1, 1)) = 1 /\ Len(SubSeq(text, 2, n)) = n - 1 /\ Len(<<>>) = 0
    <3>1. 1 \in 1..(n + 1) /\ 1 \in (1 - 1)..n /\ 2 \in 1..(n + 1) /\ n \in (2 - 1)..n
          /\ 1 - 1 + 1 = 1 /\ n - 2 + 1 = n - 1
      OBVIOUS
    <3>2. PICK m : m = 2
      OBVIOUS
    <3>3. Len(SubSeq(text, m, n)) = n - m + 1
      BY <2>1, <3>1, <3>2, SubText
    <3>4. Len(SubSeq(text, 1, 1)) = 1 - 1 + 1
      BY <2>1, <3>1, SubText
    <3> QED BY <3>1, <3>2, <3>3, <3>4
  <2>3. PICK a, b, c :
          /\ a = Frame(0, TEXT_FRAME, 1, <<>>, SubSeq(text, 1, 1))
          /\ b = Frame(1, PING, 0, <<>>, <<>>)
          /\ c = Frame(1, CONTINUATION, n - 1, <<>>, SubSeq(text, 2, n))
    OBVIOUS
  <2>4. code = a \o b \o c
    BY <1>4, <2>1, <2>3 DEF Sent
  <2>5. /\ Carries(a, 0, TEXT_FRAME, SubSeq(text, 1, 1))
        /\ Carries(b, 1, PING, <<>>)
        /\ Carries(c, 1, CONTINUATION, SubSeq(text, 2, n))
    BY <2>2, <2>3 DEF Carries
  <2> QED BY <2>1, <2>4, <2>5 DEF InTwo
<1> QED BY <1>1, <1>2, <1>3, <1>4 DEF HasMessage

PieceSent(from, code, to) ==
  /\ [from |-> from, code |-> code, to |-> to] \in FramePieces
  /\ from \in Place /\ to \in Place /\ code \in Signals

LEMMA MessagePieceIs ==
  ASSUME NEW n \in 1..Len(sent'), Len(sent') \in Nat, NEW kept \in Text, NEW data \in Short, NEW op \in DataOps,
         NEW f \in {0, 1}, NEW code, Carries(code, f, op, data), kept \o data \in Text,
         f = 1 => kept \o data = sent'[n].text,
         NEW from, from = <<n - 1, kept>>,
         NEW to, to = IF f = 1 THEN <<n, <<>>>> ELSE <<n - 1, kept \o data>>
  PROVE  PieceSent(from, code, to)'
<1>1. op \in 0..15 /\ n \in Nat /\ n - 1 \in Nat /\ <<>> \in Text
  BY DEF DataOps, TEXT_FRAME, BINARY_FRAME, CONTINUATION, Text
<1>2. code \in Signals
  BY <1>1, CarriesText, TextIsSignals
<1>3. from \in Place /\ to \in Place
  BY <1>1 DEF Place
<1>4. PICK move : move = [from |-> from, code |-> code, to |-> to]
  OBVIOUS
<1>5. move.from = from /\ move.code = code /\ move.to = to /\ move \in Piece
  BY <1>2, <1>3, <1>4 DEF Piece
<1>6. MessagePiece(move, n, kept, data, op)'
  BY <1>5 DEF MessagePiece
<1>7. move \in FramePieces'
  BY <1>5, <1>6 DEF FramePieces
<1> QED BY <1>2, <1>3, <1>4, <1>7 DEF PieceSent

(* A message the station has just sent is behind all it sent before.         *)
LEMMA SendsMessage ==
  ASSUME TypeOK, NEW framing \in Framings, HasMessage(framing), NEW text \in Text, Len(text) \in 1..4,
         NEW told \in SentMessage, told.text = text, sent' = Append(sent, told),
         NEW s \in Signals, NEW place \in Place, FramesFrom(s, place)
  PROVE  Sent(framing, text) \in Signals /\ FramesFrom(s \o Sent(framing, text), place)'
<1>1. PICK code : code = Sent(framing, text)
  OBVIOUS
<1>2. PICK n \in Nat, last \in Nat : n = Len(sent) + 1 /\ last = Len(sent) /\ n - 1 = last
  <2>1. Len(sent) \in Nat
    BY OneMoreSaid
  <2> QED BY <2>1
<1>3. /\ Len(sent') = n /\ sent'[n] = told /\ n \in 1..Len(sent')
      /\ \A k \in 1..Len(sent) : k \in 1..Len(sent') /\ sent'[k] = sent[k]
  <2>1. n \in 1..n
    BY <1>2
  <2> QED BY <1>2, <2>1, OneMoreSaid
<1>4. PICK M \in SUBSET Piece, M2 \in SUBSET Piece : M = FramePieces /\ M2 = FramePieces' /\ M \subseteq M2
  BY <1>3, FramesMore, FramePiecesType
<1>5. PICK from \in Place, to \in Place : from = <<n - 1, <<>>>> /\ to = <<n, <<>>>>
  <2>1. n - 1 \in Nat
    BY <1>2
  <2>2. <<n - 1, <<>>>> \in Place /\ <<n, <<>>>> \in Place
    BY <2>1, LinePlaces
  <2> QED BY <2>2
<1>6. Path(M2, s, place, from)
  <2>1. Path(M, s, place, from)
    BY <1>2, <1>4, <1>5 DEF FramesFrom
  <2> QED BY <1>4, <2>1, PathMore
<1>7. /\ text \in Short /\ <<>> \in Text /\ <<>> \in Short
      /\ <<>> \o text = text /\ text = sent'[n].text
  <2>1. <<>> \in Text /\ Len(<<>>) = 0 /\ text \in Short
    BY DEF Short, Text
  <2>2. <<>> \in Short
    BY <2>1 DEF Short
  <2>3. <<>> \o text = text
    <3>1. text \in Signals
      BY TextIsSignals
    <3> QED BY <3>1, ConcatEmptySeq DEF Signals
  <2> QED BY <1>3, <2>1, <2>2, <2>3
<1>8. code \in Signals /\ Path(M2, s \o code, place, to)
  <2>1. CASE InOne(code, text)
    <3>1. PICK op \in DataOps : Carries(code, 1, op, text)
      BY <2>1 DEF InOne
    <3>2. PICK kept \in Text, f \in {0, 1} : kept = <<>> /\ f = 1
      BY <1>7
    <3>3. PICK move : move = [from |-> from, code |-> code, to |-> to]
      OBVIOUS
    <3>4. to = IF f = 1 THEN <<n, <<>>>> ELSE <<n - 1, kept \o text>>
      BY <1>5, <3>2
    <3>5. move \in M2 /\ code \in Signals
      <4>1. n \in 1..Len(sent') /\ Len(sent') \in Nat /\ text \in Short
        BY <1>2, <1>3, <1>7
      <4>2. Carries(code, f, op, text) /\ kept \o text \in Text /\ (f = 1 => kept \o text = sent'[n].text)
        BY <1>7, <3>1, <3>2
      <4>3. from = <<n - 1, kept>>
        BY <1>5, <3>2
      <4>4. PieceSent(from, code, to)'
        BY <3>4, <4>1, <4>2, <4>3, MessagePieceIs
      <4> QED BY <1>4, <3>3, <4>4 DEF PieceSent
    <3>6. move.from = from /\ move.code = code /\ move.to = to
      BY <3>3
    <3> QED BY <1>4, <1>6, <3>5, <3>6, PathAppend
  <2>2. CASE InTwo(code, text)
    <3>1. PICK a, b, c : /\ code = a \o b \o c
                         /\ Carries(a, 0, TEXT_FRAME, SubSeq(text, 1, 1))
                         /\ Carries(b, 1, PING, <<>>)
                         /\ Carries(c, 1, CONTINUATION, SubSeq(text, 2, Len(text)))
      BY <2>2 DEF InTwo
    <3>2. PICK d \in Short, e \in Short :
            d = SubSeq(text, 1, 1) /\ e = SubSeq(text, 2, Len(text)) /\ d \o e = text
      <4>0. PICK m \in 1..4 : m = Len(text)
        OBVIOUS
      <4>1. PICK one \in 1..m, two \in Nat : m = Len(text) /\ one = 1 /\ two = 2 /\ one + 1 = two
        BY <4>0
      <4>2. m \in Nat
        OBVIOUS
      <4>3. SubSeq(text, one, one) \o SubSeq(text, two, m) = text
        BY <4>1, <4>2, CutAgain
      <4>4. /\ 1 \in 1..(m + 1) /\ 1 \in (1 - 1)..m /\ two \in 1..(m + 1) /\ m \in (two - 1)..m
            /\ 1 - 1 + 1 = 1 /\ m - two + 1 = m - 1 /\ 1 \in 0..125 /\ m - 1 \in 0..125
        <5>1. two = 2
          BY <4>1
        <5> QED BY <5>1
      <4>5. SubSeq(text, 1, 1) \in Text /\ Len(SubSeq(text, 1, 1)) = 1 - 1 + 1
        BY <4>1, <4>4, SubText
      <4>6. SubSeq(text, two, m) \in Text /\ Len(SubSeq(text, two, m)) = m - two + 1
        BY <4>1, <4>4, SubText
      <4>7. SubSeq(text, 1, 1) \in Short /\ SubSeq(text, two, m) \in Short
        BY <4>4, <4>5, <4>6 DEF Short
      <4> QED BY <4>1, <4>3, <4>7
    <3>3. PICK none \in Text, f0 \in {0, 1}, f1 \in {0, 1} : none = <<>> /\ f0 = 0 /\ f1 = 1
      BY <1>7
    <3>4. TEXT_FRAME \in DataOps /\ CONTINUATION \in DataOps /\ d \in Text /\ e \in Text /\ none \o d = d
      <4>1. d \in Text /\ e \in Text
        BY DEF Short
      <4>2. d \in Signals
        BY <4>1, TextIsSignals
      <4> QED BY <4>1, <4>2, <3>3, ConcatEmptySeq DEF DataOps, Signals
    <3>5. PICK mid : mid = <<n - 1, d>>
      OBVIOUS
    <3>6. PICK first : first = [from |-> from, code |-> a, to |-> mid]
      OBVIOUS
    <3>7. first \in M2 /\ mid \in Place /\ a \in Signals
      <4>1. mid = IF f0 = 1 THEN <<n, <<>>>> ELSE <<n - 1, none \o d>>
        BY <3>3, <3>4, <3>5
      <4>2. Carries(a, f0, TEXT_FRAME, d) /\ none \o d \in Text /\ (f0 = 1 => none \o d = sent'[n].text)
        BY <3>1, <3>2, <3>3, <3>4
      <4>3. from = <<n - 1, none>>
        BY <1>5, <3>3
      <4>4. n \in 1..Len(sent') /\ Len(sent') \in Nat
        BY <1>2, <1>3
      <4>5. PieceSent(from, a, mid)'
        BY <3>4, <4>1, <4>2, <4>3, <4>4, MessagePieceIs
      <4> QED BY <1>4, <3>6, <4>5 DEF PieceSent
    <3>8. PICK last_ : last_ = [from |-> mid, code |-> c, to |-> to]
      OBVIOUS
    <3>9. last_ \in M2 /\ c \in Signals
      <4>1. to = IF f1 = 1 THEN <<n, <<>>>> ELSE <<n - 1, d \o e>>
        BY <1>5, <3>3
      <4>2. Carries(c, f1, CONTINUATION, e) /\ d \o e \in Text /\ (f1 = 1 => d \o e = sent'[n].text)
        BY <1>7, <3>1, <3>2, <3>3
      <4>3. n \in 1..Len(sent') /\ Len(sent') \in Nat
        BY <1>2, <1>3
      <4>4. PieceSent(mid, c, to)'
        BY <3>4, <3>5, <4>1, <4>2, <4>3, MessagePieceIs
      <4> QED BY <1>4, <3>8, <4>4 DEF PieceSent
    <3>10. PICK ping : ping = [from |-> mid, code |-> b, to |-> mid]
      OBVIOUS
    <3>11. ping \in M2 /\ b \in Signals
      <4>1. PING \in 0..15 /\ PING \in {CLOSE, PING, PONG, 3} /\ 1 \in {0, 1}
        BY DEF PING
      <4>2. Carries(b, 1, PING, <<>>)
        BY <3>1
      <4>3. b \in Signals
        BY <1>7, <4>1, <4>2, CarriesText, TextIsSignals
      <4>4. ping.from = mid /\ ping.code = b /\ ping.to = mid /\ ping \in Piece
        BY <3>7, <3>10, <4>3 DEF Piece
      <4>5. ControlPiece(ping)'
        BY <1>7, <4>1, <4>2, <4>4 DEF ControlPiece
      <4> QED BY <1>4, <4>3, <4>4, <4>5 DEF FramePieces
    <3>12. Path(M2, s \o a, place, mid)
      BY <1>4, <1>6, <3>6, <3>7, PathAppend
    <3>13. s \o a \in Signals
      BY <3>7, ConcatSignals
    <3>14. Path(M2, (s \o a) \o b, place, mid)
      BY <1>4, <3>7, <3>10, <3>11, <3>12, <3>13, PathAppend
    <3>15. (s \o a) \o b \in Signals
      BY <3>11, <3>13, ConcatSignals
    <3>16. Path(M2, ((s \o a) \o b) \o c, place, to)
      BY <1>4, <3>7, <3>8, <3>9, <3>14, <3>15, PathAppend
    <3>17. ((s \o a) \o b) \o c = s \o ((a \o b) \o c)
      <4>1. a \o b \in Signals
        BY <3>7, <3>11, ConcatSignals
      <4>2. s \o (a \o b) = (s \o a) \o b
        BY <3>7, <3>11, ConcatThree
      <4>3. PICK ab \in Signals : ab = a \o b
        BY <4>1
      <4>4. s \o (ab \o c) = (s \o ab) \o c
        BY <3>9, ConcatThree
      <4> QED BY <4>2, <4>3, <4>4
    <3>18. code \in Signals
      BY <3>1, <3>7, <3>9, <3>11, ConcatSignals
    <3> QED BY <3>1, <3>16, <3>17, <3>18
  <2>3. InOne(code, text) \/ InTwo(code, text)
    BY <1>1, MessageSent
  <2> QED BY <2>1, <2>2, <2>3
<1>9. PICK longer : longer = s \o code
  OBVIOUS
<1>10. FramesFrom(longer, place)'
  BY <1>3, <1>4, <1>5, <1>8, <1>9 DEF FramesFrom
<1> QED BY <1>1, <1>8, <1>9, <1>10
-----------------------------------------------------------------------------
(* Frames that come behind all there is.                                     *)
LEMMA MoreAhead ==
  ASSUME TypeOK, NEW answer \in Signals, NEW s \in Signals, Ahead(answer, s), NEW code \in Signals,
         wire' = wire \o code, UNCHANGED <<rxbuf, receivedData, finished, unread>>,
         NEW place, place = <<finished, receivedData>>, FramesFrom(s \o code, place)'
  PROVE  s \o code \in Signals /\ Ahead(answer, s \o code)'
<1>1. rxbuf \o wire' = answer \o (s \o code)
  <2>1. rxbuf \in Signals /\ wire \in Signals
    BY WirePlaces
  <2>2. rxbuf \o (wire \o code) = (rxbuf \o wire) \o code
    BY <2>1, ConcatThree
  <2>3. answer \o (s \o code) = (answer \o s) \o code
    BY ConcatThree
  <2> QED BY <2>2, <2>3 DEF Ahead
<1>2. FramesFrom(s \o code, <<finished, receivedData>>)'
  BY DEF FramesFrom
<1> QED BY <1>1, <1>2, ConcatSignals DEF Ahead

LEMMA SendsStep ==
  ASSUME TypeOK, WifiInv, Received, stationSends
  PROVE  WifiInv' /\ Received'
<1>1. PICK framing \in Framings, format \in Formats, number \in Contents :
        /\ wire' = wire \o Sent(framing, TextOf(format, number))
        /\ IF HasMessage(framing)
           THEN sent' = Append(sent, [text |-> TextOf(format, number),
                                      safe |-> Accepts(TextOf(format, number)), paused |-> FALSE])
           ELSE sent' = sent
  BY DEF stationSends, transmit
<1>2. /\ handshake \in {"headers", "done"} /\ ~broken
      /\ UNCHANGED <<rxbuf, receivedData, finished, cmdToParse, handshake, broken, unread>>
  BY DEF stationSends, transmit, handshakeVars
<1>3. PICK text : text = TextOf(format, number)
  OBVIOUS
<1>4. text \in Text /\ Len(text) \in 1..4
  BY <1>3, TextOfType
<1>5. PICK answer \in Signals, s \in Signals : Ahead(answer, s)
  BY <1>2 DEF WifiInv
<1>6. PICK place \in Place : place = <<finished, receivedData>>
  BY WirePlaces
<1>7. FramesFrom(s, place)
  BY <1>5, <1>6 DEF Ahead
<1>8. PICK code : code = Sent(framing, text)
  OBVIOUS
<1>9. code \in Signals /\ FramesFrom(s \o code, place)' /\ Received'
  <2>1. CASE HasMessage(framing)
    <3>1. PICK told : told = [text |-> text, safe |-> Accepts(text), paused |-> FALSE]
      OBVIOUS
    <3>2. told \in SentMessage /\ told.text = text
      <4>1. PICK safe \in BOOLEAN : (safe <=> Accepts(text)) /\ told = [text |-> text, safe |-> safe, paused |-> FALSE]
        <5>1. Accepts(text) \in BOOLEAN
          BY DEF Accepts
        <5> QED BY <3>1, <5>1, Zenon
      <4> QED BY <1>4, <4>1 DEF SentMessage
    <3>3. sent' = Append(sent, told)
      BY <1>1, <1>3, <2>1, <3>1
    <3>4. code \in Signals /\ FramesFrom(s \o code, place)'
      BY <1>4, <1>7, <1>8, <2>1, <3>2, <3>3, SendsMessage
    <3>5. \A k \in DOMAIN sent : k \in DOMAIN sent' /\ sent'[k] = sent[k]
      BY <3>2, <3>3, OneMoreSaid
    <3> QED BY <1>2, <3>4, <3>5 DEF Received, Arrived
  <2>2. CASE ~HasMessage(framing)
    <3>1. sent' = sent
      BY <1>1, <2>2
    <3> QED BY <1>2, <1>7, <1>8, <2>2, <3>1, SendsControl, ReceivesNothing
  <2> QED BY <2>1, <2>2
<1>10. wire' = wire \o code
  BY <1>1, <1>3, <1>8
<1>11. s \o code \in Signals /\ Ahead(answer, s \o code)'
  BY <1>2, <1>5, <1>6, <1>9, <1>10, MoreAhead
<1>12. WifiInv'
  BY <1>2, <1>11 DEF WifiInv
<1> QED BY <1>9, <1>12

LEMMA ConnectsStep ==
  ASSUME TypeOK, WifiInv, hostname_connect, UNCHANGED <<rxbuf, receivedData, sent, finished>>
  PROVE  WifiInv'
<1>1. /\ wire = <<>> /\ sent = <<>> /\ finished = 0 /\ receivedData = <<>> /\ rxbuf = <<>>
      /\ handshake' \in {"status", "refused"}
  BY DEF WifiInv, hostname_connect
<1>2. ASSUME ~broken', handshake' = "status" PROVE \E answer, s \in Signals : Ahead(answer, s)'
  <2>1. PICK r \in Responses : wire' = r /\ unread' = Len(r)
    BY <1>2 DEF hostname_connect
  <2>2. r \in Signals
    <3>1. r \in Text
      BY HandshakeAssumption
    <3> QED BY <3>1, TextIsSignals
  <2>3. PICK none \in Signals, start \in Place : none = <<>> /\ start = <<0, <<>>>>
    BY WirePlaces, <1>1
  <2>4. FramesFrom(none, <<finished, receivedData>>)'
    <3>1. PICK M \in SUBSET Piece : M = FramePieces'
      <4>1. FramePieces' \in SUBSET Piece
        BY DEF FramePieces
      <4> QED BY <4>1
    <3>2. Path(M, none, start, start)
      BY <2>3, PathEmpty
    <3>3. Len(sent') = 0
      BY <1>1
    <3> QED BY <1>1, <2>3, <3>1, <3>2, <3>3 DEF FramesFrom
  <2>5. rxbuf' \o wire' = r \o none
    <3>1. <<>> \o r = r /\ r \o <<>> = r
      BY <2>2, ConcatEmptySeq DEF Signals
    <3> QED BY <1>1, <2>1, <2>3, <3>1
  <2>6. Ahead(r, none)'
    BY <2>1, <2>4, <2>5 DEF Ahead
  <2> QED BY <2>2, <2>6
<1> QED BY <1>1, <1>2 DEF WifiInv

(* A byte of the answer is read, and there is one.                           *)
LEMMA ReadsStep ==
  ASSUME TypeOK, AllWellFormed, HandshakeInv, WifiInv, recvOne,
         UNCHANGED <<rxbuf, receivedData, sent, finished>>
  PROVE  WifiInv'
<1>1. /\ handshake \in {"status", "headers"} /\ LineGoesOn /\ ~broken /\ wire # <<>>
      /\ wire' = Tail(wire) /\ unread' = unread - 1 /\ UNCHANGED <<handshake, broken>>
  BY DEF recvOne, Reading
<1>2. unread \in Nat /\ unread > 0
  <2>1. PICK r \in Responses, b \in Nat, k \in Nat : Follows(r, b, k)
    BY <1>1 DEF HandshakeInv, Following, Answered
  <2>2. PICK pos : pos = Len(r) - unread
    OBVIOUS
  <2>3. pos < Len(r)
    BY <1>1, <2>1, <2>2, LineEnded DEF AllWellFormed
  <2>4. Len(r) \in Nat /\ pos \in 0..Len(r) /\ unread = Len(r) - pos /\ unread \in Nat
    BY <2>1, <2>2, FollowsFacts
  <2> QED BY <2>3, <2>4
<1>3. PICK answer \in Signals, s \in Signals : Ahead(answer, s)
  BY <1>1 DEF WifiInv
<1>4. rxbuf = <<>> /\ wire \in Signals
  BY <1>1, WirePlaces DEF WifiInv
<1>5. wire = answer \o s
  <2>1. <<>> \o wire = wire
    BY <1>4, ConcatEmptySeq DEF Signals
  <2> QED BY <1>3, <1>4, <2>1 DEF Ahead
<1>6. /\ Tail(answer) \in Signals /\ Len(Tail(answer)) = unread - 1
      /\ wire' = Tail(answer) \o s /\ wire' \in Signals
  <2>1. answer \in Seq(Symbols) /\ s \in Seq(Symbols) /\ Len(answer) = unread
    BY <1>3 DEF Ahead, Signals
  <2> HIDE DEF Symbols
  <2>2. Len(answer) >= 1 /\ answer # <<>>
    <3>1. Len(answer) >= 1
      BY <1>2, <2>1
    <3>2. Len(<<>>) = 0 /\ ~(0 >= 1)
      OBVIOUS
    <3> QED BY <3>1, <3>2
  <2>3. Tail(answer) \in Seq(Symbols) /\ Len(Tail(answer)) = Len(answer) - 1
    BY <2>1, <2>2, HeadTailProperties
  <2>4. Tail(answer \o s) = Tail(answer) \o s
    BY <2>1, <2>2, TailOfConcat
  <2>5. Tail(answer) \o s \in Signals
    BY <2>1, <2>3, ConcatSignals DEF Signals
  <2> QED BY <1>1, <1>5, <2>1, <2>3, <2>4, <2>5 DEF Signals
<1>7. PICK rest \in Signals : rest = Tail(answer)
  BY <1>6
<1>8. FramesFrom(s, <<finished, receivedData>>)'
  <2>1. PICK place : place = <<finished, receivedData>>
    OBVIOUS
  <2>2. FramesFrom(s, place)'
    BY <1>3, <2>1, FramesStay DEF Ahead
  <2> QED BY <2>1, <2>2 DEF FramesFrom
<1>9. rxbuf' \o wire' = rest \o s
  <2>1. <<>> \o wire' = wire'
    BY <1>6, ConcatEmptySeq DEF Signals
  <2> QED BY <1>4, <1>6, <1>7, <2>1
<1>10. Ahead(rest, s)'
  BY <1>1, <1>6, <1>7, <1>8, <1>9 DEF Ahead
<1> QED BY <1>1, <1>4, <1>10 DEF WifiInv

LEMMA AnswerStep ==
  ASSUME TypeOK, AllWellFormed, HandshakeInv, WifiInv, connect \/ connectionLost
  PROVE  WifiInv'
<1>0. UNCHANGED <<rxbuf, receivedData, sent, finished>>
  BY DEF connect, from_url, connectionLost, lost, turn
<1>1. CASE hostname_connect
  BY <1>0, <1>1, ConnectsStep
<1>2. CASE recvOne
  BY <1>0, <1>2, ReadsStep
<1>3. CASE recvFailsUnseen
  BY <1>0, <1>3, WireStays DEF recvFailsUnseen
<1>4. CASE statusLine \/ headerLine
  <2>1. /\ UNCHANGED <<broken, unread, wire>> /\ handshake \in {"status", "headers"}
        /\ handshake' \in {"refused", "headers", "done"}
    BY <1>4 DEF statusLine, headerLine
  <2>2. ASSUME NEW answer \in Signals, NEW s \in Signals, Ahead(answer, s)
        PROVE  Ahead(answer, s)'
    <3>1. PICK place : place = <<finished, receivedData>>
      OBVIOUS
    <3>2. FramesFrom(s, place)'
      BY <1>0, <2>2, <3>1, FramesStay DEF Ahead
    <3>3. FramesFrom(s, <<finished, receivedData>>)'
      BY <1>0, <3>1, <3>2 DEF FramesFrom
    <3> QED BY <1>0, <2>1, <2>2, <3>3 DEF Ahead
  <2> QED BY <1>0, <2>1, <2>2 DEF WifiInv
<1>5. CASE recvEnds \/ connectionBreaks
  BY <1>0, <1>5 DEF recvEnds, connectionBreaks, Reading, WifiInv
<1>6. CASE stationFallsSilent
  BY <1>0, <1>6, WireStays DEF stationFallsSilent
<1> QED BY <1>1, <1>2, <1>3, <1>4, <1>5, <1>6 DEF connect, from_url, connectionLost, lost
-----------------------------------------------------------------------------
(* The two lines together, and the messages that came over them.             *)
TextsInv == UsbInv /\ (mode = "wifi" => WifiInv) /\ Received

LEMMA ReceivesLess ==
  ASSUME Received, sent' = sent, Values(cmdToParse') \subseteq Values(cmdToParse)
  PROVE  Received'
BY DEF Received, Arrived

LEMMA NextByteStep ==
  ASSUME TypeOK, LinesSaid, OnLine, Received, nextByte
  PROVE  OnLine' /\ Received'
<1>1. CASE port = <<>>
  BY <1>1, NextOfNothing
<1>2. CASE port # <<>>
  <2>1. PICK head \in Signals, rest \in Signals : Within(head, rest)
    BY <1>2, LineBegins DEF OnLine
  <2> QED BY <2>1, NextEndsLine, NextInLine
<1> QED BY <1>1, <1>2

(* What the reader of the serial line has no part in.                        *)
LEMMA LineStays ==
  ASSUME TypeOK, LinesSaid, OnLine, UNCHANGED <<sent, finished, serial>>, InLine' <=> InLine
  PROVE  LinesSaid' /\ OnLine'
<1>1. /\ sent' = sent /\ finished' = finished /\ port' = port /\ buffer' = buffer /\ i' = i
      /\ Current' = Current
  BY DEF serial, Current
<1>2. LinesSaid'
  BY <1>1 DEF LinesSaid, Ends
<1>3. ASSUME AtLine PROVE AtLine'
  <2>1. PICK s, n : s = port /\ n = finished
    OBVIOUS
  <2>2. LinesFrom(s, n)'
    BY <1>1, <1>3, <2>1, LinesStay DEF AtLine
  <2>3. LinesFrom(port, finished)'
    BY <1>1, <2>1, <2>2 DEF LinesFrom
  <2> QED BY <1>1, <1>3, <2>3 DEF AtLine
<1>4. ASSUME NEW head \in Signals, NEW rest \in Signals, Within(head, rest) PROVE Within(head, rest)'
  <2>1. PICK n : n = Current
    OBVIOUS
  <2>2. LinesFrom(rest, n)'
    BY <1>1, <1>4, <2>1, LinesStay DEF Within
  <2>3. LinesFrom(rest, Current)'
    BY <1>1, <2>1, <2>2 DEF LinesFrom
  <2>4. PICK told : told = sent[Current]
    OBVIOUS
  <2>5. Reads(head, told) => Reads(head, told)'
    BY <1>1 DEF Reads, Left
  <2>6. ~sent'[Current'].paused => Reads(head, sent[Current])'
    BY <1>1, <1>4, <2>4, <2>5 DEF Within, Reads
  <2> QED BY <1>1, <1>4, <2>3, <2>6 DEF Within, Ends
<1> QED BY <1>2, <1>3, <1>4 DEF OnLine

LEMMA SerialStep ==
  ASSUME TypeOK, LinesSaid, OnLine, Received, waitSerialCommand
  PROVE  LinesSaid' /\ OnLine' /\ Received' /\ loopPc' \notin {"send", "dispatch"}
<1>1. sent' = sent /\ LinesSaid' /\ loopPc' \notin {"send", "dispatch"}
  <2>1. sent' = sent /\ loopPc' \notin {"send", "dispatch"}
    BY NextByteFacts DEF waitSerialCommand, noFirstByte, firstByte, nextByte, overrun
  <2> QED BY <2>1 DEF LinesSaid, Ends
<1>2. CASE noFirstByte
  BY <1>1, <1>2, NoFirstByteStep, ReceivesNothing DEF noFirstByte
<1>3. CASE firstByte
  BY <1>1, <1>3, FirstByteStep, ReceivesNothing DEF firstByte
<1>4. CASE nextByte
  BY <1>1, <1>4, NextByteStep
<1>5. CASE overrun
  <2>1. UNCHANGED <<sent, finished, serial, cmdToParse>> /\ InLine /\ InLine'
    BY <1>5 DEF overrun, InLine
  <2> QED BY <1>1, <2>1, LineStays, ReceivesNothing
<1> QED BY <1>2, <1>3, <1>4, <1>5, <1>1 DEF waitSerialCommand

LEMMA ParseReceived ==
  ASSUME Received, parseMessage
  PROVE  Received'
<1>1. PICK others \in SUBSET DOMAIN cmdToParse : cmdToParse' = [k \in others |-> cmdToParse[k]]
  BY DEF parseMessage
<1>2. Values(cmdToParse') \subseteq Values(cmdToParse)
  BY <1>1 DEF Values
<1> QED BY <1>2, ReceivesLess DEF parseMessage

LEMMA UsbStep ==
  ASSUME TypeOK, UsbInv, Received, mode = "usb", [Next]_vars
  PROVE  UsbInv' /\ Received'
<1>0. loopPc \notin {"send", "dispatch"} /\ LinesSaid /\ OnLine
  BY DEF UsbInv
<1>1. ASSUME UNCHANGED <<sent, finished, serial>>, InLine' <=> InLine, loopPc' \notin {"send", "dispatch"}
      PROVE  UsbInv'
  BY <1>0, <1>1, LineStays DEF UsbInv
<1>2. ASSUME UNCHANGED <<turn, serial>> PROVE UsbInv' /\ Received'
  <2>1. UNCHANGED <<sent, finished, serial>> /\ loopPc' = loopPc /\ cmdToParse' = cmdToParse
    BY <1>2 DEF turn
  <2> QED BY <1>0, <1>1, <2>1, ReceivesNothing DEF InLine
<1>3. CASE stationPrints
  <2>1. loopPc' = loopPc
    BY <1>3 DEF stationPrints
  <2> QED BY <1>0, <1>3, <2>1, PrintStep DEF UsbInv
<1>4. ~stationSends /\ ~hostSends
  BY DEF stationSends, hostSends, sendCommand
<1>5. CASE connect \/ connectionLost
  BY <1>2, <1>5 DEF connect, from_url, connectionLost, lost
<1>6. CASE Loop
  <2>1. ~pollAndDispatch /\ ~loopSends
    BY <1>0 DEF pollAndDispatch, poll, noPoll, recvBytes, recvBlocks, recvFails, sendBytes, sendFails,
                sendReturns, dispatch, dispatchData, dispatchPing, dispatchPong, dispatchClose,
                dispatchInvalidLength, dispatchReturns, Dispatching, loopSends, sendCommand
  <2>2. CASE receive
    BY <1>0, <2>2, SerialStep DEF receive, UsbInv
  <2>3. CASE checkCmdToSend \/ parseNothing \/ report
    <3>1. /\ UNCHANGED <<sent, finished, serial, cmdToParse>>
          /\ ~InLine /\ ~InLine' /\ loopPc' \notin {"send", "dispatch"}
      BY <2>3 DEF checkCmdToSend, parseNothing, report, fill, handleCommandStationFb, fillItems,
                  setNbDataItems, InLine
    <3> QED BY <1>1, <3>1, ReceivesNothing
  <2>4. CASE parseMessage
    <3>1. /\ UNCHANGED <<sent, finished, serial>>
          /\ ~InLine /\ ~InLine' /\ loopPc' \notin {"send", "dispatch"}
      BY <2>4 DEF parseMessage, InLine
    <3> QED BY <1>1, <2>4, <3>1, ParseReceived
  <2> QED BY <1>6, <2>1, <2>2, <2>3, <2>4 DEF Loop
<1>7. CASE hostTakes
  BY <1>2, <1>7 DEF hostTakes, GetNextUnExpectedMessage, copyFbMsgToGenericData, removeFeedbackMsg
<1>8. CASE stop \/ disconnect \/ closeAnyConnection
  BY <1>2, <1>8 DEF stop, disconnect, closeAnyConnection, HostStep
<1>9. CASE UNCHANGED vars
  BY <1>2, <1>9 DEF vars
<1> QED BY <1>3, <1>4, <1>5, <1>6, <1>7, <1>8, <1>9 DEF Next, Host

LEMMA WifiStep ==
  ASSUME TypeOK, AllWellFormed, HandshakeInv, WifiInv, Received, mode = "wifi", [Next]_vars
  PROVE  WifiInv' /\ Received'
<1>1. ASSUME UNCHANGED <<wire, rxbuf, receivedData, sent, finished, handshakeVars>> PROVE WifiInv'
  BY <1>1, WireStays DEF handshakeVars
<1>2. ~stationPrints /\ ~receive
  BY DEF stationPrints, receive, waitSerialCommand, noFirstByte, firstByte, nextByte, overrun
<1>3. CASE stationSends
  BY <1>3, SendsStep
<1>4. CASE connect \/ connectionLost
  <2>1. UNCHANGED <<sent, cmdToParse>>
    BY <1>4 DEF connect, from_url, connectionLost, lost, turn
  <2> QED BY <1>4, <2>1, AnswerStep, ReceivesNothing
<1>5. CASE Loop
  <2>1. handshake = "done" /\ ~broken /\ unread = 0
    BY <1>5 DEF Loop, LoopLives, HandshakeInv
  <2>2. CASE pollAndDispatch /\ poll
    <3>1. UNCHANGED <<sent, cmdToParse, handshakeVars>>
      BY <2>2 DEF pollAndDispatch, poll, noPoll, recvBytes, recvBlocks, recvFails, sendBytes, sendFails,
                  sendReturns, turn
    <3>2. CASE recvBytes
      BY <2>1, <3>1, <3>2, RecvStep, ReceivesNothing
    <3>3. CASE ~recvBytes
      <4>1. UNCHANGED <<wire, rxbuf, receivedData, finished>>
        BY <2>2, <3>3 DEF poll, noPoll, recvBlocks, recvFails, sendBytes, sendFails,
                          sendReturns, turn, ws
      <4> QED BY <1>1, <3>1, <4>1, ReceivesNothing
    <3> QED BY <3>2, <3>3
  <2>3. CASE pollAndDispatch /\ dispatch
    <3>1. UNCHANGED handshakeVars
      BY <2>3 DEF pollAndDispatch
    <3>2. CASE dispatchInvalidLength \/ dispatchReturns
      <4>1. UNCHANGED <<wire, rxbuf, receivedData, sent, cmdToParse, finished>>
        BY <3>2 DEF dispatchInvalidLength, dispatchReturns, ws
      <4> QED BY <1>1, <3>1, <4>1, ReceivesNothing
    <3> QED BY <2>1, <2>3, <3>1, <3>2, DataStep, ControlStep DEF dispatch
  <2>4. CASE loopSends \/ checkCmdToSend \/ parseNothing \/ report
    <3>1. UNCHANGED <<wire, rxbuf, receivedData, sent, cmdToParse, finished, handshakeVars>>
      BY <2>4 DEF loopSends, sendCommand, checkCmdToSend, parseNothing, report, fill,
                  handleCommandStationFb, fillItems, setNbDataItems, turn, ws
    <3> QED BY <1>1, <3>1, ReceivesNothing
  <2>5. CASE parseMessage
    <3>1. UNCHANGED <<wire, rxbuf, receivedData, sent, finished, handshakeVars>>
      BY <2>5 DEF parseMessage, ws
    <3> QED BY <1>1, <2>5, <3>1, ParseReceived
  <2> QED BY <1>2, <1>5, <2>2, <2>3, <2>4, <2>5 DEF Loop, pollAndDispatch
<1>6. CASE hostSends \/ hostTakes \/ UNCHANGED vars
  <2>1. UNCHANGED <<wire, rxbuf, receivedData, sent, cmdToParse, finished, handshakeVars>>
    BY <1>6 DEF hostSends, sendCommand, hostTakes, GetNextUnExpectedMessage, copyFbMsgToGenericData,
                removeFeedbackMsg, vars, turn, ws
  <2> QED BY <1>1, <2>1, ReceivesNothing
<1>7. CASE stop \/ disconnect \/ closeAnyConnection
  <2>1. UNCHANGED <<wire, rxbuf, receivedData, sent, cmdToParse, finished, handshakeVars>>
    BY <1>7 DEF stop, disconnect, closeAnyConnection, HostStep, turn, ws
  <2> QED BY <1>1, <2>1, ReceivesNothing
<1> QED BY <1>2, <1>3, <1>4, <1>5, <1>6, <1>7 DEF Next, Host

LEMMA TextsStep ==
  ASSUME IInv, AllWellFormed, HandshakeInv, TextsInv, [Next]_vars
  PROVE  TextsInv'
<1>1. TypeOK /\ UsbInv /\ Received /\ (mode = "wifi" => WifiInv)
  BY DEF IInv, TextsInv
<1>2. mode \in {"usb", "wifi"}
  BY <1>1, InboundAssumption DEF TypeOK
<1>3. mode' = mode
  BY DEF Next, stationPrints, stationSends, connectionLost, lost, connect, from_url, Loop, receive,
         waitSerialCommand, noFirstByte, firstByte, nextByte, overrun,
         pollAndDispatch, poll, noPoll, recvBytes, recvBlocks, recvFails, sendBytes, sendFails, sendReturns,
         dispatch, dispatchData, dispatchPing, dispatchPong, dispatchClose, dispatchInvalidLength,
         dispatchReturns, loopSends, checkCmdToSend, parseNothing, parseMessage, report, fill,
         handleCommandStationFb, fillItems, setNbDataItems, Host, hostSends, hostTakes,
         stop, disconnect, closeAnyConnection, HostStep,
         GetNextUnExpectedMessage, copyFbMsgToGenericData, removeFeedbackMsg, turn, vars
<1>4. CASE mode = "usb"
  BY <1>1, <1>3, <1>4, UsbStep DEF TextsInv
<1>5. CASE mode = "wifi"
  BY <1>1, <1>3, <1>5, WifiStep DEF TextsInv, UsbInv
<1> QED BY <1>2, <1>4, <1>5

LEMMA TextsInit ==
  ASSUME Init
  PROVE  TextsInv
<1>1. /\ sent = <<>> /\ finished = 0 /\ loopPc = "receive" /\ cmdToParse = Empty
      /\ port = <<>> /\ wire = <<>> /\ rxbuf = <<>> /\ receivedData = <<>> /\ unread = 0
      /\ mode = "wifi" => handshake = "connect"
  BY DEF Init, SerialInit, WsInit, HandshakeInit
<1>2. Received
  BY <1>1 DEF Received, Values, Empty
<1>3. PICK none \in Signals, start \in Place : none = <<>> /\ start = <<0, <<>>>>
  <2>1. <<>> \in Signals /\ <<>> \in Text /\ 0 \in Nat
    BY DEF Signals, Text
  <2> HIDE DEF Text, Signals
  <2>2. <<0, <<>>>> \in Place
    BY <2>1 DEF Place
  <2> QED BY <2>1, <2>2
<1>4. LinesFrom(port, finished) /\ FramesFrom(none, <<finished, receivedData>>)
  <2>1. Path(LinePieces, none, start, start) /\ Path(FramePieces, none, start, start)
    <3>1. PICK M \in SUBSET Piece, M2 \in SUBSET Piece : M = LinePieces /\ M2 = FramePieces
      BY LinePiecesType, FramePiecesType
    <3>2. <<>> = none
      BY <1>3
    <3>3. Path(M, none, start, start) /\ Path(M2, none, start, start)
      BY <3>2, PathEmpty
    <3> QED BY <3>1, <3>3
  <2>2. Len(sent) = 0
    BY <1>1
  <2> QED BY <1>1, <1>3, <2>1, <2>2 DEF LinesFrom, FramesFrom
<1>5. LinesSaid /\ OnLine
  BY <1>1, <1>4 DEF LinesSaid, OnLine, AtLine, InLine
<1>6. mode = "wifi" => WifiInv
  <2>1. rxbuf \o wire = none \o none /\ Len(none) = unread
    BY <1>1, <1>3
  <2>2. Ahead(none, none)
    BY <1>4, <2>1 DEF Ahead
  <2> QED BY <1>1, <2>2 DEF WifiInv
<1> QED BY <1>1, <1>2, <1>5, <1>6 DEF TextsInv, UsbInv

(* Every message that waits for parse begins with the text the station sent, *)
(* unless a pause cut it or the line before it: waitSerialCommand finds the  *)
(* ends of the lines in the stream, and dispatch those of the frames however *)
(* they were cut, behind an answer of which the handshake leaves nothing.    *)
THEOREM TextsAreWhole ==
  ASSUME \A r \in Responses : WellFormed(r)
  PROVE  Spec => []TextsArriveWhole
<1>1. AllWellFormed
  BY DEF AllWellFormed
<1>2. Init => IInv /\ HandshakeInv /\ TextsInv
  <2>1. Init => HandshakeInv
    BY DEF Init, HandshakeInit, HandshakeInv, Answered
  <2> QED BY <2>1, InitIInv, TextsInit
<1>3. IInv /\ HandshakeInv /\ TextsInv /\ [Next]_vars => (IInv /\ HandshakeInv /\ TextsInv)'
  BY <1>1, StepType, HandshakeStep, TextsStep
<1>4. TextsInv => TextsArriveWhole
  BY DEF TextsInv, Received, Arrived, Values, TextsArriveWhole
<1> QED BY <1>2, <1>3, <1>4, PTL DEF Spec
=============================================================================
