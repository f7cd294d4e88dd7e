-------------------------- MODULE WebSocketProofs ---------------------------
(* What the WebSocket client makes of the bytes of the station, for every    *)
(* value of the constants.  The handshake reads the whole answer of the      *)
(* station and not a byte more, if the answer is well formed.  Behind it,    *)
(* dispatch reads from rxbuf what the station put into a frame: a frame says *)
(* itself how long it is, in one, two or eight bytes, and a masked one is    *)
(* masked twice, which changes nothing.                                      *)
EXTENDS InboundProofs

(* What may be on its way on either line.                                    *)
Symbols == Bytes \cup {PAUSE}
Signals == Seq(Symbols)

(* Where the handshake is in the answer r: it has read its first lines, up   *)
(* to the byte b, and k cuts of the next; line holds what was read since.    *)
Follows(r, b, k) ==
  LET pos == Len(r) - unread
      start == pos - lineAt
  IN  /\ unread \in 0..Len(r) /\ unread <= Len(wire)
      /\ \A p \in 1..unread : wire[p] = r[pos + p]
      /\ start = b + k * (LineSize - 1)
      /\ b < Len(r) /\ (b = 0 \/ r[b] = LF)
      /\ \A p \in (b + 1)..pos : r[p] = LF => p = pos /\ lineAt > 0
      /\ \A p \in 0..(lineAt - 1) : line[p] = r[start + p + 1]

Answered == handshake \in {"status", "headers"}
Following ==
  \E r \in Responses, b \in Nat, k \in Nat :
    Follows(r, b, k) /\ (handshake = "headers" => b # 0)

HandshakeInv ==
  /\ handshake = "connect" => lineAt = 0
  /\ handshake = "done" => unread = 0 /\ ~broken
  /\ Answered /\ ~broken => Following
  /\ handshake = "headers" /\ broken => ~EmptyLine
  /\ handshake = "headers" /\ ~broken /\ lineAt < 2 => line[1] # LF
-----------------------------------------------------------------------------
LEMMA CutsAreShort ==
  ASSUME NEW L \in Nat, L >= 2, NEW k \in Nat
  PROVE  k * L \in Nat /\ k * L >= k + k /\ (k + 1) * L = k * L + L
<1>1. k * L \in Nat
  OBVIOUS
<1>2. PICK d \in Nat : L = 2 + d
  <2>1. L - 2 \in Nat /\ L = 2 + (L - 2)
    OBVIOUS
  <2> QED BY <2>1
<1>3. k * L = k + k + k * d /\ k * d \in Nat
  BY <1>2
<1>4. (k + 1) * L = k * L + L
  OBVIOUS
<1> QED BY <1>1, <1>3, <1>4

(* A well-formed line has no LF of its own after its cuts, and its CR LF     *)
(* only if there are none.                                                   *)
LEMMA LinesEnd ==
  ASSUME NEW r \in Text, WellFormed(r), NEW b \in Nat, NEW k \in Nat, NEW to \in 1..Len(r),
         b < to, b = 0 \/ r[b] = LF, r[to] = LF, \A p \in (b + 1)..(to - 1) : r[p] # LF
  PROVE  to - b # k * (LineSize - 1) + 1 /\ (to - b = k * (LineSize - 1) + 2 => k = 0)
<1>1. LineSize - 1 \in Nat /\ LineSize - 1 >= 2 /\ Len(r) \in Nat
  BY HandshakeAssumption DEF Text
<1> DEFINE m == k * (LineSize - 1)
<1>2. m \in Nat /\ m >= k + k
  BY <1>1, CutsAreShort
<1>3. Line(r, b, to) /\ b \in 0..Len(r)
  BY <1>1 DEF Line
<1>4. CASE k = 0
  <2>1. m = 0
    BY <1>4, <1>1
  <2>2. to > 1 /\ r[to - 1] = CR
    <3>1. to \in DOMAIN r
      BY DEF Text
    <3> QED BY <3>1 DEF WellFormed
  <2>3. to - 1 # b
    BY <2>2, <1>1 DEF CR, LF
  <2> HIDE DEF m
  <2> QED BY <2>1, <2>3, <1>1, <1>4 DEF m
<1>5. CASE k # 0
  <2>1. k \in 1..Len(r) => to - b - m \notin {1, 2}
    BY <1>3 DEF WellFormed
  <2> HIDE DEF m
  <2>2. k > Len(r) => to - b < m
    BY <1>1, <1>2
  <2>3. to - b # m + 1 /\ to - b # m + 2
    BY <2>1, <2>2, <1>1, <1>2, <1>5
  <2> QED BY <2>3 DEF m
<1> QED BY <1>4, <1>5

(* What Follows says in numbers.                                             *)
LEMMA FollowsFacts ==
  ASSUME TypeOK, NEW r \in Responses, NEW b \in Nat, NEW k \in Nat, Follows(r, b, k),
         NEW pos, pos = Len(r) - unread
  PROVE  /\ r \in Text /\ Len(r) \in Nat /\ \A p \in 1..Len(r) : r[p] \in Bytes
         /\ pos \in 0..Len(r) /\ unread = Len(r) - pos /\ unread \in Nat
         /\ lineAt \in Nat /\ lineAt < LineSize /\ LineSize \in Nat /\ LineSize > 2
         /\ k * (LineSize - 1) \in Nat /\ k * (LineSize - 1) >= k + k
         /\ pos = b + k * (LineSize - 1) + lineAt
<1>1. r \in Text /\ LineSize \in Nat \ (0..2)
  BY HandshakeAssumption
<1>2. Len(r) \in Nat /\ \A p \in 1..Len(r) : r[p] \in Bytes
  <2> HIDE DEF Bytes
  <2> QED BY <1>1, ElementOfSeq DEF Text
<1>3. unread \in 0..Len(r) /\ lineAt \in 0..(LineSize - 1)
  BY DEF Follows, TypeOK, HandshakeTypeOK, LinePositions
<1> DEFINE m == k * (LineSize - 1)
<1>4. m \in Nat /\ m >= k + k
  BY <1>1, CutsAreShort
<1>5. pos - lineAt = b + m
  BY DEF Follows
<1> HIDE DEF m
<1>6. pos = b + m + lineAt /\ pos \in 0..Len(r) /\ unread = Len(r) - pos
  BY <1>2, <1>3, <1>4, <1>5
<1> QED BY <1>1, <1>2, <1>3, <1>4, <1>6 DEF m

(* While the line goes on, no LF ends it: more of the answer is to come.     *)
LEMMA LineEnded ==
  ASSUME TypeOK, NEW r \in Responses, WellFormed(r), NEW b \in Nat, NEW k \in Nat,
         Follows(r, b, k), LineGoesOn, NEW pos, pos = Len(r) - unread
  PROVE  pos < Len(r) /\ \A p \in (b + 1)..pos : r[p] # LF
<1> DEFINE m == k * (LineSize - 1)
<1>1. /\ r \in Text /\ Len(r) \in Nat /\ pos \in 0..Len(r)
      /\ lineAt \in Nat /\ lineAt < LineSize /\ LineSize \in Nat
      /\ m \in Nat /\ pos = b + m + lineAt
  BY FollowsFacts
<1>2. /\ b < Len(r) /\ (b = 0 \/ r[b] = LF)
      /\ \A p \in (b + 1)..pos : r[p] = LF => p = pos /\ lineAt > 0
      /\ \A p \in 0..(lineAt - 1) : line[p] = r[pos - lineAt + p + 1]
  BY DEF Follows
<1>3. ASSUME NEW p \in (b + 1)..pos, r[p] = LF PROVE FALSE
  <2>1. p = pos /\ lineAt > 0 /\ r[pos] = LF
    BY <1>2, <1>3
  <2>2. CASE lineAt >= 2
    <3>1. lineAt - 1 \in 0..(lineAt - 1) /\ pos - lineAt + (lineAt - 1) + 1 = pos
      BY <1>1, <2>2
    <3>2. line[lineAt - 1] = r[pos]
      BY <1>2, <3>1
    <3> QED BY <2>1, <2>2, <3>2 DEF LineGoesOn
  <2>3. CASE lineAt = 1
    <3>1. pos \in 1..Len(r) /\ b < pos /\ pos - b = m + 1
      BY <1>1, <2>3
    <3>2. \A q \in (b + 1)..(pos - 1) : r[q] # LF
      BY <1>1, <1>2
    <3> QED BY <1>1, <1>2, <2>1, <3>1, <3>2, LinesEnd
  <2> QED BY <1>1, <2>1, <2>2, <2>3
<1>4. pos # Len(r)
  <2> SUFFICES ASSUME pos = Len(r) PROVE FALSE
    OBVIOUS
  <2>1. r[pos] = LF /\ pos \in (b + 1)..pos
    BY <1>1, <1>2 DEF WellFormed
  <2> QED BY <2>1, <1>3
<1> QED BY <1>1, <1>3, <1>4

(* At the end of the answer, the line is the empty one.                      *)
LEMMA AtTheEnd ==
  ASSUME TypeOK, NEW r \in Responses, WellFormed(r), NEW b \in Nat, NEW k \in Nat,
         Follows(r, b, k), lineAt >= 2, unread = 0
  PROVE  EmptyLine
<1> DEFINE m == k * (LineSize - 1)
           pos == Len(r)
<1>0. Len(r) = Len(r) - unread
  <2>1. Len(r) \in Nat
    BY FollowsFacts
  <2> QED BY <2>1
<1>1. /\ r \in Text /\ pos \in Nat
      /\ lineAt \in Nat /\ m \in Nat /\ m >= k + k /\ pos = b + m + lineAt
  BY <1>0, FollowsFacts
<1>2. /\ b < pos /\ (b = 0 \/ r[b] = LF)
      /\ \A p \in (b + 1)..pos : r[p] = LF => p = pos
      /\ \A p \in 0..(lineAt - 1) : line[p] = r[pos - lineAt + p + 1]
  BY <1>0 DEF Follows
<1>3. /\ pos >= 3 /\ r[pos] = LF /\ r[pos - 2] = LF
      /\ r[pos - 1] = CR
  BY <1>1 DEF WellFormed
<1>4. b = pos - 2
  <2>1. b >= pos - 2
    BY <1>1, <1>2, <1>3
  <2>2. b # pos - 1
    BY <1>1, <1>2, <1>3 DEF CR, LF
  <2> QED BY <1>1, <1>2, <2>1, <2>2
<1>5. lineAt = 2
  <2> HIDE DEF m, pos
  <2> QED BY <1>1, <1>4
<1>6. line[0] = r[pos - 1] /\ line[1] = r[pos]
  <2>1. 0 \in 0..(lineAt - 1) /\ 1 \in 0..(lineAt - 1) /\ pos - lineAt + 0 + 1 = pos - 1
        /\ pos - lineAt + 1 + 1 = pos
    BY <1>1, <1>5
  <2> HIDE DEF pos
  <2> QED BY <1>2, <2>1
<1> QED BY <1>3, <1>6 DEF EmptyLine
-----------------------------------------------------------------------------
(* What the line that just ended says: its bytes are those before pos.       *)
LEMMA LineRead ==
  ASSUME TypeOK, NEW r \in Responses, NEW b \in Nat, NEW k \in Nat,
         Follows(r, b, k), lineAt >= 2, NEW pos, pos = Len(r) - unread
  PROVE  /\ line[lineAt - 1] = r[pos] /\ line[lineAt - 2] = r[pos - 1]
         /\ line[0] = r[pos - lineAt + 1] /\ line[1] = r[pos - lineAt + 2]
         /\ pos - 1 \in 1..Len(r) /\ pos \in 1..Len(r)
<1>1. lineAt \in Nat /\ pos \in Int /\ Len(r) \in Nat /\ pos <= Len(r) /\ pos >= lineAt
  <2> DEFINE m == k * (LineSize - 1)
  <2>1. /\ m \in Nat /\ lineAt \in Nat /\ pos = b + m + lineAt /\ pos \in 0..Len(r) /\ Len(r) \in Nat
    BY FollowsFacts
  <2> HIDE DEF m
  <2> QED BY <2>1
<1>2. \A p \in 0..(lineAt - 1) : line[p] = r[pos - lineAt + p + 1]
  BY DEF Follows
<1>3. /\ lineAt - 1 \in 0..(lineAt - 1) /\ lineAt - 2 \in 0..(lineAt - 1)
      /\ 0 \in 0..(lineAt - 1) /\ 1 \in 0..(lineAt - 1)
      /\ pos - lineAt + (lineAt - 1) + 1 = pos /\ pos - lineAt + (lineAt - 2) + 1 = pos - 1
      /\ pos - lineAt + 0 + 1 = pos - lineAt + 1 /\ pos - lineAt + 1 + 1 = pos - lineAt + 2
      /\ pos - 1 \in 1..Len(r) /\ pos \in 1..Len(r)
  <2>1. lineAt >= 2 /\ lineAt \in Int /\ pos \in Int
    BY <1>1
  <2>2. lineAt - 1 \in 0..(lineAt - 1) /\ lineAt - 2 \in 0..(lineAt - 1)
        /\ 0 \in 0..(lineAt - 1) /\ 1 \in 0..(lineAt - 1)
    BY <2>1
  <2>3. /\ pos - lineAt + (lineAt - 1) + 1 = pos /\ pos - lineAt + (lineAt - 2) + 1 = pos - 1
        /\ pos - lineAt + 0 + 1 = pos - lineAt + 1 /\ pos - lineAt + 1 + 1 = pos - lineAt + 2
    BY <2>1
  <2>4. pos - 1 \in 1..Len(r) /\ pos \in 1..Len(r)
    BY <1>1, <2>1
  <2> QED BY <2>2, <2>3, <2>4
<1> QED BY <1>2, <1>3

(* A line that ends in the middle of the answer ends with its LF, or where   *)
(* the buffer does.                                                          *)
LEMMA EndsWithLF ==
  ASSUME TypeOK, NEW r \in Responses, WellFormed(r), NEW b \in Nat, NEW k \in Nat,
         Follows(r, b, k), ~LineGoesOn, NEW pos, pos = Len(r) - unread
  PROVE  lineAt >= 2 /\ (lineAt = LineSize - 1 \/ r[pos] = LF)
<1>1. /\ lineAt >= 2
      /\ lineAt >= LineSize - 1 \/ line[lineAt - 2] = CR \/ line[lineAt - 1] = LF
  <2>1. lineAt \in Nat /\ LineSize \in Nat
    BY FollowsFacts
  <2> QED BY <2>1 DEF LineGoesOn
<1>2. /\ line[lineAt - 1] = r[pos] /\ line[lineAt - 2] = r[pos - 1]
      /\ pos - 1 \in 1..Len(r) /\ pos \in Int
  BY <1>1, LineRead
<1>3. r[pos - 1] = CR => r[pos] = LF
  <2>1. r \in Text
    BY FollowsFacts
  <2>2. pos - 1 \in DOMAIN r /\ (pos - 1) + 1 = pos
    BY <2>1, <1>2 DEF Text
  <2> QED BY <2>2 DEF WellFormed
<1>4. lineAt >= LineSize - 1 => lineAt = LineSize - 1
  <2>1. lineAt \in Nat /\ LineSize \in Nat /\ lineAt < LineSize
    BY FollowsFacts
  <2> QED BY <2>1
<1> QED BY <1>1, <1>2, <1>3, <1>4

(* The next line begins where the last one ended.                            *)
LEMMA NextLine ==
  ASSUME TypeOK, NEW r \in Responses, NEW b \in Nat, NEW k \in Nat,
         Follows(r, b, k), NEW pos, pos = Len(r) - unread,
         r[pos] = LF, unread # 0, lineAt' = 0, UNCHANGED <<unread, wire>>
  PROVE  pos \in Nat /\ Follows(r, pos, 0)'
<1>1. pos \in 0..Len(r) /\ Len(r) \in Nat /\ unread = Len(r) - pos /\ LineSize \in Nat
  BY FollowsFacts
<1>2. pos - 0 = pos + 0 * (LineSize - 1) /\ pos < Len(r)
      /\ (pos + 1)..pos = {} /\ 0..(0 - 1) = {}
  <2>1. \A p, n, u, l \in Int : u = n - p /\ u # 0 /\ p <= n =>
          /\ p - 0 = p + 0 * (l - 1) /\ p < n
          /\ (p + 1)..p = {} /\ 0..(0 - 1) = {}
    OBVIOUS
  <2>2. pos \in Int /\ Len(r) \in Int /\ unread \in Int /\ LineSize \in Int /\ pos <= Len(r)
    BY <1>1
  <2> QED BY <1>1, <2>1, <2>2
<1>3. /\ unread' \in 0..Len(r) /\ unread' <= Len(wire')
      /\ \A p \in 1..unread' : wire'[p] = r[Len(r) - unread' + p]
  BY DEF Follows
<1>4. Len(r) - unread' = pos /\ lineAt' = 0
  BY <1>1
<1>5. \A p \in (pos + 1)..pos : r[p] = LF => p = pos /\ lineAt' > 0
  BY <1>2
<1>6. \A p \in 0..(0 - 1) : line'[p] = r[Len(r) - unread' - 0 + p + 1]
  BY <1>2
<1>7. Follows(r, pos, 0)'
  BY <1>2, <1>3, <1>4, <1>5, <1>6 DEF Follows
<1> QED BY <1>1, <1>7

AllWellFormed == \A r \in Responses : WellFormed(r)

(* Another line of the answer, or the answer of a station just reached.      *)
LEMMA FollowingAtLine ==
  ASSUME NEW r \in Responses, NEW b \in Nat, Follows(r, b, 0)', b # 0 \/ handshake' # "headers"
  PROVE  Following'
BY DEF Following

LEMMA ConnectStep ==
  ASSUME TypeOK, AllWellFormed, HandshakeInv, hostname_connect
  PROVE  HandshakeInv'
<1>1. lineAt = 0 /\ lineAt' = 0 /\ handshake' \in {"status", "refused"}
  BY DEF hostname_connect, HandshakeInv
<1>2. ASSUME handshake' = "status", ~broken' PROVE Following'
  <2>1. PICK r \in Responses : wire' = r /\ unread' = Len(r)
    BY <1>2 DEF hostname_connect
  <2>2. r \in Text /\ LineSize \in Nat
    BY HandshakeAssumption
  <2>3. Len(r) \in Nat /\ Len(r) >= 3
    BY <2>2 DEF AllWellFormed, WellFormed, Text
  <2>4. /\ unread' \in 0..Len(r) /\ unread' <= Len(wire') /\ Len(r) - unread' = 0
        /\ 0 - 0 = 0 + 0 * (LineSize - 1) /\ 0 < Len(r)
        /\ (0 + 1)..0 = {} /\ 0..(0 - 1) = {}
    BY <2>1, <2>2, <2>3
  <2>5. \A p \in 1..unread' : wire'[p] = r[0 + p]
    BY <2>1, <2>3
  <2>6. \A p \in (0 + 1)..0 : r[p] = LF => p = 0 /\ lineAt' > 0
    BY <2>4
  <2>7. \A p \in 0..(0 - 1) : line'[p] = r[0 - 0 + p + 1]
    BY <2>4
  <2>8. Follows(r, 0, 0)'
    BY <1>1, <2>4, <2>5, <2>6, <2>7 DEF Follows
  <2> QED BY <2>8, <1>2, FollowingAtLine
<1> QED BY <1>1, <1>2 DEF HandshakeInv, Answered

LEMMA ReadStep ==
  ASSUME TypeOK, AllWellFormed, HandshakeInv, recvOne
  PROVE  HandshakeInv'
<1>0. Answered /\ LineGoesOn /\ ~broken /\ handshake' = handshake /\ broken' = broken
  BY DEF recvOne, Reading, Answered
<1>1. PICK r \in Responses, b \in Nat, k \in Nat :
        Follows(r, b, k) /\ (handshake = "headers" => b # 0)
  BY <1>0 DEF HandshakeInv, Following
<1> DEFINE pos == Len(r) - unread
           m == k * (LineSize - 1)
<1>2. pos < Len(r) /\ \A p \in (b + 1)..pos : r[p] # LF
  BY <1>0, <1>1, LineEnded DEF AllWellFormed
<1>3. /\ r \in Text /\ Len(r) \in Nat /\ pos \in 0..Len(r) /\ unread = Len(r) - pos /\ unread \in Nat
      /\ lineAt \in Nat /\ LineSize \in Nat /\ LineSize > 2 /\ lineAt < LineSize
      /\ m \in Nat /\ pos = b + m + lineAt
  BY <1>1, FollowsFacts
<1>4. /\ unread <= Len(wire) /\ \A p \in 1..unread : wire[p] = r[pos + p]
      /\ b < Len(r) /\ (b = 0 \/ r[b] = LF)
      /\ \A p \in 0..(lineAt - 1) : line[p] = r[pos - lineAt + p + 1]
  BY <1>1 DEF Follows
<1>5. /\ wire # <<>> /\ wire' = Tail(wire) /\ unread' = unread - 1 /\ lineAt' = lineAt + 1
      /\ line' = [line EXCEPT ![lineAt] = Head(wire)]
  BY DEF recvOne
<1>6. /\ wire \in Text /\ line \in [LinePositions -> Bytes] /\ lineAt \in LinePositions
  BY DEF TypeOK, WsTypeOK, HandshakeTypeOK
<1>7. /\ Len(wire) \in Nat /\ Len(wire') = Len(wire) - 1 /\ Head(wire) = wire[1]
      /\ \A p \in 1..Len(wire') : wire'[p] = wire[p + 1]
  BY <1>5, <1>6, HeadTailProperties DEF Text
<1> HIDE DEF m, pos
<1>8. /\ unread >= 1 /\ unread' \in 0..Len(r) /\ unread' <= Len(wire')
      /\ Len(r) - unread' = pos + 1
  BY <1>2, <1>3, <1>4, <1>5, <1>7
<1>9. \A p \in 1..unread' : wire'[p] = r[(pos + 1) + p]
  <2> SUFFICES ASSUME NEW p \in 1..unread' PROVE wire'[p] = r[(pos + 1) + p]
    OBVIOUS
  <2>1. p \in 1..Len(wire') /\ p + 1 \in 1..unread /\ pos + (p + 1) = (pos + 1) + p
    BY <1>3, <1>5, <1>7, <1>8
  <2> QED BY <2>1, <1>4, <1>7
<1>10. (pos + 1) - (lineAt + 1) = b + m /\ (pos + 1) - (lineAt + 1) = pos - lineAt
  BY <1>3
<1>11. \A p \in (b + 1)..(pos + 1) : r[p] = LF => p = pos + 1 /\ lineAt' > 0
  <2> SUFFICES ASSUME NEW p \in (b + 1)..(pos + 1), r[p] = LF PROVE p = pos + 1 /\ lineAt' > 0
    OBVIOUS
  <2>1. p \notin (b + 1)..pos
    BY <1>2
  <2>2. p = pos + 1
    BY <2>1, <1>3
  <2> QED BY <2>2, <1>3, <1>5
<1>12. \A p \in 0..lineAt : line'[p] = r[pos - lineAt + p + 1]
  <2> SUFFICES ASSUME NEW p \in 0..lineAt PROVE line'[p] = r[pos - lineAt + p + 1]
    OBVIOUS
  <2>1. p \in LinePositions
    BY <1>3 DEF LinePositions
  <2>2. CASE p = lineAt
    <3>1. line'[p] = wire[1] /\ 1 \in 1..unread
      BY <2>1, <2>2, <1>3, <1>5, <1>6, <1>7, <1>8
    <3>2. pos - lineAt + p + 1 = pos + 1
      BY <2>2, <1>3
    <3> QED BY <3>1, <3>2, <1>4
  <2>3. CASE p # lineAt
    <3>1. p \in 0..(lineAt - 1)
      BY <2>3, <1>3
    <3>2. line'[p] = line[p]
      BY <2>1, <2>3, <1>5, <1>6
    <3> QED BY <3>1, <3>2, <1>4
  <2> QED BY <2>2, <2>3
<1>13. lineAt' - 1 = lineAt
  BY <1>3, <1>5
<1>14. Follows(r, b, k)'
  BY <1>4, <1>5, <1>8, <1>9, <1>10, <1>11, <1>12, <1>13 DEF Follows, m
<1>15. Following'
  BY <1>0, <1>1, <1>14 DEF Following
<1>16. handshake = "headers" /\ lineAt' < 2 => line'[1] # LF
  <2>1. lineAt' < 2 => lineAt = 0 /\ lineAt < 2
    BY <1>3, <1>5
  <2>2. 1 \in LinePositions
    BY <1>3 DEF LinePositions
  <2>3. lineAt = 0 => line'[1] = line[1]
    BY <2>2, <1>5, <1>6
  <2> QED BY <2>1, <2>3, <1>0 DEF HandshakeInv
<1> QED BY <1>0, <1>15, <1>16 DEF HandshakeInv, Answered

(* The connection breaks in the middle of a line, which is no empty one.     *)
LEMMA BreakStep ==
  ASSUME TypeOK, AllWellFormed, HandshakeInv, connectionBreaks
  PROVE  HandshakeInv'
<1>0. /\ Answered /\ LineGoesOn /\ ~broken /\ broken'
      /\ UNCHANGED <<handshake, line, lineAt, unread>>
  BY DEF connectionBreaks, Reading, Answered
<1>1. PICK r \in Responses, b \in Nat, k \in Nat :
        Follows(r, b, k) /\ (handshake = "headers" => b # 0)
  BY <1>0 DEF HandshakeInv, Following
<1> DEFINE pos == Len(r) - unread
           m == k * (LineSize - 1)
<1>2. \A p \in (b + 1)..pos : r[p] # LF
  BY <1>0, <1>1, LineEnded DEF AllWellFormed
<1>3. lineAt \in Nat /\ pos \in Nat /\ m \in Nat /\ pos = b + m + lineAt
  BY <1>1, FollowsFacts
<1>4. handshake = "headers" => ~EmptyLine
  <2> SUFFICES ASSUME handshake = "headers", line[1] = LF PROVE FALSE
    BY DEF EmptyLine
  <2>1. lineAt >= 2
    BY <1>0, <1>3 DEF HandshakeInv
  <2>2. line[1] = r[pos - lineAt + 2]
    BY <2>1, <1>1, LineRead
  <2> HIDE DEF pos, m
  <2>3. pos - lineAt + 2 \in (b + 1)..pos
    BY <2>1, <1>3
  <2> QED BY <2>2, <2>3, <1>2
<1>5. EmptyLine' = EmptyLine
  BY <1>0 DEF EmptyLine
<1> QED BY <1>0, <1>4, <1>5 DEF HandshakeInv, Answered

LEMMA StatusStep ==
  ASSUME TypeOK, AllWellFormed, HandshakeInv, statusLine
  PROVE  HandshakeInv'
<1>0. /\ handshake = "status" /\ ~LineGoesOn /\ lineAt' = 0 /\ UNCHANGED <<broken, unread, wire>>
      /\ line' = [line EXCEPT ![lineAt] = NUL]
      /\ handshake' \in {"refused", "headers"}
      /\ handshake' = "headers" => lineAt # LineSize - 1 /\ IsSwitching
  BY DEF statusLine
<1>1. CASE handshake' = "refused"
  BY <1>1 DEF HandshakeInv, Answered
<1>2. CASE handshake' = "headers"
  <2>1. lineAt \in Nat /\ lineAt >= 2 /\ LineSize \in Nat /\ LineSize > 2
    <3>1. lineAt \in Nat /\ LineSize \in Nat /\ LineSize > 2
      BY HandshakeAssumption DEF TypeOK, HandshakeTypeOK, LinePositions
    <3> QED BY <3>1, <1>0 DEF LineGoesOn
  <2>2. line'[0] = 72 /\ line'[1] = 49
    <3>1. 0 \in LinePositions /\ 1 \in LinePositions /\ 0 # lineAt /\ 1 # lineAt
      BY <2>1 DEF LinePositions
    <3> QED BY <3>1, <1>0, <1>2 DEF TypeOK, HandshakeTypeOK, IsSwitching
  <2>3. ASSUME ~broken PROVE Following'
    <3>1. PICK r \in Responses, b \in Nat, k \in Nat : Follows(r, b, k)
      BY <1>0, <2>3 DEF HandshakeInv, Following, Answered
    <3> DEFINE pos == Len(r) - unread
               m == k * (LineSize - 1)
    <3>2. r[pos] = LF
      BY <1>0, <1>2, <3>1, EndsWithLF DEF AllWellFormed
    <3>3. unread # 0
      BY <1>0, <1>2, <2>1, <3>1, AtTheEnd DEF AllWellFormed, EmptyLine, IsSwitching, CR
    <3>4. m \in Nat /\ pos \in Nat /\ pos = b + m + lineAt
      BY <3>1, FollowsFacts
    <3>5. PICK e \in Nat : e = pos
      BY <3>4
    <3>6. e # 0
      <4> HIDE DEF m, pos
      <4> QED BY <3>4, <3>5, <2>1
    <3>7. Follows(r, e, 0)'
      BY <1>0, <3>1, <3>2, <3>3, <3>5, NextLine
    <3> QED BY <3>6, <3>7, FollowingAtLine
  <2>4. ~EmptyLine' /\ line'[1] # LF
    BY <2>2 DEF EmptyLine, CR, LF
  <2> QED BY <1>0, <1>2, <2>3, <2>4 DEF HandshakeInv, Answered
<1> QED BY <1>0, <1>1, <1>2

LEMMA HeaderStep ==
  ASSUME TypeOK, AllWellFormed, HandshakeInv, headerLine
  PROVE  HandshakeInv'
<1>0. /\ handshake = "headers" /\ ~LineGoesOn /\ lineAt' = 0 /\ UNCHANGED <<broken, unread, wire>>
      /\ EmptyLine => handshake' = "done"
      /\ ~EmptyLine => UNCHANGED <<handshake, line>>
  BY DEF headerLine
<1>1. CASE broken
  BY <1>0, <1>1 DEF HandshakeInv, Answered, EmptyLine
<1>2. CASE ~broken
  <2>1. PICK r \in Responses, b \in Nat, k \in Nat : Follows(r, b, k) /\ b # 0
    BY <1>0, <1>2 DEF HandshakeInv, Following, Answered
  <2> DEFINE pos == Len(r) - unread
             m == k * (LineSize - 1)
  <2>2. lineAt >= 2 /\ (lineAt = LineSize - 1 \/ r[pos] = LF) /\ WellFormed(r)
    BY <1>0, <2>1, EndsWithLF DEF AllWellFormed
  <2>3. /\ r \in Text /\ Len(r) \in Nat /\ pos \in 0..Len(r) /\ unread = Len(r) - pos
        /\ lineAt \in Nat /\ LineSize \in Nat /\ LineSize > 2
        /\ m \in Nat /\ pos = b + m + lineAt
    BY <2>1, FollowsFacts
  <2>4. /\ b < Len(r) /\ (b = 0 \/ r[b] = LF)
        /\ \A p \in (b + 1)..pos : r[p] = LF => p = pos /\ lineAt > 0
        /\ unread \in 0..Len(r) /\ unread <= Len(wire) /\ \A p \in 1..unread : wire[p] = r[pos + p]
    BY <2>1 DEF Follows
  <2>5. /\ line[0] = r[pos - lineAt + 1] /\ line[1] = r[pos - lineAt + 2] /\ pos \in 1..Len(r)
    BY <2>1, <2>2, LineRead
  (* A second byte LF is the end of the answer. *)
  <2>6. ASSUME line[1] = LF PROVE EmptyLine /\ unread = 0
    <3> HIDE DEF pos, m
    <3>1. pos - lineAt + 2 \in (b + 1)..pos
      BY <2>2, <2>3
    <3>2. pos - lineAt + 2 = pos
      BY <3>1, <2>4, <2>5, <2>6
    <3>3. lineAt = 2 /\ r[pos] = LF /\ line[0] = r[pos - 1]
      <4>1. lineAt = 2 /\ pos - lineAt + 1 = pos - 1
        BY <3>2, <2>3
      <4> QED BY <4>1, <3>2, <2>5, <2>6
    <3>4. \A q \in (b + 1)..(pos - 1) : r[q] # LF
      BY <2>3, <2>4
    <3>5. pos - b = m + 2 /\ b < pos
      BY <2>3, <3>3
    <3>6. k = 0
      <4>1. pos - b = k * (LineSize - 1) + 2
        BY <3>5 DEF m
      <4>2. pos \in 1..Len(r) /\ b < pos /\ (b = 0 \/ r[b] = LF) /\ r[pos] = LF
        BY <2>4, <2>5, <3>3, <3>5
      <4>3. PICK e \in 1..Len(r) : e = pos
        BY <4>2
      <4>4. e - b = k * (LineSize - 1) + 2 => k = 0
        BY <2>2, <2>3, <3>4, <4>2, <4>3, LinesEnd
      <4> QED BY <4>1, <4>3, <4>4
    <3>7. m = 0
      BY <3>6, <2>3 DEF m
    <3>8. b = pos - 2 /\ r[b] = LF /\ b + 2 = pos /\ b >= 1
      <4>1. b = pos - 2 /\ b + 2 = pos
        BY <2>3, <3>5, <3>7
      <4>2. b >= 1
        BY <2>1
      <4> QED BY <2>4, <4>1, <4>2
    <3>9. b > Len(r) - 3
      <4>1. \A q \in 1..(Len(r) - 3) : ~(r[q] = LF /\ r[q + 2] = LF)
        BY <2>2 DEF WellFormed
      <4>2. r[b + 2] = LF
        BY <3>3, <3>8
      <4>3. b \notin 1..(Len(r) - 3)
        BY <4>1, <4>2, <3>8
      <4> QED BY <4>3, <2>3, <3>8
    <3>10. unread = 0
      BY <3>8, <3>9, <2>3
    <3>11. line[0] = CR
      <4>1. pos \in DOMAIN r
        BY <2>3, <2>5 DEF Text
      <4> QED BY <4>1, <2>2, <3>3 DEF WellFormed
    <3> QED BY <2>6, <3>10, <3>11 DEF EmptyLine
  <2>7. CASE EmptyLine
    BY <1>0, <2>6, <2>7 DEF HandshakeInv, Answered, EmptyLine
  <2>8. CASE ~EmptyLine
    <3>1. line[1] # LF /\ unread # 0
      BY <2>1, <2>2, <2>6, <2>8, AtTheEnd
    <3>2. Following'
      <4>1. CASE r[pos] = LF
        <5>1. PICK e \in Nat : e = pos /\ e # 0
          BY <2>3, <2>5
        <5>2. Follows(r, e, 0)'
          BY <1>0, <2>1, <3>1, <4>1, <5>1, NextLine
        <5> QED BY <5>1, <5>2, FollowingAtLine
      <4>2. CASE r[pos] # LF
        <5>1. lineAt = LineSize - 1
          BY <2>2, <4>2
        <5>2. (k + 1) * (LineSize - 1) = m + (LineSize - 1)
          BY <2>3, CutsAreShort
        <5> HIDE DEF m, pos
        <5>3. pos - 0 = b + (k + 1) * (LineSize - 1) /\ 0..(0 - 1) = {} /\ Len(r) - unread' = pos
          BY <1>0, <2>3, <5>1, <5>2
        <5>4. \A p \in (b + 1)..pos : r[p] = LF => p = pos /\ 0 > 0
          BY <2>4, <4>2
        <5>5. \A p \in 0..(0 - 1) : line'[p] = r[pos - 0 + p + 1]
          BY <5>3
        <5>6. /\ unread' \in 0..Len(r) /\ unread' <= Len(wire')
              /\ \A p \in 1..unread' : wire'[p] = r[pos + p]
          BY <1>0, <2>4
        <5>7. Follows(r, b, k + 1)'
          BY <1>0, <2>4, <5>3, <5>4, <5>5, <5>6 DEF Follows
        <5> QED BY <2>1, <5>7 DEF Following
      <4> QED BY <4>1, <4>2
    <3> QED BY <1>0, <1>2, <2>8, <3>1, <3>2 DEF HandshakeInv, Answered
  <2> QED BY <2>7, <2>8
<1> QED BY <1>1, <1>2

(* What the station sends after its answer comes behind it.                  *)
LEMMA SendStep ==
  ASSUME TypeOK, HandshakeInv, stationSends
  PROVE  HandshakeInv'
<1>1. PICK framing \in Framings, format \in Formats, number \in Contents :
        wire' = wire \o Sent(framing, TextOf(format, number))
  BY DEF stationSends, transmit
<1> DEFINE more == Sent(framing, TextOf(format, number))
<1>2. UNCHANGED handshakeVars
  BY DEF stationSends
<1>3. wire \in Text /\ more \in Text
  BY TextOfType, SentType DEF TypeOK, WsTypeOK
<1> HIDE DEF more
<1>4. /\ Len(wire) \in Nat /\ Len(wire') \in Nat /\ Len(wire') >= Len(wire)
      /\ \A p \in 1..Len(wire) : wire'[p] = wire[p]
  BY <1>1, <1>3, ConcatProperties, LenProperties DEF Text, more
<1>5. ASSUME NEW r \in Responses, NEW b \in Nat, NEW k \in Nat, Follows(r, b, k)
      PROVE  Follows(r, b, k)'
  <2>1. /\ unread \in 0..Len(r) /\ unread <= Len(wire)
        /\ \A p \in 1..unread : wire[p] = r[Len(r) - unread + p]
    BY <1>5 DEF Follows
  <2>2. unread \in Nat
    BY <1>5, FollowsFacts
  <2>3. unread <= Len(wire') /\ \A p \in 1..unread : wire'[p] = r[Len(r) - unread + p]
    <3>1. \A p \in 1..unread : p \in 1..Len(wire)
      BY <2>1, <2>2, <1>4
    <3> QED BY <2>1, <2>2, <3>1, <1>4
  <2> QED BY <1>5, <1>2, <2>3 DEF Follows, handshakeVars
<1>6. Following => Following'
  BY <1>2, <1>5 DEF Following, handshakeVars
<1> QED BY <1>2, <1>6 DEF HandshakeInv, Answered, EmptyLine, handshakeVars

LEMMA HandshakeStep ==
  ASSUME IInv, AllWellFormed, HandshakeInv, [Next]_vars
  PROVE  HandshakeInv'
<1>0. TypeOK
  BY DEF IInv
<1>1. CASE connect
  <2>1. CASE recvFailsUnseen
    BY <2>1 DEF recvFailsUnseen, Reading, HandshakeInv, Answered, EmptyLine
  <2> QED BY <1>0, <1>1, <2>1, ConnectStep, ReadStep, StatusStep, HeaderStep DEF connect, from_url
<1>2. CASE connectionLost
  <2>1. CASE recvEnds
    BY <2>1 DEF recvEnds, HandshakeInv, Answered
  <2>2. CASE stationFallsSilent
    <3>1. UNCHANGED <<handshake, line, lineAt, broken, unread, wire>>
      BY <2>2 DEF stationFallsSilent
    <3>2. Following' = Following /\ EmptyLine' = EmptyLine
      BY <3>1 DEF Following, Follows, EmptyLine
    <3> QED BY <3>1, <3>2 DEF HandshakeInv, Answered
  <2> QED BY <1>0, <1>2, <2>1, <2>2, BreakStep DEF connectionLost, lost
<1>3. CASE stationSends
  BY <1>0, <1>3, SendStep
<1>4. ASSUME handshake = "done", UNCHANGED handshakeVars PROVE HandshakeInv'
  BY <1>4 DEF HandshakeInv, Answered, handshakeVars
<1>5. CASE Loop
  <2>1. handshake = "done" /\ UNCHANGED handshakeVars
    BY <1>5 DEF Loop, LoopLives, receive, pollAndDispatch, loopSends, checkCmdToSend, parseNothing,
                parseMessage, report
  <2> QED BY <2>1, <1>4
<1>6. CASE hostSends
  BY <1>4, <1>6 DEF hostSends, Idle
<1>7. ASSUME UNCHANGED <<handshakeVars, wire>> PROVE HandshakeInv'
  <2>1. Following' = Following /\ EmptyLine' = EmptyLine
    BY <1>7 DEF Following, Follows, EmptyLine, handshakeVars
  <2> QED BY <1>7, <2>1 DEF HandshakeInv, Answered, handshakeVars
<1>8. CASE stationPrints \/ hostTakes \/ stop \/ disconnect \/ closeAnyConnection \/ UNCHANGED vars
  <2>1. UNCHANGED <<handshakeVars, wire>>
    BY <1>8 DEF stationPrints, hostTakes, stop, disconnect, closeAnyConnection, HostStep, vars, ws
  <2> QED BY <2>1, <1>7
<1> QED BY <1>1, <1>2, <1>3, <1>5, <1>6, <1>8 DEF Next, Host

(* The handshake reads the station's answer to its last byte, and no byte of *)
(* the frames that follow it, however its bytes come in, wherever its lines  *)
(* are cut and whatever lay in the buffer before, if every answer is well    *)
(* formed (from_url).                                                        *)
THEOREM HandshakeIsExact ==
  ASSUME \A r \in Responses : WellFormed(r)
  PROVE  Spec => []HandshakeExact
<1>1. AllWellFormed
  BY DEF AllWellFormed
<1>2. Init => IInv /\ HandshakeInv
  <2>1. Init => HandshakeInv
    BY DEF Init, HandshakeInit, HandshakeInv, Answered
  <2> QED BY <2>1, InitIInv
<1>3. IInv /\ HandshakeInv /\ [Next]_vars => (IInv /\ HandshakeInv)'
  BY <1>1, StepType, HandshakeStep
<1>4. HandshakeInv => HandshakeExact
  BY DEF HandshakeInv, HandshakeExact
<1> QED BY <1>2, <1>3, <1>4, PTL DEF Spec
-----------------------------------------------------------------------------
(* A byte is its bits.                                                       *)
LEMMA BitsOfByte ==
  ASSUME NEW a \in Bytes
  PROVE  \E x0, x1, x2, x3, x4, x5, x6, x7 \in {0, 1} :
           a = x0 + 2 * x1 + 4 * x2 + 8 * x3 + 16 * x4 + 32 * x5 + 64 * x6 + 128 * x7
<1>1. \A n \in Nat : \E q \in Nat, x \in {0, 1} : n = 2 * q + x
  <2> SUFFICES ASSUME NEW n \in Nat PROVE \E q \in Nat, x \in {0, 1} : n = 2 * q + x
    OBVIOUS
  <2>1. n \div 2 \in Nat /\ n % 2 \in {0, 1} /\ n = 2 * (n \div 2) + (n % 2)
    OBVIOUS
  <2> QED BY <2>1
<1>2. a \in Nat /\ a <= 255
  BY DEF Bytes
<1>3. PICK q1 \in Nat, x0 \in {0, 1} : a = 2 * q1 + x0
  BY <1>1, <1>2
<1>4. PICK q2 \in Nat, x1 \in {0, 1} : q1 = 2 * q2 + x1
  BY <1>1
<1>5. PICK q3 \in Nat, x2 \in {0, 1} : q2 = 2 * q3 + x2
  BY <1>1
<1>6. PICK q4 \in Nat, x3 \in {0, 1} : q3 = 2 * q4 + x3
  BY <1>1
<1>7. PICK q5 \in Nat, x4 \in {0, 1} : q4 = 2 * q5 + x4
  BY <1>1
<1>8. PICK q6 \in Nat, x5 \in {0, 1} : q5 = 2 * q6 + x5
  BY <1>1
<1>9. PICK q7 \in Nat, x6 \in {0, 1} : q6 = 2 * q7 + x6
  BY <1>1
<1>10. q7 \in {0, 1}
  BY <1>2, <1>3, <1>4, <1>5, <1>6, <1>7, <1>8, <1>9
<1>11. a = x0 + 2 * x1 + 4 * x2 + 8 * x3 + 16 * x4 + 32 * x5 + 64 * x6 + 128 * q7
  BY <1>3, <1>4, <1>5, <1>6, <1>7, <1>8, <1>9
<1> QED BY <1>10, <1>11

LEMMA BitsAre ==
  ASSUME NEW x0 \in {0, 1}, NEW x1 \in {0, 1}, NEW x2 \in {0, 1}, NEW x3 \in {0, 1},
         NEW x4 \in {0, 1}, NEW x5 \in {0, 1}, NEW x6 \in {0, 1}, NEW x7 \in {0, 1}, NEW a,
         a = x0 + 2 * x1 + 4 * x2 + 8 * x3 + 16 * x4 + 32 * x5 + 64 * x6 + 128 * x7
  PROVE  /\ (a \div 1) % 2 = x0 /\ (a \div 2) % 2 = x1 /\ (a \div 4) % 2 = x2
         /\ (a \div 8) % 2 = x3 /\ (a \div 16) % 2 = x4 /\ (a \div 32) % 2 = x5
         /\ (a \div 64) % 2 = x6 /\ (a \div 128) % 2 = x7
<1>0. \A q \in Int, x \in {0, 1} : (2 * q + x) % 2 = x
  OBVIOUS
<1>1. a \div 1 = 2 * (x1 + 2 * x2 + 4 * x3 + 8 * x4 + 16 * x5 + 32 * x6 + 64 * x7) + x0
  OBVIOUS
<1>2. a \div 2 = 2 * (x2 + 2 * x3 + 4 * x4 + 8 * x5 + 16 * x6 + 32 * x7) + x1
  OBVIOUS
<1>3. a \div 4 = 2 * (x3 + 2 * x4 + 4 * x5 + 8 * x6 + 16 * x7) + x2
  OBVIOUS
<1>4. a \div 8 = 2 * (x4 + 2 * x5 + 4 * x6 + 8 * x7) + x3
  OBVIOUS
<1>5. a \div 16 = 2 * (x5 + 2 * x6 + 4 * x7) + x4
  OBVIOUS
<1>6. a \div 32 = 2 * (x6 + 2 * x7) + x5
  OBVIOUS
<1>7. a \div 64 = 2 * x7 + x6
  OBVIOUS
<1>8. a \div 128 = 2 * 0 + x7
  OBVIOUS
<1>a. (a \div 1) % 2 = x0
  BY <1>0, <1>1
<1>b. (a \div 2) % 2 = x1
  BY <1>0, <1>2
<1>c. (a \div 4) % 2 = x2
  BY <1>0, <1>3
<1>d. (a \div 8) % 2 = x3
  BY <1>0, <1>4
<1>e. (a \div 16) % 2 = x4
  BY <1>0, <1>5
<1>f. (a \div 32) % 2 = x5
  BY <1>0, <1>6
<1>g. (a \div 64) % 2 = x6
  BY <1>0, <1>7
<1>h. (a \div 128) % 2 = x7
  BY <1>0, <1>8
<1> QED BY <1>a, <1>b, <1>c, <1>d, <1>e, <1>f, <1>g, <1>h

(* Combining with the same byte twice changes nothing.                       *)
LEMMA XorTwice ==
  ASSUME NEW a \in Bytes, NEW b \in Bytes
  PROVE  Xor(Xor(a, b), b) = a
<1> DEFINE bit(d, n) == (d \div n) % 2
           plus(x, y) == (x + y) % 2
           c == Xor(a, b)
<1>1. a \in Nat /\ b \in Nat /\ c \in Nat /\ c \in Bytes
  <2>1. Xor(a, b) \in Bytes
    BY XorType
  <2>2. \A d \in Bytes : d \in Nat
    BY DEF Bytes
  <2> QED BY <2>1, <2>2
<1>2. \A m, n \in Int : (m + n) % 2 = ((m % 2) + (n % 2)) % 2
  OBVIOUS
<1>3. \A d, e \in Nat, n \in Nat \ {0} : ((d \div n) + (e \div n)) % 2 = plus(bit(d, n), bit(e, n))
  <2>1. \A d \in Nat, n \in Nat \ {0} : d \div n \in Int
    OBVIOUS
  <2> QED BY <2>1, <1>2
<1>4. \A d, e \in Nat :
        Xor(d, e) = plus(bit(d, 1), bit(e, 1)) * 1 + plus(bit(d, 2), bit(e, 2)) * 2
                  + plus(bit(d, 4), bit(e, 4)) * 4 + plus(bit(d, 8), bit(e, 8)) * 8
                  + plus(bit(d, 16), bit(e, 16)) * 16 + plus(bit(d, 32), bit(e, 32)) * 32
                  + plus(bit(d, 64), bit(e, 64)) * 64 + plus(bit(d, 128), bit(e, 128)) * 128
  BY <1>3 DEF Xor
<1>5. PICK x0, x1, x2, x3, x4, x5, x6, x7 \in {0, 1} :
        a = x0 + 2 * x1 + 4 * x2 + 8 * x3 + 16 * x4 + 32 * x5 + 64 * x6 + 128 * x7
  BY BitsOfByte
<1>6. PICK y0, y1, y2, y3, y4, y5, y6, y7 \in {0, 1} :
        b = y0 + 2 * y1 + 4 * y2 + 8 * y3 + 16 * y4 + 32 * y5 + 64 * y6 + 128 * y7
  BY BitsOfByte
<1>7. \A x, y \in {0, 1} : plus(x, y) \in {0, 1} /\ plus(plus(x, y), y) = x
  OBVIOUS
<1>8. /\ bit(a, 1) = x0 /\ bit(a, 2) = x1 /\ bit(a, 4) = x2 /\ bit(a, 8) = x3
      /\ bit(a, 16) = x4 /\ bit(a, 32) = x5 /\ bit(a, 64) = x6 /\ bit(a, 128) = x7
  BY <1>5, BitsAre
<1>9. /\ bit(b, 1) = y0 /\ bit(b, 2) = y1 /\ bit(b, 4) = y2 /\ bit(b, 8) = y3
      /\ bit(b, 16) = y4 /\ bit(b, 32) = y5 /\ bit(b, 64) = y6 /\ bit(b, 128) = y7
  BY <1>6, BitsAre
<1> HIDE DEF bit, c, plus
<1>10. PICK z0, z1, z2, z3, z4, z5, z6, z7 \in {0, 1} :
         /\ z0 = plus(x0, y0) /\ z1 = plus(x1, y1) /\ z2 = plus(x2, y2) /\ z3 = plus(x3, y3)
         /\ z4 = plus(x4, y4) /\ z5 = plus(x5, y5) /\ z6 = plus(x6, y6) /\ z7 = plus(x7, y7)
  BY <1>7
<1>11. c = z0 * 1 + z1 * 2 + z2 * 4 + z3 * 8 + z4 * 16 + z5 * 32 + z6 * 64 + z7 * 128
  BY <1>1, <1>4, <1>8, <1>9, <1>10 DEF c
<1>a. c = z0 + 2 * z1 + 4 * z2 + 8 * z3 + 16 * z4 + 32 * z5 + 64 * z6 + 128 * z7
  BY <1>11
<1>b. /\ bit(c, 1) = z0 /\ bit(c, 2) = z1 /\ bit(c, 4) = z2 /\ bit(c, 8) = z3
      /\ bit(c, 16) = z4 /\ bit(c, 32) = z5 /\ bit(c, 64) = z6 /\ bit(c, 128) = z7
  BY <1>a, BitsAre DEF bit
<1>c. /\ plus(z0, y0) = x0 /\ plus(z1, y1) = x1 /\ plus(z2, y2) = x2 /\ plus(z3, y3) = x3
      /\ plus(z4, y4) = x4 /\ plus(z5, y5) = x5 /\ plus(z6, y6) = x6 /\ plus(z7, y7) = x7
  BY <1>7, <1>10
<1>12. Xor(c, b) = x0 * 1 + x1 * 2 + x2 * 4 + x3 * 8 + x4 * 16 + x5 * 32 + x6 * 64 + x7 * 128
  BY <1>1, <1>4, <1>9, <1>b, <1>c
<1>13. Xor(c, b) = a
  BY <1>5, <1>12
<1> QED BY <1>13 DEF c
-----------------------------------------------------------------------------
LEMMA ConcatElements ==
  ASSUME NEW S, NEW s \in Seq(S), NEW t \in Seq(S)
  PROVE  /\ s \o t \in Seq(S) /\ Len(s) \in Nat /\ Len(t) \in Nat /\ Len(s \o t) = Len(s) + Len(t)
         /\ \A k \in 1..Len(s) : (s \o t)[k] = s[k]
         /\ \A k \in 1..Len(t) : (s \o t)[Len(s) + k] = t[k]
<1>1. /\ s \o t \in Seq(S) /\ Len(s \o t) = Len(s) + Len(t)
      /\ \A k \in 1..(Len(s) + Len(t)) : (s \o t)[k] = IF k <= Len(s) THEN s[k] ELSE t[k - Len(s)]
  BY ConcatProperties
<1>2. Len(s) \in Nat /\ Len(t) \in Nat
  BY LenProperties
<1>3. \A m, n \in Nat : \A k \in 1..m : k \in 1..(m + n) /\ k <= m
  OBVIOUS
<1>4. \A m, n \in Nat : \A k \in 1..n : m + k \in 1..(m + n) /\ ~(m + k <= m) /\ (m + k) - m = k
  OBVIOUS
<1> QED BY <1>1, <1>2, <1>3, <1>4

(* A sequence cut after its first bytes, where it is those and others.       *)
IsCut(s, t, code, rest) ==
  /\ \A k \in 1..Len(code) : k <= Len(s) => s[k] = code[k]
  /\ Len(s) >= Len(code) => SubSeq(s, Len(code) + 1, Len(s)) \o t = rest

LEMMA CutAfter ==
  ASSUME NEW S, NEW s \in Seq(S), NEW t \in Seq(S), NEW code \in Seq(S), NEW rest \in Seq(S),
         s \o t = code \o rest
  PROVE  IsCut(s, t, code, rest)
<1> DEFINE n == Len(code)
<1>1. /\ s \o t \in Seq(S) /\ Len(s) \in Nat /\ Len(t) \in Nat /\ Len(s \o t) = Len(s) + Len(t)
      /\ \A k \in 1..Len(s) : (s \o t)[k] = s[k]
      /\ \A k \in 1..Len(t) : (s \o t)[Len(s) + k] = t[k]
  BY ConcatElements
<1>2. /\ n \in Nat /\ Len(rest) \in Nat /\ Len(code \o rest) = n + Len(rest)
      /\ \A k \in 1..n : (code \o rest)[k] = code[k]
      /\ \A k \in 1..Len(rest) : (code \o rest)[n + k] = rest[k]
  BY ConcatElements
<1> DEFINE ls == Len(s) lt == Len(t) lr == Len(rest) both == s \o t
<1>3. /\ ls \in Nat /\ lt \in Nat /\ lr \in Nat /\ n \in Nat /\ ls + lt = n + lr
      /\ \A k \in 1..ls : both[k] = s[k]
      /\ \A k \in 1..lt : both[ls + k] = t[k]
      /\ \A k \in 1..n : both[k] = code[k]
      /\ \A k \in 1..lr : both[n + k] = rest[k]
  BY <1>1, <1>2
<1>4. \A k \in 1..n : k <= Len(s) => s[k] = code[k]
  <2> SUFFICES ASSUME NEW k \in 1..n, k <= ls PROVE s[k] = code[k]
    OBVIOUS
  <2> HIDE DEF ls, lt, lr, both
  <2>1. k \in 1..ls
    BY <1>3
  <2> QED BY <1>3, <2>1
<1>5. ASSUME ls >= n PROVE SubSeq(s, n + 1, ls) \o t = rest
  <2> DEFINE tail == SubSeq(s, n + 1, ls)
             left == tail \o t
  <2>1. \A k \in (n + 1)..ls : k \in 1..ls
    <3> HIDE DEF ls, lt, lr, both
    <3> QED BY <1>3
  <2>2. \A k \in (n + 1)..ls : s[k] \in S
    BY <2>1, ElementOfSeq
  <2>3. n + 1 \in Int /\ ls \in Int
    <3> HIDE DEF ls, lt, lr, both
    <3> QED BY <1>3
  <2>4. /\ tail \in Seq(S) /\ Len(tail) = IF n + 1 <= ls THEN ls - (n + 1) + 1 ELSE 0
        /\ \A k \in 1..(ls - (n + 1) + 1) : tail[k] = s[n + 1 + k - 1]
    <3> HIDE DEF ls, lt, lr, both
    <3> QED BY <2>2, <2>3, SubSeqProperties
  <2>5. PICK d \in Nat : ls = n + d
    <3> HIDE DEF ls, lt, lr, both
    <3>1. ls - n \in Nat /\ ls = n + (ls - n)
      BY <1>3, <1>5
    <3> QED BY <3>1
  <2>6. /\ Len(tail) = d /\ \A k \in 1..d : tail[k] = s[n + k]
    <3> HIDE DEF ls, lt, lr, both, tail
    <3>1. (IF n + 1 <= ls THEN ls - (n + 1) + 1 ELSE 0) = d /\ ls - (n + 1) + 1 = d
      BY <1>3, <2>5
    <3>2. \A k \in 1..d : n + 1 + k - 1 = n + k
      BY <1>3
    <3> QED BY <2>4, <3>1, <3>2
  <2>7. lr = d + lt
    <3> HIDE DEF ls, lt, lr, both, tail
    <3> QED BY <1>3, <2>5
  <2>8. /\ left \in Seq(S) /\ Len(left) = d + lt
        /\ \A k \in 1..d : left[k] = tail[k]
        /\ \A k \in 1..lt : left[d + k] = t[k]
    <3>1. tail \in Seq(S) /\ Len(tail) = d
      BY <2>4, <2>6
    <3> HIDE DEF tail
    <3>2. /\ left \in Seq(S) /\ Len(left) = Len(tail) + Len(t)
          /\ \A k \in 1..Len(tail) : left[k] = tail[k]
          /\ \A k \in 1..Len(t) : left[Len(tail) + k] = t[k]
      <4>1. PICK u \in Seq(S) : u = tail
        BY <3>1
      <4>2. /\ u \o t \in Seq(S) /\ Len(u \o t) = Len(u) + Len(t)
            /\ \A k \in 1..Len(u) : (u \o t)[k] = u[k]
            /\ \A k \in 1..Len(t) : (u \o t)[Len(u) + k] = t[k]
        BY ConcatElements
      <4> QED BY <4>1, <4>2
    <3> HIDE DEF left
    <3> QED BY <3>1, <3>2
  <2> HIDE DEF ls, lt, lr, both, tail
  <2>9. ASSUME NEW k \in 1..lr PROVE left[k] = rest[k]
    <3> HIDE DEF left
    <3>1. CASE k <= d
      <4>1. k \in 1..d /\ n + k \in 1..ls
        BY <1>3, <2>5, <2>7, <3>1
      <4>2. left[k] = tail[k] /\ tail[k] = s[n + k] /\ both[n + k] = s[n + k] /\ both[n + k] = rest[k]
        BY <1>3, <2>6, <2>8, <4>1
      <4> QED BY <4>2
    <3>2. CASE ~(k <= d)
      <4>1. PICK m \in 1..lt : k = d + m
        <5>1. k - d \in 1..lt /\ k = d + (k - d)
          BY <1>3, <2>7, <3>2
        <5> QED BY <5>1
      <4>2. ls + m = n + k
        BY <1>3, <2>5, <4>1
      <4>3. left[k] = t[m] /\ both[ls + m] = t[m] /\ both[n + k] = rest[k]
        BY <1>3, <2>8, <4>1
      <4> QED BY <4>2, <4>3
    <3> QED BY <3>1, <3>2
  <2> HIDE DEF left
  <2>10. left = rest
    BY <2>7, <2>8, <2>9, SeqEqual DEF lr
  <2> QED BY <2>10 DEF left, tail
<1> QED BY <1>4, <1>5 DEF IsCut

(* The part of the bytes that is a part of the code.                         *)
LEMMA PartOf ==
  ASSUME NEW s \in Text, NEW a \in Nat, NEW t \in Text, a + Len(t) <= Len(s),
         \A k \in 1..Len(t) : s[a + k] = t[k]
  PROVE  SubSeq(s, a + 1, a + Len(t)) = t
<1>1. Len(t) \in Nat /\ Len(s) \in Nat
  BY DEF Text
<1> DEFINE part == SubSeq(s, a + 1, a + Len(t))
<1>2. a + 1 \in 1..(Len(s) + 1) /\ a + Len(t) \in ((a + 1) - 1)..Len(s)
  BY <1>1
<1>3. part \in Text /\ Len(part) = Len(t)
  <2>1. part \in Text /\ Len(part) = (a + Len(t)) - (a + 1) + 1
    BY <1>2, SubText
  <2> HIDE DEF part
  <2> QED BY <1>1, <2>1
<1>4. ASSUME NEW k \in 1..Len(t) PROVE part[k] = t[k]
  <2>1. \A j \in (a + 1)..(a + Len(t)) : s[j] \in Bytes
    <3>1. \A j \in (a + 1)..(a + Len(t)) : j \in 1..Len(s)
      BY <1>1
    <3> HIDE DEF Bytes
    <3> QED BY <3>1, ElementOfSeq DEF Text
  <2>2. a + 1 \in Int /\ a + Len(t) \in Int
    BY <1>1
  <2>3. \A j \in 1..((a + Len(t)) - (a + 1) + 1) : part[j] = s[a + 1 + j - 1]
    <3> HIDE DEF Bytes
    <3> QED BY <2>1, <2>2, SubSeqProperties
  <2> HIDE DEF part
  <2>4. k \in 1..((a + Len(t)) - (a + 1) + 1) /\ a + 1 + k - 1 = a + k
    BY <1>1
  <2> QED BY <2>3, <2>4
<1> HIDE DEF part, Bytes
<1>5. part = t
  BY <1>3, <1>4, SeqEqual DEF Text
<1> QED BY <1>5 DEF part
-----------------------------------------------------------------------------
(* Where the parts of a frame are.                                           *)
Shaped(code, f, op, n0, length, data) ==
  /\ code \in Text /\ Len(code) = 2 + Len(length) + Len(data)
  /\ code[1] = f * 128 + op /\ code[2] = n0
  /\ \A k \in 1..Len(length) : code[2 + k] = length[k]
  /\ \A k \in 1..Len(data) : code[2 + Len(length) + k] = data[k]

LEMMA FrameShape ==
  ASSUME NEW f \in {0, 1}, NEW op \in 0..15, NEW n0 \in Bytes, NEW length \in Text, NEW data \in Text,
         NEW code, code = Frame(f, op, n0, length, data)
  PROVE  Shaped(code, f, op, n0, length, data)
<1> DEFINE two == <<f * 128 + op, n0>>
           first == two \o length
<1>1. f * 128 + op \in Bytes
  BY DEF Bytes
<1>2. two \in Seq(Bytes) /\ Len(two) = 2 /\ two[1] = f * 128 + op /\ two[2] = n0
  <2> HIDE DEF Bytes
  <2> QED BY <1>1
<1> HIDE DEF two
<1>3. length \in Seq(Bytes) /\ data \in Seq(Bytes) /\ Len(length) \in Nat /\ Len(data) \in Nat
  BY DEF Text
<1> HIDE DEF Bytes
<1>4. /\ first \in Seq(Bytes) /\ Len(first) = Len(two) + Len(length)
      /\ \A k \in 1..Len(two) : first[k] = two[k]
      /\ \A k \in 1..Len(length) : first[Len(two) + k] = length[k]
  <2>1. PICK s \in Seq(Bytes), t \in Seq(Bytes) : s = two /\ t = length
    BY <1>2, <1>3
  <2>2. /\ s \o t \in Seq(Bytes) /\ Len(s \o t) = Len(s) + Len(t)
        /\ \A k \in 1..Len(s) : (s \o t)[k] = s[k]
        /\ \A k \in 1..Len(t) : (s \o t)[Len(s) + k] = t[k]
    BY ConcatElements
  <2> QED BY <2>1, <2>2
<1> HIDE DEF first
<1>5. code = first \o data
  BY DEF Frame, first, two
<1>6. /\ code \in Seq(Bytes) /\ Len(code) = Len(first) + Len(data)
      /\ \A k \in 1..Len(first) : code[k] = first[k]
      /\ \A k \in 1..Len(data) : code[Len(first) + k] = data[k]
  <2>1. PICK s \in Seq(Bytes), t \in Seq(Bytes) : s = first /\ t = data
    BY <1>3, <1>4
  <2>2. /\ s \o t \in Seq(Bytes) /\ Len(s \o t) = Len(s) + Len(t)
        /\ \A k \in 1..Len(s) : (s \o t)[k] = s[k]
        /\ \A k \in 1..Len(t) : (s \o t)[Len(s) + k] = t[k]
    BY ConcatElements
  <2> QED BY <1>5, <2>1, <2>2
<1>7. Len(first) = 2 + Len(length) /\ \A k \in 1..Len(length) : 2 + k \in 1..Len(first)
  <2>1. Len(first) = 2 + Len(length)
    BY <1>2, <1>4
  <2>2. \A m \in Nat : \A k \in 1..m : 2 + k \in 1..(2 + m)
    OBVIOUS
  <2> QED BY <1>3, <2>1, <2>2
<1>8. code[1] = f * 128 + op /\ code[2] = n0
  <2>1. \A m \in Nat : 1 \in 1..(2 + m) /\ 2 \in 1..(2 + m) /\ 1 \in 1..2 /\ 2 \in 1..2
    OBVIOUS
  <2> QED BY <1>2, <1>3, <1>4, <1>6, <1>7, <2>1
<1>9. \A k \in 1..Len(length) : code[2 + k] = length[k]
  BY <1>2, <1>4, <1>6, <1>7
<1> QED BY <1>6, <1>7, <1>8, <1>9 DEF Text, Shaped

(* A frame with the text data in it, in each of the forms of its length.     *)
Carries(code, f, op, data) ==
  \/ code = Frame(f, op, Len(data), <<>>, data)
  \/ code = Frame(f, op, 127, Huge(Len(data)), data)
  \/ code = Frame(f, op, 128 + 126, Long(Len(data)) \o Key, Masked(data, Key))

Short == {data \in Text : Len(data) \in 0..125}

LEMMA MaskedTwice ==
  ASSUME NEW data \in Text
  PROVE  Masked(Masked(data, Key), Key) = data
<1>1. Key \in Text /\ Len(Key) = 4 /\ \A j \in 1..4 : Key[j] \in Bytes
  <2>1. Key[1] \in Bytes /\ Key[2] \in Bytes /\ Key[3] \in Bytes /\ Key[4] \in Bytes
    BY DEF Key, Bytes
  <2>2. Key = <<18, 52, 86, 120>> /\ 18 \in Bytes /\ 52 \in Bytes /\ 86 \in Bytes /\ 120 \in Bytes
    BY DEF Key, Bytes
  <2>3. \A j \in 1..4 : j = 1 \/ j = 2 \/ j = 3 \/ j = 4
    OBVIOUS
  <2> HIDE DEF Bytes
  <2>4. Key \in Seq(Bytes) /\ Len(Key) = 4
    BY <2>2
  <2> QED BY <2>1, <2>3, <2>4 DEF Text
<1> DEFINE once == Masked(data, Key)
           twice == Masked(once, Key)
<1>2. once \in Text /\ Len(once) = Len(data) /\ twice \in Text /\ Len(twice) = Len(data)
  <2>1. once \in Text /\ Len(once) = Len(data)
    BY <1>1, MaskedType
  <2> HIDE DEF once
  <2> QED BY <1>1, <2>1, MaskedType
<1>3. ASSUME NEW k \in 1..Len(data) PROVE twice[k] = data[k]
  <2>1. DOMAIN data = 1..Len(data) /\ DOMAIN once = 1..Len(data) /\ data[k] \in Bytes
    <3> HIDE DEF Bytes, once
    <3> QED BY <1>2, ElementOfSeq, LenProperties DEF Text
  <2>2. PICK b \in Bytes : b = Key[((k - 1) % 4) + 1]
    <3>1. ((k - 1) % 4) + 1 \in 1..4
      OBVIOUS
    <3> QED BY <1>1, <3>1
  <2>3. once[k] = Xor(data[k], b)
    BY <2>1, <2>2 DEF Masked
  <2> HIDE DEF once
  <2>4. twice[k] = Xor(once[k], b)
    BY <2>1, <2>2 DEF Masked
  <2> QED BY <2>1, <2>3, <2>4, XorTwice
<1> HIDE DEF once, twice, Bytes
<1>4. twice = data
  BY <1>2, <1>3, SeqEqual DEF Text
<1> QED BY <1>4 DEF once, twice

(* The frame that rxbuf begins with, once enough of it is there.             *)
LEMMA FirstBytes ==
  ASSUME WsTypeOK, NEW code \in Text, NEW rest \in Signals, rxbuf \o wire = code \o rest
  PROVE  /\ Len(rxbuf) \in Nat /\ Len(code) \in Nat
         /\ \A k \in 1..Len(code) : k <= Len(rxbuf) => rxbuf[k] = code[k]
         /\ Len(rxbuf) >= Len(code) => SubSeq(rxbuf, Len(code) + 1, Len(rxbuf)) \o wire = rest
<1>1. /\ rxbuf \in Seq(Symbols) /\ wire \in Seq(Symbols)
      /\ code \in Seq(Symbols) /\ rest \in Seq(Symbols)
  BY SeqMonotonic DEF WsTypeOK, Text, Symbols, Signals
<1>2. Len(rxbuf) \in Nat /\ Len(code) \in Nat
  BY <1>1
<1> HIDE DEF Symbols
<1>3. /\ \A k \in 1..Len(code) : k <= Len(rxbuf) => rxbuf[k] = code[k]
      /\ Len(rxbuf) >= Len(code) => SubSeq(rxbuf, Len(code) + 1, Len(rxbuf)) \o wire = rest
  <2>1. PICK s \in Seq(Symbols), t \in Seq(Symbols), c \in Seq(Symbols), r \in Seq(Symbols) :
          s = rxbuf /\ t = wire /\ c = code /\ r = rest
    BY <1>1
  <2>2. s \o t = c \o r
    BY <2>1
  <2>3. IsCut(s, t, c, r)
    BY <2>2, CutAfter
  <2> QED BY <2>1, <2>3 DEF IsCut
<1> QED BY <1>2, <1>3

(* A frame at the beginning of rxbuf, as far as rxbuf goes.                  *)
Began(f, op, n0, length, m, data, n, rest) ==
  /\ rxbuf[1] = f * 128 + op /\ rxbuf[2] = n0
  /\ \A k \in 1..m : 2 + k <= Len(rxbuf) => rxbuf[2 + k] = length[k]
  /\ Len(rxbuf) >= (2 + m) + n =>
       /\ SubSeq(rxbuf, (2 + m) + 1, (2 + m) + n) = data
       /\ SubSeq(rxbuf, (2 + m) + n + 1, Len(rxbuf)) \o wire = rest

LEMMA FrameBegins ==
  ASSUME WsTypeOK, NEW f \in {0, 1}, NEW op \in 0..15, NEW n0 \in Bytes,
         NEW length \in Text, NEW m \in Nat, m = Len(length),
         NEW data \in Text, NEW n \in Nat, n = Len(data),
         NEW code, code = Frame(f, op, n0, length, data),
         NEW rest \in Signals, rxbuf \o wire = code \o rest, Len(rxbuf) >= 2
  PROVE  Began(f, op, n0, length, m, data, n, rest)
<1>1. Shaped(code, f, op, n0, length, data)
  BY FrameShape
<1>2. /\ code \in Text /\ Len(code) = 2 + m + n
      /\ code[1] = f * 128 + op /\ code[2] = n0
      /\ \A k \in 1..m : code[2 + k] = length[k]
      /\ \A k \in 1..n : code[2 + m + k] = data[k]
  BY <1>1 DEF Shaped
<1>3. PICK size \in Nat, all \in Nat : size = Len(code) /\ all = Len(rxbuf)
  BY <1>2, FirstBytes
<1>4. /\ \A k \in 1..size : k <= all => rxbuf[k] = code[k]
      /\ all >= size => SubSeq(rxbuf, size + 1, all) \o wire = rest
  BY <1>2, <1>3, FirstBytes
<1>5. size = (2 + m) + n /\ all >= 2
  BY <1>2, <1>3
<1>6. rxbuf[1] = f * 128 + op /\ rxbuf[2] = n0
  <2>1. 1 \in 1..size /\ 2 \in 1..size /\ 1 <= all /\ 2 <= all
    BY <1>5
  <2> QED BY <1>2, <1>4, <2>1
<1>7. ASSUME NEW k \in 1..m, 2 + k <= all PROVE rxbuf[2 + k] = length[k]
  <2>1. 2 + k \in 1..size
    BY <1>5
  <2> QED BY <1>2, <1>4, <1>7, <2>1
<1>8. ASSUME all >= (2 + m) + n PROVE SubSeq(rxbuf, (2 + m) + 1, (2 + m) + n) = data
  <2>1. \A k \in 1..Len(data) : rxbuf[(2 + m) + k] = data[k]
    <3> SUFFICES ASSUME NEW k \in 1..n PROVE rxbuf[(2 + m) + k] = data[k]
      OBVIOUS
    <3>1. 2 + m + k \in 1..size /\ 2 + m + k <= all
      BY <1>5, <1>8
    <3> QED BY <1>2, <1>4, <3>1
  <2>2. rxbuf \in Text /\ 2 + m \in Nat /\ (2 + m) + Len(data) <= Len(rxbuf)
    BY <1>3, <1>8 DEF WsTypeOK
  <2>3. SubSeq(rxbuf, (2 + m) + 1, (2 + m) + Len(data)) = data
    BY <2>1, <2>2, PartOf
  <2> QED BY <2>3
<1> QED BY <1>3, <1>4, <1>5, <1>6, <1>7, <1>8 DEF Began
-----------------------------------------------------------------------------
LEMMA CarriesText ==
  ASSUME NEW f \in {0, 1}, NEW op \in 0..15, NEW data \in Short, NEW code, Carries(code, f, op, data)
  PROVE  code \in Text
<1>1. /\ data \in Text /\ Len(data) \in Nat /\ Len(data) \in Bytes /\ 127 \in Bytes /\ 128 + 126 \in Bytes
      /\ Key \in Text /\ Len(Key) = 4 /\ Long(Len(data)) \in Text /\ Huge(Len(data)) \in Text /\ <<>> \in Text
  <2>1. data \in Text /\ Len(data) \in 0..125
    BY DEF Short
  <2>2. Len(data) \in Bytes /\ 127 \in Bytes /\ 128 + 126 \in Bytes /\ 0 \in Bytes
        /\ 18 \in Bytes /\ 52 \in Bytes /\ 86 \in Bytes /\ 120 \in Bytes
    BY <2>1 DEF Bytes
  <2> HIDE DEF Bytes
  <2>3. Key \in Text /\ Len(Key) = 4
    BY <2>2, SMT DEF Key, Text
  <2>4. \A n \in Bytes : Long(n) \in Text /\ Huge(n) \in Text
    BY <2>2, SMT DEF Long, Huge, Text
  <2> QED BY <2>1, <2>2, <2>3, <2>4 DEF Text
<1>2. Long(Len(data)) \o Key \in Text /\ Masked(data, Key) \in Text
  BY <1>1, ConcatText, MaskedType
<1> HIDE DEF Bytes
<1> QED BY <1>1, <1>2, FrameType DEF Carries

(* The first two bytes of a frame.                                           *)
LEMMA HeaderBytes ==
  ASSUME NEW f \in {0, 1}, NEW op \in 0..15, rxbuf[1] = f * 128 + op
  PROVE  (fin <=> f = 1) /\ opcode = op
<1>1. CASE f = 0
  BY <1>1 DEF fin, opcode
<1>2. CASE f = 1
  BY <1>2 DEF fin, opcode
<1> QED BY <1>1, <1>2

(* What dispatch makes of a frame.                                           *)
FrameTaken(code, f, op, data, rest) ==
  /\ fin <=> f = 1
  /\ opcode = op /\ payload = data
  /\ SubSeq(rxbuf, header_size + N + 1, Len(rxbuf)) \o wire = rest

LEMMA PlainIsRead ==
  ASSUME WsTypeOK, NEW f \in {0, 1}, NEW op \in 0..15, NEW data \in Short, NEW code, NEW rest \in Signals,
         code = Frame(f, op, Len(data), <<>>, data), rxbuf \o wire = code \o rest, HasFrame
  PROVE  FrameTaken(code, f, op, data, rest)
<1>1. PICK n \in 0..125 : n = Len(data)
  BY DEF Short
<1>2. /\ data \in Text /\ n \in Bytes /\ n \in Nat /\ <<>> \in Text /\ 0 = Len(<<>>)
  BY DEF Short, Bytes, Text
<1>3. Len(rxbuf) >= 2 /\ Len(rxbuf) >= header_size + N
  BY DEF HasFrame, HasHeader
<1>4. Began(f, op, n, <<>>, 0, data, n, rest)
  BY <1>1, <1>2, <1>3, FrameBegins
<1>5. /\ rxbuf[1] = f * 128 + op /\ rxbuf[2] = n
      /\ Len(rxbuf) >= 2 + n => /\ SubSeq(rxbuf, 2 + 1, 2 + n) = data
                                /\ SubSeq(rxbuf, 2 + n + 1, Len(rxbuf)) \o wire = rest
  <2>1. 2 + 0 = 2
    OBVIOUS
  <2> QED BY <1>4, <2>1 DEF Began
<1>6. (fin <=> f = 1) /\ opcode = op
  BY <1>5, HeaderBytes
<1>7. ~mask /\ N0 = n
  <2>1. \A b \in 0..125 : b \div 128 = 0 /\ b % 128 = b
    OBVIOUS
  <2>2. rxbuf[2] \div 128 = 0 /\ rxbuf[2] % 128 = n
    BY <1>1, <1>5, <2>1
  <2>3. 0 # 1
    OBVIOUS
  <2> QED BY <2>2, <2>3, Zenon DEF mask, N0
<1>8. extended = 0 /\ header_size = 2 /\ N = n
  <2>1. extended = 0
    BY <1>7 DEF extended
  <2> QED BY <1>7, <2>1 DEF header_size, N
<1>9. payload = data /\ SubSeq(rxbuf, header_size + N + 1, Len(rxbuf)) \o wire = rest
  BY <1>3, <1>5, <1>7, <1>8 DEF payload
<1> QED BY <1>6, <1>9 DEF FrameTaken

LEMMA HugeIsRead ==
  ASSUME WsTypeOK, NEW f \in {0, 1}, NEW op \in 0..15, NEW data \in Short, NEW code, NEW rest \in Signals,
         code = Frame(f, op, 127, Huge(Len(data)), data), rxbuf \o wire = code \o rest, HasFrame
  PROVE  FrameTaken(code, f, op, data, rest)
<1>1. PICK n \in 0..125 : n = Len(data)
  BY DEF Short
<1>2. PICK length \in Text :
        /\ length = Huge(n) /\ Len(length) = 8
        /\ length[1] = 0 /\ length[2] = 0 /\ length[3] = 0 /\ length[4] = 0
        /\ length[5] = 0 /\ length[6] = 0 /\ length[7] = 0 /\ length[8] = n
  <2>1. 0 \in Bytes /\ n \in Bytes
    BY DEF Bytes
  <2> HIDE DEF Bytes
  <2>2. /\ Huge(n) \in Text /\ Len(Huge(n)) = 8
        /\ Huge(n)[1] = 0 /\ Huge(n)[2] = 0 /\ Huge(n)[3] = 0 /\ Huge(n)[4] = 0
        /\ Huge(n)[5] = 0 /\ Huge(n)[6] = 0 /\ Huge(n)[7] = 0 /\ Huge(n)[8] = n
    BY <2>1, SMT DEF Huge, Text
  <2> QED BY <2>2
<1>3. data \in Text /\ n \in Nat /\ 127 \in Bytes
  BY DEF Short, Bytes
<1>4. Len(rxbuf) >= 2 /\ Len(rxbuf) >= header_size /\ Len(rxbuf) >= header_size + N
  BY DEF HasFrame, HasHeader
<1>5. Began(f, op, 127, length, 8, data, n, rest)
  <2>1. code = Frame(f, op, 127, length, data) /\ 8 = Len(length) /\ 8 \in Nat
    BY <1>1, <1>2
  <2> QED BY <1>1, <1>3, <1>4, <2>1, FrameBegins
<1>6. /\ rxbuf[1] = f * 128 + op /\ rxbuf[2] = 127
      /\ \A k \in 1..8 : 2 + k <= Len(rxbuf) => rxbuf[2 + k] = length[k]
      /\ Len(rxbuf) >= 10 + n => /\ SubSeq(rxbuf, 10 + 1, 10 + n) = data
                                 /\ SubSeq(rxbuf, 10 + n + 1, Len(rxbuf)) \o wire = rest
  <2>1. 2 + 8 = 10
    OBVIOUS
  <2> QED BY <1>5, <2>1 DEF Began
<1>7. (fin <=> f = 1) /\ opcode = op
  <2>1. rxbuf[1] = f * 128 + op
    BY <1>6
  <2> QED BY <2>1, HeaderBytes
<1>8. ~mask /\ N0 = 127
  BY <1>6 DEF mask, N0
<1>9. extended = 8 /\ header_size = 10
  <2>1. extended = 8
    BY <1>8 DEF extended
  <2> QED BY <1>8, <2>1 DEF header_size
<1>10. N = n
  <2>1. PICK all \in Nat : all = Len(rxbuf)
    BY DEF WsTypeOK, Text
  <2>2. \A k \in 1..8 : rxbuf[2 + k] = length[k]
    <3>1. all >= 10
      BY <1>4, <1>9, <2>1
    <3>2. \A k \in 1..8 : 2 + k <= all
      BY <3>1
    <3> QED BY <1>6, <2>1, <3>2
  <2>3. 2 + 1 = 3 /\ 2 + 2 = 4 /\ 2 + 3 = 5 /\ 2 + 4 = 6 /\ 2 + 5 = 7 /\ 2 + 6 = 8 /\ 2 + 7 = 9 /\ 2 + 8 = 10
        /\ {1, 2, 3, 4, 5, 6, 7, 8} \subseteq 1..8
    OBVIOUS
  <2>4. /\ rxbuf[3] = 0 /\ rxbuf[4] = 0 /\ rxbuf[5] = 0 /\ rxbuf[6] = 0
        /\ rxbuf[7] = 0 /\ rxbuf[8] = 0 /\ rxbuf[9] = 0 /\ rxbuf[10] = n
    BY <1>2, <2>2, <2>3
  <2> DEFINE byte(d, k) == 256 * d + rxbuf[k]
  <2>5. N = byte(byte(byte(byte(byte(byte(byte(rxbuf[3], 4), 5), 6), 7), 8), 9), 10)
    BY <1>9 DEF N
  <2>6. \A k \in 4..9 : rxbuf[k] = 0 => byte(0, k) = 0
    OBVIOUS
  <2>7. byte(0, 10) = n
    BY <2>4
  <2>8. {4, 5, 6, 7, 8, 9} \subseteq 4..9
    OBVIOUS
  <2> HIDE DEF byte
  <2> QED BY <2>4, <2>5, <2>6, <2>7, <2>8
<1>11. payload = data /\ SubSeq(rxbuf, header_size + N + 1, Len(rxbuf)) \o wire = rest
  BY <1>4, <1>6, <1>8, <1>9, <1>10 DEF payload
<1> QED BY <1>7, <1>11 DEF FrameTaken
-----------------------------------------------------------------------------
LEMMA KeyIs ==
  Key \in Text /\ Len(Key) = 4
<1>1. 18 \in Bytes /\ 52 \in Bytes /\ 86 \in Bytes /\ 120 \in Bytes
  BY DEF Bytes
<1> HIDE DEF Bytes
<1> QED BY <1>1, SMT DEF Key, Text

LEMMA MaskedIsRead ==
  ASSUME WsTypeOK, NEW f \in {0, 1}, NEW op \in 0..15, NEW data \in Short, NEW code, NEW rest \in Signals,
         code = Frame(f, op, 128 + 126, Long(Len(data)) \o Key, Masked(data, Key)),
         rxbuf \o wire = code \o rest, HasFrame
  PROVE  FrameTaken(code, f, op, data, rest)
<1>1. PICK n \in 0..125 : n = Len(data)
  BY DEF Short
<1>2. PICK length \in Text :
        /\ length = Long(n) \o Key /\ Len(length) = 6
        /\ length[1] = 0 /\ length[2] = n
        /\ \A k \in 1..4 : length[2 + k] = Key[k]
  <2>1. 0 \in Bytes /\ n \in Bytes
    BY DEF Bytes
  <2> HIDE DEF Bytes
  <2>2. PICK two \in Seq(Bytes) : two = Long(n) /\ Len(two) = 2 /\ two[1] = 0 /\ two[2] = n
    <3>1. Long(n) \in Seq(Bytes) /\ Len(Long(n)) = 2 /\ Long(n)[1] = 0 /\ Long(n)[2] = n
      BY <2>1, SMT DEF Long
    <3> QED BY <3>1
  <2>3. PICK key \in Seq(Bytes) : key = Key /\ Len(key) = 4
    BY KeyIs DEF Text
  <2>4. /\ two \o key \in Seq(Bytes) /\ Len(two \o key) = Len(two) + Len(key)
        /\ \A k \in 1..Len(two) : (two \o key)[k] = two[k]
        /\ \A k \in 1..Len(key) : (two \o key)[Len(two) + k] = key[k]
    BY ConcatElements
  <2>5. 1 \in 1..2 /\ 2 \in 1..2 /\ 2 + 4 = 6
    OBVIOUS
  <2>6. PICK both \in Text : both = two \o key
    BY <2>4 DEF Text
  <2>7. both = Long(n) \o Key /\ Len(both) = 6 /\ both[1] = 0 /\ both[2] = n
    BY <2>2, <2>3, <2>4, <2>5, <2>6
  <2>8. \A k \in 1..4 : both[2 + k] = Key[k]
    BY <2>2, <2>3, <2>4, <2>6
  <2> QED BY <2>7, <2>8
<1>3. PICK body \in Text : body = Masked(data, Key) /\ Len(body) = n /\ Masked(body, Key) = data
  BY <1>1, KeyIs, MaskedType, MaskedTwice DEF Short
<1>4. n \in Nat /\ 128 + 126 \in Bytes
  BY DEF Bytes
<1>5. Len(rxbuf) >= 2 /\ Len(rxbuf) >= header_size /\ Len(rxbuf) >= header_size + N
  BY DEF HasFrame, HasHeader
<1>6. Began(f, op, 128 + 126, length, 6, body, n, rest)
  <2>1. code = Frame(f, op, 128 + 126, length, body) /\ 6 = Len(length) /\ 6 \in Nat /\ n = Len(body)
    BY <1>1, <1>2, <1>3
  <2> QED BY <1>4, <1>5, <2>1, FrameBegins
<1>7. /\ rxbuf[1] = f * 128 + op /\ rxbuf[2] = 254
      /\ \A k \in 1..6 : 2 + k <= Len(rxbuf) => rxbuf[2 + k] = length[k]
      /\ Len(rxbuf) >= 8 + n => /\ SubSeq(rxbuf, 8 + 1, 8 + n) = body
                                /\ SubSeq(rxbuf, 8 + n + 1, Len(rxbuf)) \o wire = rest
  <2>1. 2 + 6 = 8 /\ 128 + 126 = 254
    OBVIOUS
  <2> QED BY <1>6, <2>1 DEF Began
<1>8. (fin <=> f = 1) /\ opcode = op
  BY <1>7, HeaderBytes
<1>9. mask /\ N0 = 126
  BY <1>7 DEF mask, N0
<1>10. extended = 2 /\ header_size = 8
  <2>1. extended = 2
    BY <1>9 DEF extended
  <2> QED BY <1>9, <2>1 DEF header_size
<1>11. PICK all \in Nat : all = Len(rxbuf) /\ all >= 8
  <2>1. Len(rxbuf) \in Nat
    BY DEF WsTypeOK, Text
  <2> QED BY <1>5, <1>10, <2>1
<1>12. \A k \in 1..6 : rxbuf[2 + k] = length[k]
  <2>1. \A k \in 1..6 : 2 + k <= all
    BY <1>11
  <2> QED BY <1>7, <1>11, <2>1
<1>13. N = n
  <2>1. 2 + 1 = 3 /\ 2 + 2 = 4 /\ 1 \in 1..6 /\ 2 \in 1..6
    OBVIOUS
  <2>2. rxbuf[3] = 0 /\ rxbuf[4] = n
    BY <1>2, <1>12, <2>1
  <2>3. N = 256 * rxbuf[3] + rxbuf[4]
    BY <1>10 DEF N
  <2>4. 256 * 0 + n = n
    OBVIOUS
  <2> QED BY <2>2, <2>3, <2>4
<1>14. SubSeq(rxbuf, 5, 8) = Key
  <2>1. \A k \in 1..Len(Key) : rxbuf[4 + k] = Key[k]
    <3> SUFFICES ASSUME NEW k \in 1..4 PROVE rxbuf[4 + k] = Key[k]
      BY KeyIs
    <3>1. 2 + k \in 1..6 /\ 2 + (2 + k) = 4 + k
      OBVIOUS
    <3> QED BY <1>2, <1>12, <3>1
  <2>2. rxbuf \in Text /\ 4 \in Nat /\ 4 + Len(Key) <= Len(rxbuf)
    BY <1>11, KeyIs DEF WsTypeOK
  <2>3. SubSeq(rxbuf, 4 + 1, 4 + Len(Key)) = Key
    BY <2>1, <2>2, KeyIs, PartOf
  <2> QED BY <2>3, KeyIs
<1>15. /\ SubSeq(rxbuf, header_size + 1, header_size + N) = body
       /\ SubSeq(rxbuf, header_size + N + 1, Len(rxbuf)) \o wire = rest
  BY <1>5, <1>7, <1>10, <1>13
<1>16. payload = data
  <2>1. header_size - 3 = 5
    BY <1>10
  <2> QED BY <1>3, <1>9, <1>10, <1>14, <1>15, <2>1 DEF payload
<1> QED BY <1>8, <1>15, <1>16 DEF FrameTaken

(* Whatever is behind a frame and in whatever pieces recv handed it over,    *)
(* once HasFrame lets dispatch go on it reads the bit fin, the opcode and the *)
(* text that the station put in, and takes the frame from rxbuf and no byte  *)
(* more: with its length in one byte or in eight, or in two and masked.      *)
THEOREM FrameIsRead ==
  ASSUME WsTypeOK, NEW f \in {0, 1}, NEW op \in 0..15, NEW data \in Short, NEW code, NEW rest \in Signals,
         Carries(code, f, op, data), rxbuf \o wire = code \o rest, HasFrame
  PROVE  FrameTaken(code, f, op, data, rest)
BY PlainIsRead, HugeIsRead, MaskedIsRead DEF Carries

(* The header with the length that no frame can have.                        *)
BadFrame == Sent("bad", <<>>)

LEMMA BadIsBad ==
  ASSUME WsTypeOK, NEW rest \in Signals, rxbuf \o wire = BadFrame \o rest
  PROVE  ~HasFrame
<1> SUFFICES ASSUME HasFrame PROVE FALSE
  OBVIOUS
<1> DEFINE eight == <<128, 0, 0, 0, 0, 0, 0, 0>>
<1>1. eight \in Text /\ Len(eight) = 8 /\ eight[1] = 128 /\ <<>> \in Text /\ Len(<<>>) = 0
  <2>1. 128 \in Bytes /\ 0 \in Bytes
    BY DEF Bytes
  <2> HIDE DEF Bytes
  <2> QED BY <2>1, SMT DEF Text
<1>2. BadFrame = Frame(1, 1, 127, eight, <<>>)
  BY DEF BadFrame, Sent, TEXT_FRAME
<1> HIDE DEF eight
<1>3. Len(rxbuf) >= 2 /\ Len(rxbuf) >= header_size /\ HasHeader /\ ~InvalidLength
  BY DEF HasFrame, HasHeader
<1>4. Began(1, 1, 127, eight, 8, <<>>, 0, rest)
  <2>1. PICK f \in {0, 1}, op \in 0..15, n0 \in Bytes, m \in Nat, n \in Nat :
          f = 1 /\ op = 1 /\ n0 = 127 /\ m = 8 /\ n = 0
    BY DEF Bytes
  <2>2. PICK length \in Text, data \in Text : length = eight /\ data = <<>>
    BY <1>1
  <2>3. PICK code : code = BadFrame
    OBVIOUS
  <2>4. code = Frame(f, op, n0, length, data) /\ rxbuf \o wire = code \o rest
        /\ m = Len(length) /\ n = Len(data)
    BY <1>1, <1>2, <2>1, <2>2, <2>3
  <2>5. Began(f, op, n0, length, m, data, n, rest)
    BY <1>3, <2>4, FrameBegins
  <2> QED BY <2>1, <2>2, <2>5
<1>5. rxbuf[2] = 127 /\ (2 + 1 <= Len(rxbuf) => rxbuf[2 + 1] = 128)
  <2>1. 1 \in 1..8
    OBVIOUS
  <2> QED BY <1>1, <1>4, <2>1 DEF Began
<1>6. ~mask /\ N0 = 127
  BY <1>5 DEF mask, N0
<1>7. header_size = 10
  <2>1. extended = 8
    BY <1>6 DEF extended
  <2> QED BY <1>6, <2>1 DEF header_size
<1>8. PICK all \in Nat : all = Len(rxbuf) /\ all >= 10
  <2>1. Len(rxbuf) \in Nat
    BY DEF WsTypeOK, Text
  <2> QED BY <1>3, <1>7, <2>1
<1>9. rxbuf[3] = 128
  <2>1. 2 + 1 = 3 /\ 3 <= all
    BY <1>8
  <2> QED BY <1>5, <1>8, <2>1
<1> QED BY <1>3, <1>6, <1>9 DEF InvalidLength
=============================================================================
