---------------------------- MODULE SessionProofs ----------------------------
(***************************************************************************)
(* For every number of clients, every stream of frames and every output    *)
(* limit: gateway_mutex_ makes the budget check and the submission of an   *)
(* order one step for everyone else, and no thread goes back to read with  *)
(* the mutex or with a frame it could have answered.                       *)
(*                                                                         *)
(* So a response is measured before the order that causes it is submitted, *)
(* and the measure still holds when it is: no response exceeds the limit,  *)
(* no trade goes untold, and every frame handled is answered once, in      *)
(* order.                                                                  *)
(***************************************************************************)
EXTENDS Session, EngineProofs

-----------------------------------------------------------------------------
(* Messages and the bytes they take.                                       *)

\* The messages of a response.
Kinds == {"Ack", "Reject", "Fill", "HeartbeatAck"}

\* s is a sequence of such messages.
Messages(s) == IsSeq(s) /\ \A k \in DOMAIN s : s[k].kind \in Kinds

\* The bytes each kind of message takes on the wire.
LEMMA WireSizeFacts ==
  /\ WireSize("Ack") = 32 /\ WireSize("Reject") = 25
  /\ WireSize("Fill") = 52 /\ WireSize("HeartbeatAck") = 24
  /\ \A kind \in Kinds : WireSize(kind) \in Nat
<1>1. WireSize("Ack") = 32
  BY DEF WireSize
<1>2. WireSize("Reject") = 25
  BY DEF WireSize
<1>3. WireSize("Fill") = 52
  BY DEF WireSize
<1>4. WireSize("HeartbeatAck") = 24
  BY DEF WireSize
<1> QED  BY <1>1, <1>2, <1>3, <1>4 DEF Kinds

\* The sizes of the messages of a response, as a function.
Sizes(s) == [k \in DOMAIN s |-> WireSize(s[k].kind)]

\* The bytes of a response are the sum of those of its messages.
LEMMA SizesUnfold ==
  ASSUME NEW s, Messages(s)
  PROVE  /\ WireSizes(s) = SumFunctionOnSet(Sizes(s), 1..Len(s))
         /\ Len(s) \in Nat /\ DOMAIN s = 1..Len(s)
         /\ \A k \in 1..Len(s) : /\ Sizes(s)[k] = WireSize(s[k].kind)
                                 /\ Sizes(s)[k] \in Nat
         /\ Measures(Sizes(s), 1..Len(s))
<1>1. Len(s) \in Nat /\ DOMAIN s = 1..Len(s)
  BY Zenon, SeqShape DEF Messages
<1>2. WireSizes(s) = SumFunctionOnSet(Sizes(s), DOMAIN Sizes(s)) /\ DOMAIN Sizes(s) = DOMAIN s
  BY DEF WireSizes, SumFunction, Sizes
<1>3. \A k \in 1..Len(s) : Sizes(s)[k] = WireSize(s[k].kind)
  BY <1>1 DEF Sizes
<1>4. \A k \in 1..Len(s) : Sizes(s)[k] \in Nat
  BY <1>1, <1>3, WireSizeFacts DEF Messages
<1>5. Measures(Sizes(s), 1..Len(s))
  BY <1>4 DEF Measures
<1> QED  BY Zenon, <1>1, <1>2, <1>3, <1>4, <1>5

\* Two responses joined are a response.
LEMMA ConcatMessages ==
  ASSUME NEW s, NEW t, Messages(s), Messages(t)
  PROVE  Messages(s \o t)
<1> DEFINE u == s \o t
<1>1. IsSeq(s) /\ IsSeq(t)
  BY DEF Messages
<1>2. Joins(u, s, t)
  BY Zenon, <1>1, ConcatFacts
<1>3. Len(s) \in Nat /\ Len(t) \in Nat /\ DOMAIN s = 1..Len(s) /\ DOMAIN t = 1..Len(t)
  BY Zenon, <1>1, SeqShape
<1> HIDE DEF u
<1>4. ASSUME NEW k \in DOMAIN u PROVE u[k].kind \in Kinds
  <2>1. CASE k \in 1..Len(s)
    BY <1>2, <1>3, <2>1 DEF Joins, Messages
  <2>2. CASE k \notin 1..Len(s)
    <3>1. k \in 1..(Len(s) + Len(t))
      BY <1>2 DEF Joins
    <3>2. k - Len(s) \in 1..Len(t) /\ Len(s) + (k - Len(s)) = k
      BY <1>3, <2>2, <3>1
    <3>3. u[k] = t[k - Len(s)]
      BY <1>2, <3>2 DEF Joins
    <3> QED  BY <1>3, <3>2, <3>3 DEF Messages
  <2> QED  BY <2>1, <2>2
<1>5. Messages(u)
  BY <1>2, <1>4 DEF Messages, Joins
<1> QED  BY <1>5 DEF u

\* The bytes of two responses joined are those of both.
LEMMA WireSizesConcat ==
  ASSUME NEW s, NEW t, Messages(s), Messages(t)
  PROVE  WireSizes(s \o t) = WireSizes(s) + WireSizes(t)
<1> DEFINE u == s \o t
           n == Len(s)
           m == Len(t)
<1>1. Messages(u)
  BY Zenon, ConcatMessages
<1>2. Joins(u, s, t)
  BY Zenon, ConcatFacts DEF Messages
<1> HIDE DEF u
<1>3. /\ WireSizes(s) = SumFunctionOnSet(Sizes(s), 1..n) /\ n \in Nat
      /\ \A k \in 1..n : Sizes(s)[k] = WireSize(s[k].kind)
  BY Zenon, SizesUnfold
<1>4. /\ WireSizes(t) = SumFunctionOnSet(Sizes(t), 1..m) /\ m \in Nat
      /\ \A k \in 1..m : Sizes(t)[k] = WireSize(t[k].kind)
  BY Zenon, SizesUnfold
<1>5. /\ WireSizes(u) = SumFunctionOnSet(Sizes(u), 1..Len(u))
      /\ \A k \in 1..Len(u) : Sizes(u)[k] = WireSize(u[k].kind)
      /\ Measures(Sizes(u), 1..Len(u))
  BY Zenon, <1>1, SizesUnfold
<1>6. /\ Len(u) = n + m
      /\ \A k \in 1..n : u[k] = s[k]
      /\ \A k \in 1..m : u[n + k] = t[k]
  BY <1>2 DEF Joins
<1> HIDE DEF n, m
<1>7. \A k \in 1..n : Sizes(u)[k] = Sizes(s)[k]
  <2>1. \A k \in 1..n : k \in 1..(n + m)
    BY <1>3, <1>4
  <2> QED  BY Zenon, <1>3, <1>5, <1>6, <2>1
<1>8. \A k \in 1..m : Sizes(u)[n + k] = Sizes(t)[k]
  <2>1. \A k \in 1..m : n + k \in 1..(n + m)
    BY <1>3, <1>4
  <2> QED  BY Zenon, <1>4, <1>5, <1>6, <2>1
<1>9. Measures(Sizes(u), 1..(n + m))
  BY Zenon, <1>5, <1>6
<1>10. SumFunctionOnSet(Sizes(u), 1..(n + m)) =
         SumFunctionOnSet(Sizes(s), 1..n) + SumFunctionOnSet(Sizes(t), 1..m)
  BY SMTT(30), <1>3, <1>4, <1>7, <1>8, <1>9, SumConcat
<1> QED  BY Zenon, <1>3, <1>4, <1>5, <1>6, <1>10 DEF u

\* An empty response takes no bytes.
LEMMA WireSizesEmpty == Messages(<<>>) /\ WireSizes(<<>>) = 0
<1>1. Messages(<<>>)
  BY EmptyFacts DEF Messages
<1>2. WireSizes(<<>>) = SumFunctionOnSet(Sizes(<<>>), 1..Len(<<>>))
  BY Zenon, <1>1, SizesUnfold
<1>3. 1..Len(<<>>) = {}
  BY EmptyFacts
<1> QED  BY Zenon, <1>1, <1>2, <1>3, SumEmpty

\* A response of one message takes the bytes of the message.
LEMMA WireSizesSingle ==
  ASSUME NEW m, m.kind \in Kinds
  PROVE  Messages(<<m>>) /\ WireSizes(<<m>>) = WireSize(m.kind)
<1> DEFINE s == <<m>>
<1>1. IsSeq(s) /\ Len(s) = 1 /\ s[1] = m /\ DOMAIN s = 1..1
  BY Zenon, SingleFacts
<1> HIDE DEF s
<1>2. Messages(s)
  BY <1>1 DEF Messages
<1>3. /\ WireSizes(s) = SumFunctionOnSet(Sizes(s), 1..Len(s))
      /\ \A k \in 1..Len(s) : Sizes(s)[k] = WireSize(s[k].kind)
  BY Zenon, <1>2, SizesUnfold
<1>4. \A k \in 1..1 : Sizes(s)[k] = WireSize(m.kind)
  BY <1>1, <1>3
<1>5. WireSize(m.kind) \in Int /\ 1 \in Nat
  BY WireSizeFacts
<1>6. SumFunctionOnSet(Sizes(s), 1..1) = 1 * WireSize(m.kind)
  BY Zenon, <1>4, <1>5, SumConstant
<1>7. WireSizes(s) = WireSize(m.kind)
  BY <1>1, <1>3, <1>5, <1>6
<1> QED  BY <1>2, <1>7 DEF s

-----------------------------------------------------------------------------
(* Fills and replies.                                                      *)

\* The trades the fills of a response tell of.
FillTrades(s) == [k \in DOMAIN Fills(s) |-> Fills(s)[k].trade]

\* The fills of two responses joined are those of the first, then those of
\* the second; and so are the other messages.
SplitFills(s, t) == Fills(s \o t) = Fills(s) \o Fills(t)
SplitReplies(s, t) == Replies(s \o t) = Replies(s) \o Replies(t)

\* They are, for any two responses.
LEMMA FillsSplit ==
  ASSUME NEW s, NEW t, IsSeq(s), IsSeq(t)
  PROVE  SplitFills(s, t) /\ SplitReplies(s, t)
<1> DEFINE u == s \o t
           All == Range(s) \cup Range(t)
           Q == {m \in All : m.kind = "Fill"}
           R == {m \in All : m.kind # "Fill"}
<1>1. Joins(u, s, t)
  BY Zenon, ConcatFacts
<1>2. Len(s) \in Nat /\ Len(t) \in Nat /\ DOMAIN s = 1..Len(s) /\ DOMAIN t = 1..Len(t)
  BY Zenon, SeqShape
<1> HIDE DEF All, Q, R
<1>3. ChosenSplit(s, t, Q)
  BY Zenon, PickMembers
<1>4. ChosenSplit(s, t, R)
  BY Zenon, PickMembers
<1>5. /\ \A k \in DOMAIN s : s[k] \in All
      /\ \A k \in DOMAIN t : t[k] \in All
  BY Zenon DEF Range, All
<1> HIDE DEF u
<1>6. \A k \in DOMAIN u : u[k] \in All
  <2> SUFFICES ASSUME NEW k \in DOMAIN u PROVE u[k] \in All
    OBVIOUS
  <2>1. CASE k \in 1..Len(s)
    BY <1>1, <1>2, <1>5, <2>1 DEF Joins
  <2>2. CASE k \notin 1..Len(s)
    <3>1. k \in 1..(Len(s) + Len(t))
      BY <1>1 DEF Joins
    <3>2. k - Len(s) \in 1..Len(t) /\ Len(s) + (k - Len(s)) = k
      BY <1>2, <2>2, <3>1
    <3>3. u[k] = t[k - Len(s)]
      BY <1>1, <3>2 DEF Joins
    <3> QED  BY <1>2, <1>5, <3>2, <3>3
  <2> QED  BY <2>1, <2>2
<1>7. /\ {k \in DOMAIN u : u[k] \in Q} = {k \in DOMAIN u : u[k].kind = "Fill"}
      /\ {k \in DOMAIN s : s[k] \in Q} = {k \in DOMAIN s : s[k].kind = "Fill"}
      /\ {k \in DOMAIN t : t[k] \in Q} = {k \in DOMAIN t : t[k].kind = "Fill"}
  BY Zenon, <1>5, <1>6 DEF Q
<1>8. /\ {k \in DOMAIN u : u[k] \in R} = {k \in DOMAIN u : u[k].kind # "Fill"}
      /\ {k \in DOMAIN s : s[k] \in R} = {k \in DOMAIN s : s[k].kind # "Fill"}
      /\ {k \in DOMAIN t : t[k] \in R} = {k \in DOMAIN t : t[k].kind # "Fill"}
  BY Zenon, <1>5, <1>6 DEF R
<1>9. SplitFills(s, t)
  BY Zenon, <1>3, <1>7 DEF SplitFills, Fills, ChosenSplit, Chosen, u
<1>10. SplitReplies(s, t)
  BY Zenon, <1>4, <1>8 DEF SplitReplies, Replies, ChosenSplit, Chosen, u
<1> QED  BY <1>9, <1>10

\* The fills, the other messages and the trades told of are sequences.
LEMMA FillsSeq ==
  ASSUME NEW s, IsSeq(s)
  PROVE  IsSeq(Fills(s)) /\ IsSeq(Replies(s)) /\ IsSeq(FillTrades(s))
         /\ Len(FillTrades(s)) = Len(Fills(s))
         /\ \A k \in 1..Len(Fills(s)) : FillTrades(s)[k] = Fills(s)[k].trade
<1> DEFINE K == {k \in DOMAIN s : s[k].kind = "Fill"}
           L == {k \in DOMAIN s : s[k].kind # "Fill"}
           f == Fills(s)
           g == FillTrades(s)
<1>1. IsFiniteSet(DOMAIN s) /\ DOMAIN s \subseteq Int
  BY Zenon, SeqShape
<1>2. K \subseteq DOMAIN s /\ L \subseteq DOMAIN s
  OBVIOUS
<1>3. IsFiniteSet(K) /\ IsFiniteSet(L) /\ K \subseteq Int /\ L \subseteq Int
  BY Zenon, <1>1, <1>2, FS_Subset
<1>4. f = Pick(s, K) /\ Replies(s) = Pick(s, L)
  BY Zenon DEF Fills, Replies
<1> HIDE DEF K, L
<1>5. IsSeq(f) /\ IsSeq(Replies(s))
  BY Zenon, <1>3, <1>4, PickSeq
<1>6. g = [k \in DOMAIN f |-> f[k].trade]
  BY DEF FillTrades
<1> HIDE DEF f, g
<1>7. Len(f) \in Nat /\ DOMAIN f = 1..Len(f)
  BY Zenon, <1>5, SeqShape
<1>8. g = [k \in 1..Len(f) |-> f[k].trade]
  BY Zenon, <1>6, <1>7
<1>9. g = [k \in 1..Len(f) |-> g[k]]
  BY Zenon, <1>8
<1>10. IsSeq(g) /\ Len(g) = Len(f)
  BY Zenon, <1>7, <1>9, SeqIntro
<1>11. \A k \in 1..Len(f) : g[k] = f[k].trade
  BY Zenon, <1>8
<1> QED  BY Zenon, <1>5, <1>10, <1>11 DEF f, g

\* The trades two responses joined tell of are those of the first, then those
\* of the second.
SplitTrades(s, t) == FillTrades(s \o t) = FillTrades(s) \o FillTrades(t)

\* They are, for any two responses.
LEMMA TradesSplit ==
  ASSUME NEW s, NEW t, IsSeq(s), IsSeq(t)
  PROVE  SplitTrades(s, t)
<1> DEFINE u == s \o t
           a == FillTrades(s)
           b == FillTrades(t)
           x == Fills(s)
           y == Fills(t)
           z == Fills(u)
           w == FillTrades(u)
           ab == a \o b
<1>1. IsSeq(u)
  BY Zenon, ConcatFacts DEF Joins
<1>2. z = x \o y
  BY Zenon, FillsSplit DEF SplitFills
<1> HIDE DEF u
<1>3. /\ IsSeq(x) /\ IsSeq(a) /\ Len(a) = Len(x)
      /\ \A k \in 1..Len(x) : a[k] = x[k].trade
  BY Zenon, FillsSeq
<1>4. /\ IsSeq(y) /\ IsSeq(b) /\ Len(b) = Len(y)
      /\ \A k \in 1..Len(y) : b[k] = y[k].trade
  BY Zenon, FillsSeq
<1>5. /\ IsSeq(z) /\ IsSeq(w) /\ Len(w) = Len(z)
      /\ \A k \in 1..Len(z) : w[k] = z[k].trade
  BY Zenon, <1>1, FillsSeq
<1> HIDE DEF a, b, x, y, z, w
<1>6. Joins(z, x, y)
  BY Zenon, <1>2, <1>3, <1>4, ConcatFacts
<1>7. Joins(ab, a, b)
  BY Zenon, <1>3, <1>4, ConcatFacts
<1> HIDE DEF ab
<1>8. Len(x) \in Nat /\ Len(y) \in Nat
  BY Zenon, <1>3, <1>4, SeqShape
<1>9. IsSeq(ab) /\ Len(ab) = Len(w)
  BY <1>3, <1>4, <1>5, <1>6, <1>7 DEF Joins
<1>10. ASSUME NEW k \in 1..Len(w) PROVE w[k] = ab[k]
  <2>1. CASE k \in 1..Len(x)
    BY <1>3, <1>5, <1>6, <1>7, <2>1 DEF Joins
  <2>2. CASE k \notin 1..Len(x)
    <3>1. k \in 1..(Len(x) + Len(y))
      BY <1>5, <1>6 DEF Joins
    <3>2. k - Len(x) \in 1..Len(y) /\ Len(x) + (k - Len(x)) = k
      BY <1>8, <2>2, <3>1
    <3>3. z[k] = y[k - Len(x)]
      BY <1>6, <3>2 DEF Joins
    <3>4. ab[k] = b[k - Len(x)]
      BY <1>3, <1>4, <1>7, <3>2 DEF Joins
    <3> QED  BY <1>4, <1>5, <3>2, <3>3, <3>4
  <2> QED  BY <2>1, <2>2
<1>11. w = ab
  BY Zenon, <1>5, <1>9, <1>10, SeqSame
<1> QED  BY Zenon, <1>11 DEF SplitTrades, w, ab, a, b, u

-----------------------------------------------------------------------------
(* The answer to one frame.                                                *)

\* A message that is not a fill answers and tells of no trade.
LEMMA SingleReply ==
  ASSUME NEW m, m.kind \in Kinds \ {"Fill"}
  PROVE  Replies(<<m>>) = <<m>> /\ FillTrades(<<m>>) = <<>>
<1> DEFINE s == <<m>>
<1>1. IsSeq(s) /\ Len(s) = 1 /\ s[1] = m /\ DOMAIN s = 1..1
  BY Zenon, SingleFacts
<1> HIDE DEF s
<1>2. {k \in DOMAIN s : s[k].kind # "Fill"} = DOMAIN s
  BY <1>1
<1>3. {k \in DOMAIN s : s[k].kind = "Fill"} = {}
  BY <1>1
<1>4. Replies(s) = s
  BY Zenon, <1>1, <1>2, PickAll DEF Replies
<1>5. Fills(s) = <<>>
  BY Zenon, <1>3, PickNone DEF Fills
<1>6. IsSeq(FillTrades(s)) /\ Len(FillTrades(s)) = Len(Fills(s))
  BY Zenon, <1>1, FillsSeq
<1>7. FillTrades(s) = <<>>
  BY <1>5, <1>6, EmptyFacts DEF IsSeq
<1> QED  BY Zenon, <1>4, <1>7 DEF s

\* A Fill for each of the trades.
FillEach(trades) == [k \in DOMAIN trades |-> [kind |-> "Fill", trade |-> trades[k]]]

\* a is the answer to the frame f.
Answering(a, f) ==
  IF f.msg = "Heartbeat" THEN a.kind = "HeartbeatAck"
                         ELSE a.kind \in {"Ack", "Reject"} /\ a.id = f.command.id

\* The messages answer f, and tell of the trades.
Reply(messages, f, trades) ==
  /\ Messages(messages) /\ FillTrades(messages) = trades
  /\ \E a : Replies(messages) = <<a>> /\ Answering(a, f)

\* What emit_result is given: the outcome of an order or a cancel.
Outcome(r) ==
  /\ Len(r.events) \in Nat /\ DOMAIN r.events = 1..Len(r.events)
  /\ r.accepted \in BOOLEAN
  /\ ~r.accepted => r.events = <<>>

\* The trades of an outcome are the trades among its events, none when it was
\* refused.
LEMMA TradesOfFacts ==
  ASSUME NEW r, Outcome(r)
  PROVE  /\ IsSeq(TradesOf(r)) /\ Len(TradesOf(r)) = TradeCount(r.events)
         /\ TradeCount(r.events) \in Nat
         /\ TradeCount(r.events) = 0 => TradesOf(r) = <<>>
         /\ ~r.accepted => TradesOf(r) = <<>>
<1> DEFINE K == {k \in DOMAIN r.events : r.events[k].kind = "trade"}
           p == Pick(r.events, K)
           t == TradesOf(r)
<1>1. K \subseteq DOMAIN r.events /\ Cardinality(K) = TradeCount(r.events)
  BY Zenon DEF TradeCount
<1>2. IsFiniteSet(DOMAIN r.events) /\ DOMAIN r.events \subseteq Int
  <2>1. Len(r.events) \in Nat /\ DOMAIN r.events = 1..Len(r.events)
    BY Zenon DEF Outcome
  <2>2. IsFiniteSet(1..Len(r.events)) /\ 1..Len(r.events) \subseteq Int
    BY <2>1, IntervalFacts
  <2> QED  BY Zenon, <2>1, <2>2
<1>3. t = [k \in DOMAIN p |-> p[k].trade]
  BY Zenon DEF TradesOf
<1> HIDE DEF K, t
<1>4. IsFiniteSet(K) /\ K \subseteq Int
  BY Zenon, <1>1, <1>2, FS_Subset
<1>5. IsSeq(p) /\ Len(p) = Cardinality(K)
  BY Zenon, <1>4, PickSeq
<1> HIDE DEF p
<1>6. Len(p) \in Nat /\ DOMAIN p = 1..Len(p)
  BY Zenon, <1>5, SeqShape
<1>7. t = [k \in 1..Len(p) |-> t[k]]
  BY Zenon, <1>3, <1>6
<1>8. IsSeq(t) /\ Len(t) = Len(p)
  BY Zenon, <1>6, <1>7, SeqIntro
<1>9. Len(t) = 0 => t = <<>>
  BY SMT, <1>8 DEF IsSeq
<1>10. ~r.accepted => TradeCount(r.events) = 0
  BY Zenon, NoTrades DEF Outcome
<1> QED  BY Zenon, <1>1, <1>5, <1>6, <1>8, <1>9, <1>10 DEF t

\* emit_result answers the request once, tells of every trade, and takes the
\* bytes that Required foresees.
LEMMA EmitReply ==
  \A r, f :
    Outcome(r) /\ f.msg # "Heartbeat" =>
      (LET m == emit_result(f.command.id, r)
       IN  /\ Reply(m, f, TradesOf(r))
           /\ WireSizes(m) = IF r.accepted THEN WireSize("Ack") + TradeCount(r.events) * WireSize("Fill")
                                           ELSE WireSize("Reject"))
\* A fill for each trade tells of the trades and answers nothing.
<1>FillEachFacts.
      ASSUME NEW trades, IsSeq(trades)
      PROVE  LET g == FillEach(trades)
             IN  /\ Messages(g) /\ Replies(g) = <<>> /\ FillTrades(g) = trades
                 /\ WireSizes(g) = Len(trades) * WireSize("Fill")
  <2> USE <1>FillEachFacts
  <2> DEFINE g == FillEach(trades)
             n == Len(trades)
             h == FillTrades(g)
  <2>1. n \in Nat /\ DOMAIN trades = 1..n
    BY Zenon, SeqShape
  <2>2. DOMAIN g = 1..n /\ g = [k \in 1..n |-> g[k]]
    BY Zenon, <2>1 DEF FillEach
  <2>3. \A k \in 1..n : g[k].kind = "Fill" /\ g[k].trade = trades[k]
    BY <2>1 DEF FillEach
  <2> HIDE DEF g, h
  <2>4. IsSeq(g) /\ Len(g) = n
    BY Zenon, <2>1, <2>2, SeqIntro
  <2>5. Messages(g)
    BY <2>2, <2>3, <2>4 DEF Messages, Kinds
  <2>6. {k \in DOMAIN g : g[k].kind # "Fill"} = {} /\ {k \in DOMAIN g : g[k].kind = "Fill"} = DOMAIN g
    BY <2>2, <2>3
  <2>7. Replies(g) = <<>> /\ Fills(g) = g
    BY Zenon, <2>4, <2>6, PickNone, PickAll DEF Replies, Fills
  <2>8. /\ IsSeq(h) /\ Len(h) = Len(Fills(g))
        /\ \A k \in 1..Len(Fills(g)) : h[k] = Fills(g)[k].trade
    BY Zenon, <2>4, FillsSeq DEF h
  <2>9. Len(h) = Len(trades) /\ \A k \in 1..Len(h) : h[k] = trades[k]
    BY <2>3, <2>4, <2>7, <2>8
  <2>10. h = trades
    BY Zenon, <2>8, <2>9, SeqSame
  <2>11. /\ WireSizes(g) = SumFunctionOnSet(Sizes(g), 1..Len(g))
         /\ \A k \in 1..Len(g) : Sizes(g)[k] = WireSize(g[k].kind)
    BY Zenon, <2>5, SizesUnfold
  <2>12. \A k \in 1..n : Sizes(g)[k] = WireSize("Fill")
    BY <2>3, <2>4, <2>11
  <2>13. WireSize("Fill") \in Int
    BY WireSizeFacts
  <2>14. SumFunctionOnSet(Sizes(g), 1..n) = n * WireSize("Fill")
    BY Zenon, <2>1, <2>12, <2>13, SumConstant
  <2> QED  BY Zenon, <2>4, <2>5, <2>7, <2>10, <2>11, <2>14 DEF g, h
<1> TAKE r, f
<1> HAVE Outcome(r) /\ f.msg # "Heartbeat"
<1> DEFINE id == f.command.id
           m == emit_result(id, r)
           rej == [kind |-> "Reject", id |-> id]
           ack == [kind |-> "Ack", id |-> id]
           trades == TradesOf(r)
           g == FillEach(trades)
<1>1. IsSeq(trades) /\ Len(trades) = TradeCount(r.events) /\ (~r.accepted => trades = <<>>)
  BY Zenon, TradesOfFacts
<1>2. /\ rej.kind = "Reject" /\ ack.kind = "Ack" /\ Answering(rej, f) /\ Answering(ack, f)
  BY DEF Answering
<1>3. r.accepted \in BOOLEAN
  BY Zenon DEF Outcome
<1>4. CASE ~r.accepted
  <2>1. m = <<rej>>
    BY <1>4 DEF emit_result
  <2>2. rej.kind \in Kinds \ {"Fill"} /\ rej.kind \in Kinds
    BY <1>2 DEF Kinds
  <2> HIDE DEF m, rej, trades
  <2>3. Messages(<<rej>>) /\ WireSizes(<<rej>>) = WireSize(rej.kind)
    BY Zenon, <2>2, WireSizesSingle
  <2>4. Replies(<<rej>>) = <<rej>> /\ FillTrades(<<rej>>) = <<>>
    BY Zenon, <2>2, SingleReply
  <2>5. Reply(m, f, trades)
    BY Zenon, <1>1, <1>2, <1>4, <2>1, <2>3, <2>4 DEF Reply
  <2> QED  BY Zenon, <1>2, <1>4, <2>1, <2>3, <2>5 DEF m, trades
<1>5. CASE r.accepted
  <2>1. m = <<ack>> \o g
    BY <1>5 DEF emit_result, FillEach
  <2>2. ack.kind \in Kinds \ {"Fill"} /\ ack.kind \in Kinds
    BY <1>2 DEF Kinds
  <2> DEFINE a == <<ack>>
  <2> HIDE DEF m, ack, g, trades
  <2>3. Messages(a) /\ WireSizes(a) = WireSize(ack.kind)
    BY Zenon, <2>2, WireSizesSingle
  <2>4. Replies(a) = <<ack>> /\ FillTrades(a) = <<>>
    BY Zenon, <2>2, SingleReply
  <2>5. /\ Messages(g) /\ Replies(g) = <<>> /\ FillTrades(g) = trades
        /\ WireSizes(g) = Len(trades) * WireSize("Fill")
    BY Zenon, <1>1, <1>FillEachFacts DEF g
  <2> HIDE DEF a
  <2>6. IsSeq(a) /\ IsSeq(g)
    BY Zenon, <2>3, <2>5 DEF Messages
  <2>7. Messages(m) /\ WireSizes(m) = WireSizes(a) + WireSizes(g)
    BY Zenon, <2>1, <2>3, <2>5, ConcatMessages, WireSizesConcat DEF a
  <2>8. SplitReplies(a, g) /\ SplitTrades(a, g)
    BY Zenon, <2>6, FillsSplit, TradesSplit
  <2>9. m = a \o g
    BY Zenon, <2>1 DEF a
  <2>10. Replies(m) = <<ack>> \o <<>> /\ FillTrades(m) = <<>> \o trades
    BY Zenon, <2>4, <2>5, <2>8, <2>9 DEF SplitReplies, SplitTrades
  <2>11. Replies(m) = <<ack>> /\ FillTrades(m) = trades
    BY Zenon, <1>1, <2>10, <2>6, ConcatEmpty DEF a
  <2>12. Reply(m, f, trades)
    BY Zenon, <1>2, <2>7, <2>11 DEF Reply
  <2>13. WireSizes(m) = WireSize("Ack") + TradeCount(r.events) * WireSize("Fill")
    BY Zenon, <1>1, <1>2, <2>3, <2>5, <2>7
  <2> QED  BY Zenon, <1>5, <2>12, <2>13 DEF m, trades
<1> QED  BY <1>3, <1>4, <1>5

-----------------------------------------------------------------------------
(* The mutex and the frames.                                               *)

\* The thread is inside on_bytes.
Inside(c) == pc[c] \in {"frame", "submit"}

\* Every per-connection variable has a value for every client.
PerClient ==
  /\ DOMAIN pc = Clients /\ DOMAIN inbuf = Clients
  /\ DOMAIN logged_out = Clients /\ DOMAIN out = Clients

\* Exactly the thread inside on_bytes holds the mutex.
HolderInside == \A c \in Clients : holder = <<c>> <=> Inside(c)

\* A response is written for a session that has stopped or has used up its frames.
Settled ==
  \A c \in Clients :
    pc[c] = "write" /\ ~logged_out[c] => Len(inbuf[c]) < 2 /\ ~HeaderBad(c)

\* What ensure_new_order_budget found still holds when the order is submitted:
\* the preview was made on the book the order meets.
BudgetHolds ==
  \A c \in Clients :
    pc[c] = "submit" => has_space(c, Required(PreviewOf(FirstFrame(c))))

IInv == PerClient /\ HolderInside /\ Settled /\ BudgetHolds /\ NothingStranded

\* No thread is inside on_bytes at the start.
LEMMA InitIInv == Init => IInv
  BY DEF Init, Each, IInv, PerClient, HolderInside, Inside, Settled, BudgetHolds,
         NothingStranded, HeaderBad

-----------------------------------------------------------------------------
(* A step of one client.                                                   *)

\* What a step of c leaves alone of another client.
Apart(c) ==
  \A d \in Clients \ {c} :
    /\ pc'[d] = pc[d] /\ inbuf'[d] = inbuf[d]
    /\ logged_out'[d] = logged_out[d] /\ out'[d] = out[d]

\* The mutex follows the thread of c, and the engine changes only under it.
MutexKept(c) ==
  /\ \/ holder' = holder
     \/ holder' = <<>> /\ Inside(c)
     \/ holder' = <<c>> /\ holder = <<>>
  /\ holder' = <<c>> <=> Inside(c)'
  /\ engine' = engine \/ Inside(c)

\* What the invariant says of c itself after its step.
SelfKept(c) ==
  /\ pc'[c] = "write" /\ ~logged_out'[c] => Len(inbuf'[c]) < 2 /\ ~HeaderBad(c)'
  /\ pc'[c] = "submit" => has_space(c, Required(PreviewOf(FirstFrame(c))))'
  /\ pc'[c] = "read" =>
       Len(inbuf'[c]) < 2 /\ ~HeaderBad(c)' /\ ~logged_out'[c] /\ holder' # <<c>>

\* A step of the thread of c keeps what the invariant says of everyone.
Kept(c) == PerClient' /\ Apart(c) /\ MutexKept(c) /\ SelfKept(c)

-----------------------------------------------------------------------------
(* One lemma per step of serve_connection and on_bytes.                    *)

\* Every step keeps the invariant.
LEMMA NextIInv == IInv /\ [Next]_vars => IInv'
\* Such a step keeps the invariant.
<1>KeptIInv. ASSUME IInv, NEW c \in Clients, Kept(c)
             PROVE  IInv'
  <2> USE <1>KeptIInv
  <2> USE DEF IInv, Kept
  <2>1. HolderInside'
    <3> SUFFICES ASSUME NEW d \in Clients PROVE (holder = <<d>> <=> Inside(d))'
      BY DEF HolderInside
    <3>1. CASE d = c
      BY <3>1 DEF MutexKept, Inside
    <3>2. CASE d # c
      <4>1. <<d>> # <<c>> /\ <<d>> # <<>>
        BY <3>2
      <4>2. Inside(d)' <=> Inside(d)
        BY <3>2 DEF Apart, Inside
      <4>3. holder = <<c>> /\ Inside(c) => holder # <<d>>
        BY <4>1
      <4> QED  BY <4>1, <4>2 DEF MutexKept, HolderInside
    <3> QED  BY <3>1, <3>2
  <2>2. ASSUME NEW d \in Clients, d # c
        PROVE  pc[d] = "submit" => engine' = engine
    BY <2>2 DEF HolderInside, Inside, MutexKept
  <2>3. Settled'
    BY DEF Settled, SelfKept, Apart, HeaderBad
  <2>4. BudgetHolds'
    <3> SUFFICES ASSUME NEW d \in Clients, pc'[d] = "submit"
                 PROVE  has_space(d, Required(PreviewOf(FirstFrame(d))))'
      BY DEF BudgetHolds
    <3>1. CASE d = c
      BY <3>1 DEF SelfKept
    <3>2. CASE d # c
      <4>1. pc[d] = "submit" /\ inbuf'[d] = inbuf[d] /\ out'[d] = out[d] /\ engine' = engine
        BY <3>2, <2>2 DEF Apart
      <4>2. has_space(d, Required(PreviewOf(FirstFrame(d))))
        BY SMTT(30), <4>1 DEF BudgetHolds
      <4>3. FirstFrame(d)' = FirstFrame(d)
        BY <4>1 DEF FirstFrame
      <4>4. PreviewOf(FirstFrame(d))' = PreviewOf(FirstFrame(d))
        BY <4>1, <4>3 DEF PreviewOf
      <4> QED  BY <4>1, <4>2, <4>4 DEF has_space
    <3> QED  BY <3>1, <3>2
  <2>5. NothingStranded'
    <3> SUFFICES ASSUME NEW d \in Clients, pc'[d] = "read"
                 PROVE  (Len(inbuf[d]) < 2 /\ ~HeaderBad(d) /\ ~logged_out[d] /\ holder # <<d>>)'
      BY DEF NothingStranded
    <3>1. CASE d = c
      BY <3>1 DEF SelfKept
    <3>2. CASE d # c
      <4>1. pc[d] = "read" /\ inbuf'[d] = inbuf[d] /\ logged_out'[d] = logged_out[d]
        BY <3>2 DEF Apart
      <4>2. holder' # <<d>>
        BY <2>1, <4>1, <3>2 DEF HolderInside, Inside
      <4> QED  BY <4>1, <4>2 DEF NothingStranded, HeaderBad
    <3> QED  BY <3>1, <3>2
  <2> QED  BY <2>1, <2>3, <2>4, <2>5
\* A read or the end of the stream is such a step.
<1>ReadKept. ASSUME IInv, NEW c \in Clients, Read(c) \/ Disconnect(c)
             PROVE  Kept(c)
  <2> USE <1>ReadKept
  <2>1. /\ pc[c] = "read" /\ pc'[c] \in {"lock", "closed"}
        /\ engine' = engine /\ holder' = holder
    BY DEF Read, Disconnect, IInv, PerClient
  <2>2. PerClient'
    BY DEF Read, Disconnect, connection, IInv, PerClient
  <2>3. Apart(c)
    BY DEF Read, Disconnect, connection, IInv, PerClient, Apart
  <2>4. MutexKept(c)
    BY <2>1 DEF IInv, HolderInside, Inside, MutexKept
  <2>5. SelfKept(c)
    BY <2>1 DEF SelfKept
  <2> QED  BY SMTT(30), <2>2, <2>3, <2>4, <2>5 DEF Kept
\* Taking gateway_mutex_ is such a step.
<1>LockKept. ASSUME IInv, NEW c \in Clients, Lock(c)
             PROVE  Kept(c)
  BY <1>LockKept DEF Lock, connection, IInv, PerClient, HolderInside, Inside, Kept, Apart, MutexKept,
         SelfKept
\* Writing the response is such a step.
<1>WriteKept. ASSUME IInv, NEW c \in Clients, Write(c)
              PROVE  Kept(c)
  <2> USE <1>WriteKept
  <2> USE DEF IInv, PerClient, HolderInside, Inside
  <2>1. /\ pc[c] = "write" /\ pc'[c] \in {"closed", "read"}
        /\ pc'[c] = "read" => ~logged_out[c]
        /\ DOMAIN pc' = Clients /\ DOMAIN out' = Clients
        /\ \A d \in Clients \ {c} : pc'[d] = pc[d] /\ out'[d] = out[d]
        /\ engine' = engine /\ holder' = holder /\ inbuf' = inbuf /\ logged_out' = logged_out
    BY DEF Write
  <2>2. holder # <<c>>
    BY <2>1
  <2>3. PerClient'
    BY <2>1
  <2>4. Apart(c)
    BY SMTT(30), <2>1 DEF Apart
  <2>5. MutexKept(c)
    BY SMTT(30), <2>1, <2>2 DEF MutexKept
  <2>6. SelfKept(c)
    BY SMTT(30), <2>1, <2>2 DEF SelfKept, Settled, HeaderBad
  <2> QED  BY SMTT(30), <2>3, <2>4, <2>5, <2>6 DEF Kept
\* on_bytes stops: because the session is over, or for want of bytes.
<1>UnlockKept.
      ASSUME IInv, NEW c \in Clients, Inside(c), Unlock(c),
             out' = out, DOMAIN inbuf' = Clients, DOMAIN logged_out' = Clients,
             \A d \in Clients \ {c} : inbuf'[d] = inbuf[d] /\ logged_out'[d] = logged_out[d],
             ~logged_out'[c] => Len(inbuf'[c]) < 2 /\ ~HeaderBad(c)'
      PROVE  Kept(c)
  <2> USE <1>UnlockKept
  <2>1. pc'[c] = "write" /\ holder' = <<>>
    BY DEF Unlock, IInv, PerClient
  <2>2. PerClient'
    BY DEF Unlock, IInv, PerClient
  <2>3. Apart(c)
    BY DEF Unlock, IInv, PerClient, Apart
  <2>4. MutexKept(c)
    BY <2>1 DEF Inside, MutexKept
  <2>5. SelfKept(c)
    BY <2>1 DEF SelfKept
  <2> QED  BY SMTT(30), <2>2, <2>3, <2>4, <2>5 DEF Kept
\* Running out of bytes, a malformed header and a dropped peer are such
\* steps.
<1>StopKept.
      ASSUME IInv, NEW c \in Clients, NeedMoreBytes(c) \/ MalformedHeader(c) \/ DropPeer(c)
      PROVE  Kept(c)
  <2> USE <1>StopKept
  <2> USE DEF IInv, PerClient, Inside
  <2>1. CASE NeedMoreBytes(c)
    BY <2>1, <1>UnlockKept DEF NeedMoreBytes, connection, HeaderBad
  <2>2. CASE MalformedHeader(c)
    BY Zenon, <2>2, <1>UnlockKept DEF MalformedHeader
  <2>3. CASE DropPeer(c)
    BY Zenon, <2>3, <1>UnlockKept DEF DropPeer, FrameReady
  <2> QED  BY SMTT(30), <2>1, <2>2, <2>3
\* Closing the session at the output limit is such a step.
<1>OutputLimitKept. ASSUME IInv, NEW c \in Clients, Inside(c), OutputLimit(c)
                    PROVE  Kept(c)
  BY Zenon, <1>OutputLimitKept, <1>UnlockKept DEF OutputLimit, IInv, PerClient
\* Appending an answer is such a step.
<1>AnswerKept.
      ASSUME IInv, NEW c \in Clients, Inside(c), NEW messages, Answer(c, messages)
      PROVE  Kept(c)
  <2> USE <1>AnswerKept
  <2>1. pc'[c] = "frame" /\ holder' = holder
    BY DEF Answer, IInv, PerClient
  <2>2. PerClient'
    BY DEF Answer, IInv, PerClient
  <2>3. Apart(c)
    BY DEF Answer, IInv, PerClient, Apart
  <2>4. MutexKept(c)
    BY <2>1 DEF IInv, HolderInside, Inside, MutexKept
  <2>5. SelfKept(c)
    BY <2>1 DEF SelfKept
  <2> QED  BY SMTT(30), <2>2, <2>3, <2>4, <2>5 DEF Kept
\* emit_result, or closing the session in its place, is such a step.
<1>EmitKept.
      ASSUME IInv, NEW c \in Clients, Inside(c), NEW id, NEW r, EmitOrClose(c, id, r)
      PROVE  Kept(c)
  BY <1>EmitKept, <1>AnswerKept, <1>OutputLimitKept DEF EmitOrClose
\* The handlers of heartbeats, cancels and previewed orders are such steps.
<1>HandleKept.
      ASSUME IInv, NEW c \in Clients,
             handle_heartbeat(c) \/ handle_cancel_order(c) \/ SubmitNewOrder(c)
      PROVE  Kept(c)
  <2> USE <1>HandleKept
  <2>1. CASE handle_heartbeat(c)
    BY SMTT(30), <2>1, <1>AnswerKept, <1>OutputLimitKept DEF handle_heartbeat, FrameReady, Inside
  <2>2. CASE handle_cancel_order(c)
    BY SMTT(30), <2>2, <1>EmitKept, <1>OutputLimitKept DEF handle_cancel_order, FrameReady, Inside
  <2>3. CASE SubmitNewOrder(c)
    BY <2>3, <1>EmitKept DEF SubmitNewOrder, Inside
  <2> QED  BY SMTT(30), <2>1, <2>2, <2>3
\* The budget check is such a step.
<1>BudgetKept. ASSUME IInv, NEW c \in Clients, ensure_new_order_budget(c)
               PROVE  Kept(c)
  <2> USE <1>BudgetKept
  <2>1. Inside(c)
    BY DEF ensure_new_order_budget, FrameReady, Inside
  <2>2. CASE has_space(c, Required(PreviewOf(FirstFrame(c))))
    <3>1. /\ pc' = [pc EXCEPT ![c] = "submit"] /\ holder' = holder /\ engine' = engine
          /\ inbuf' = inbuf /\ logged_out' = logged_out /\ out' = out
      BY SMTT(30), <2>2 DEF ensure_new_order_budget, connection
    <3>2. has_space(c, Required(PreviewOf(FirstFrame(c))))'
      <4>1. PreviewOf(FirstFrame(c))' = PreviewOf(FirstFrame(c))
        BY <3>1 DEF PreviewOf, FirstFrame
      <4> QED  BY SMTT(30), <2>2, <3>1, <4>1 DEF has_space
    <3>3. pc'[c] = "submit" /\ PerClient'
      BY <3>1 DEF IInv, PerClient
    <3>4. Apart(c)
      BY <3>1 DEF IInv, PerClient, Apart
    <3>5. MutexKept(c)
      BY SMTT(30), <2>1, <3>1, <3>3 DEF IInv, HolderInside, Inside, MutexKept
    <3>6. SelfKept(c)
      BY SMTT(30), <3>2, <3>3 DEF SelfKept
    <3> QED  BY SMTT(30), <3>3, <3>4, <3>5, <3>6 DEF Kept
  <2>3. CASE ~has_space(c, Required(PreviewOf(FirstFrame(c))))
    BY SMTT(30), <2>1, <2>3, <1>OutputLimitKept DEF ensure_new_order_budget
  <2> QED  BY <2>2, <2>3
<1> SUFFICES ASSUME IInv, [Next]_vars PROVE IInv'
  OBVIOUS
<1>1. ASSUME NEW c \in Clients, Read(c) \/ Disconnect(c) \/ Step(c) PROVE IInv'
  BY SMTT(30), <1>1, <1>KeptIInv, <1>ReadKept, <1>LockKept, <1>WriteKept, <1>StopKept, <1>HandleKept,
     <1>BudgetKept DEF Step
<1>2. CASE UNCHANGED vars
  BY Zenon, <1>2 DEF vars, connection, IInv, PerClient, HolderInside, Inside, Settled, BudgetHolds,
              NothingStranded, HeaderBad, has_space, PreviewOf, FirstFrame
<1> QED  BY SMTT(30), <1>1, <1>2 DEF Next

-----------------------------------------------------------------------------
\* A thread reads only with every complete frame dealt with, the session open and
\* gateway_mutex_ given back (serve_connection, Session::on_bytes), whatever the
\* clients send and however the threads interleave.
THEOREM NoneStranded == Spec => []NothingStranded
<1>1. IInv => NothingStranded
  BY SMTT(30) DEF IInv
<1> QED  BY InitIInv, NextIInv, <1>1, PTL DEF Spec

\* Check then act: the room ensure_new_order_budget found for the answer of an order
\* is there, and the preview is that of the current book, when handle_new_order
\* submits it, whatever other connections' threads did in between.
THEOREM BudgetStillHolds == Spec => []BudgetHolds
<1>1. IInv => BudgetHolds
  BY DEF IInv
<1> QED  BY InitIInv, NextIInv, <1>1, PTL DEF Spec

-----------------------------------------------------------------------------
(* What the session has written.                                           *)

\* The answers are those of the frames, one each and in order.
AnswersOf(answers, frames) ==
  /\ Len(answers) = Len(frames)
  /\ \A k \in DOMAIN answers : Answering(answers[k], frames[k])

\* What the client was told, w then o, accounts for its trades t and its frames h.
Accounts(w, o, t, h) ==
  /\ Messages(w) /\ Messages(o) /\ IsSeq(h)
  /\ FillTrades(w \o o) = t
  /\ AnswersOf(Replies(w \o o), h)

-----------------------------------------------------------------------------
(* The ledger of a connection.                                             *)

\* The order identifiers of the frames.
Ids == {f.command.id : f \in UNION {Frames(c) : c \in Clients}}

\* What a connection receives, in units.
Units(c) == [unit : {"head", "body"}, frame : Frames(c)]

\* The histories have a value for every client.
Histories == DOMAIN written = Clients /\ DOMAIN handled = Clients /\ DOMAIN traded = Clients

\* What is known of a connection: a response that fits, begun empty at every
\* read, and an account of every frame handled and of every trade made for
\* it.
Ledger(c) ==
  /\ inbuf[c] \in Seq(Units(c))
  /\ pc[c] = "read" => out[c] = <<>>
  /\ pc[c] = "submit" => Len(inbuf[c]) >= 2 /\ FirstFrame(c).msg \in {"Limit", "Market"}
  /\ WireSizes(out[c]) <= MaxResponseBytes
  /\ Accounts(written[c], out[c], traded[c], handled[c])

\* The inductive invariant of the accounts: the engine is sound and every
\* ledger is right.
LInv == Histories /\ SoundEngine(Ids, engine) /\ \A c \in Clients : Ledger(c)

\* A connection starts with nothing to account for.
LEMMA InitLedger == Init => LInv
<1> SUFFICES ASSUME Init PROVE LInv
  OBVIOUS
<1>1. Histories
  BY DEF Init, Each, Histories
<1>2. SoundEngine(Ids, engine)
  <2> DEFINE e == [names |-> <<>>, books |-> <<>>, seq |-> 0]
  <2>1. SoundEngine(Ids, e)
    BY DEF SoundEngine
  <2>2. engine = register_symbol(e, "A")
    BY DEF Init, NewEngine
  <2> HIDE DEF e
  <2>3. Served(Ids, e, Accept(NoEvents(register_symbol(e, "A"))))
    BY Zenon, <2>1, RegisterServed
  <2>4. Accept(NoEvents(register_symbol(e, "A"))).engine = register_symbol(e, "A")
    BY DEF Accept, NoEvents
  <2> QED  BY Zenon, <2>2, <2>3, <2>4 DEF Served
<1>3. ASSUME NEW c \in Clients PROVE Ledger(c)
  <2>1. /\ pc[c] = "read" /\ inbuf[c] = <<>> /\ out[c] = <<>> /\ written[c] = <<>>
        /\ traded[c] = <<>> /\ handled[c] = <<>>
    BY DEF Init, Each
  <2>2. Messages(<<>>) /\ WireSizes(<<>>) = 0 /\ IsSeq(<<>>) /\ Len(<<>>) = 0 /\ DOMAIN <<>> = {}
    BY Zenon, WireSizesEmpty, EmptyFacts
  <2>3. <<>> \o <<>> = <<>>
    BY Zenon, <2>2, ConcatEmpty
  <2>4. Replies(<<>>) = <<>> /\ Fills(<<>>) = <<>>
    <3>1. {k \in DOMAIN <<>> : <<>>[k].kind # "Fill"} = {} /\ {k \in DOMAIN <<>> : <<>>[k].kind = "Fill"} = {}
      BY Zenon, <2>2
    <3> QED  BY Zenon, <3>1, PickNone DEF Replies, Fills
  <2>5. FillTrades(<<>>) = <<>>
    <3>1. IsSeq(FillTrades(<<>>)) /\ Len(FillTrades(<<>>)) = Len(Fills(<<>>))
      BY Zenon, <2>2, FillsSeq
    <3> QED  BY <2>2, <2>4, <3>1 DEF IsSeq
  <2>6. AnswersOf(<<>>, <<>>)
    BY <2>2 DEF AnswersOf
  <2>7. Accounts(<<>>, <<>>, <<>>, <<>>)
    BY Zenon, <2>2, <2>3, <2>4, <2>5, <2>6 DEF Accounts
  <2>8. 0 <= MaxResponseBytes
    BY ResponseAssumption
  <2>9. <<>> \in Seq(Units(c))
    OBVIOUS
  <2> QED  BY <2>1, <2>2, <2>7, <2>8, <2>9 DEF Ledger
<1> QED  BY <1>1, <1>2, <1>3 DEF LInv

-----------------------------------------------------------------------------
\* What a step of c leaves alone of another client's ledger.
Elsewhere(c) ==
  \A d \in Clients \ {c} :
    /\ pc'[d] = pc[d] /\ inbuf'[d] = inbuf[d] /\ out'[d] = out[d]
    /\ written'[d] = written[d] /\ handled'[d] = handled[d] /\ traded'[d] = traded[d]

\* A step of the thread of c keeps its ledger and touches no other.
Entered(c) == Histories' /\ Elsewhere(c) /\ Ledger(c)'

\* Such a step keeps the invariant when it leaves the engine sound.
LEMMA EnteredLInv ==
  ASSUME LInv, NEW c \in Clients, Entered(c), SoundEngine(Ids, engine')
  PROVE  LInv'
<1>1. ASSUME NEW d \in Clients PROVE Ledger(d)'
  <2>1. CASE d = c
    BY Zenon, <2>1 DEF Entered
  <2>2. CASE d # c
    <3>1. /\ pc'[d] = pc[d] /\ inbuf'[d] = inbuf[d] /\ out'[d] = out[d]
          /\ written'[d] = written[d] /\ handled'[d] = handled[d] /\ traded'[d] = traded[d]
      BY Zenon, <2>2 DEF Entered, Elsewhere
    <3>2. Ledger(d)
      BY DEF LInv
    <3> QED  BY Zenon, <3>1, <3>2 DEF Ledger, FirstFrame
  <2> QED  BY <2>1, <2>2
<1> QED  BY <1>1 DEF LInv, Entered

\* A step that answers nothing and consumes nothing.
LEMMA QuietEntered ==
  ASSUME IInv, LInv, NEW c \in Clients, inbuf' = inbuf, out' = out,
         written' = written, handled' = handled,
         DOMAIN traded' = Clients, \A d \in Clients : traded'[d] = traded[d],
         NEW p, pc' = [pc EXCEPT ![c] = p], p # "read", p # "submit"
  PROVE  Entered(c)
<1>1. DOMAIN pc = Clients /\ Histories /\ Ledger(c)
  BY DEF IInv, PerClient, LInv
<1>2. pc'[c] = p /\ \A d \in Clients \ {c} : pc'[d] = pc[d]
  BY <1>1
<1>3. Histories'
  BY <1>1 DEF Histories
<1>4. Elsewhere(c)
  BY Zenon, <1>2 DEF Elsewhere
<1>5. Ledger(c)'
  BY Zenon, <1>1, <1>2 DEF Ledger
<1> QED  BY <1>3, <1>4, <1>5 DEF Entered

\* A read adds to the bytes received and begins an empty response.
LEMMA ReadEntered ==
  \A c \in Clients :
    IInv /\ LInv /\ Read(c) =>
      Entered(c)
\* What a read receives of a frame are units of the frame.
<1>ChunkUnits.
      ASSUME NEW c \in Clients, inbuf[c] \in Seq(Units(c)), NEW chunk \in Chunks(c)
      PROVE  chunk \in Seq(Units(c))
  <2> USE <1>ChunkUnits
  <2> DEFINE U == Units(c)
             awaited == IF inbuf[c] = <<>> THEN <<>> ELSE <<BodyUnit(inbuf[c][1].frame)>>
  <2>1. \A f \in Frames(c) : HeaderUnit(f) \in U /\ BodyUnit(f) \in U
    BY DEF Units, HeaderUnit, BodyUnit
  <2>2. inbuf[c] # <<>> => inbuf[c][1] \in U
    BY DEF U
  <2>3. inbuf[c] # <<>> => inbuf[c][1].frame \in Frames(c)
    BY <2>2 DEF Units
  <2> HIDE DEF U
  <2>4. awaited \in Seq(U)
    BY SMTT(30), <2>1, <2>3
  <2>5. \/ chunk = awaited
        \/ \E f \in Frames(c) : chunk = awaited \o <<HeaderUnit(f)>>
        \/ \E f \in Frames(c) : chunk = awaited \o <<HeaderUnit(f), BodyUnit(f)>>
        \/ \E f, g \in Frames(c) :
             chunk = awaited \o <<HeaderUnit(f), BodyUnit(f), HeaderUnit(g), BodyUnit(g)>>
    <3> DEFINE left == MaxFrames - received[c]
               F == IF left > 0 THEN Frames(c) ELSE {}
               G == IF left > 1 THEN Frames(c) ELSE {}
               H(f) == awaited \o <<HeaderUnit(f)>>
               HB(f) == awaited \o <<HeaderUnit(f), BodyUnit(f)>>
               HBHB(f, g) == awaited \o <<HeaderUnit(f), BodyUnit(f), HeaderUnit(g), BodyUnit(g)>>
    <3>1. F \subseteq Frames(c) /\ G \subseteq Frames(c)
      OBVIOUS
    <3>2. Chunks(c) = ({awaited} \cup {H(f) : f \in F} \cup {HB(f) : f \in F}
                       \cup {HBHB(f, g) : f \in G, g \in Frames(c)}) \ {<<>>}
      BY SMTT(30) DEF Chunks
    <3> HIDE DEF F, G, H, HB, HBHB, awaited
    <3>3. \/ chunk = awaited
          \/ \E f \in Frames(c) : chunk = H(f)
          \/ \E f \in Frames(c) : chunk = HB(f)
          \/ \E f, g \in Frames(c) : chunk = HBHB(f, g)
      BY <3>1, <3>2
    <3> QED  BY Zenon, <3>3 DEF H, HB, HBHB
  <2> HIDE DEF awaited
  <2>6. \A x, y, z, w \in U : <<x>> \in Seq(U) /\ <<x, y>> \in Seq(U) /\ <<x, y, z, w>> \in Seq(U)
    OBVIOUS
  <2>7. chunk \in Seq(U)
    BY Zenon, <2>1, <2>4, <2>5, <2>6, JoinFacts
  <2> QED  BY <2>7 DEF U
<1> SUFFICES ASSUME IInv, LInv, NEW c \in Clients, Read(c)
             PROVE  Entered(c)
  OBVIOUS
<1>1. PICK chunk \in Chunks(c) : inbuf' = [inbuf EXCEPT ![c] = @ \o chunk]
  BY Zenon DEF Read
<1>2. /\ DOMAIN pc = Clients /\ DOMAIN inbuf = Clients /\ DOMAIN out = Clients
      /\ Histories /\ Ledger(c)
  BY DEF IInv, PerClient, LInv
<1>3. /\ pc' = [pc EXCEPT ![c] = "lock"] /\ out' = [out EXCEPT ![c] = <<>>] /\ pc[c] = "read"
      /\ written' = written /\ handled' = handled /\ traded' = traded
  BY DEF Read, history
<1>4. pc'[c] = "lock" /\ out'[c] = <<>> /\ out[c] = <<>> /\ inbuf'[c] = inbuf[c] \o chunk
  BY <1>1, <1>2, <1>3 DEF Ledger
<1>5. Elsewhere(c)
  BY <1>1, <1>2, <1>3 DEF Elsewhere
<1>6. inbuf[c] \in Seq(Units(c))
  BY Zenon, <1>2 DEF Ledger
<1>7. chunk \in Seq(Units(c))
  BY Zenon, <1>6, <1>ChunkUnits
<1>8. inbuf'[c] \in Seq(Units(c))
  BY Zenon, <1>4, <1>6, <1>7, JoinFacts
<1>9. Ledger(c)'
  BY Zenon, <1>2, <1>3, <1>4, <1>8 DEF Ledger, Units
<1> QED  BY <1>2, <1>3, <1>5, <1>9 DEF Entered, Histories

\* What a request comes to.
Requested(f, r) ==
  /\ Outcome(r) /\ SoundEngine(Ids, r.engine)
  /\ f.msg = "CancelOrder" => TradesOf(r) = <<>>
  /\ f.msg \in {"Limit", "Market"} => Previews(PreviewOf(f), r)

\* apply_command gives such an outcome for every request of a frame, as the
\* preview said.
LEMMA RequestOutcome ==
  \A c \in Clients : \A f \in Frames(c) :
    SoundEngine(Ids, engine) /\ f.msg \in {"Limit", "Market", "CancelOrder"} =>
      Requested(f, apply_command(engine, f.command))
\* What the gateway answers is an outcome emit_result can tell of.
<1>AnsweredOutcome. ASSUME NEW e, NEW r, Answers(Ids, e, r)
                    PROVE  Outcome(r) /\ SoundEngine(Ids, r.engine) /\ Numbered(e, r)
  <2> USE <1>AnsweredOutcome
  <2>1. /\ SoundEngine(Ids, r.engine) /\ Numbered(e, r) /\ r.accepted \in BOOLEAN
        /\ r.accepted <=> r.events # <<>>
    BY Zenon DEF Answers, Served
  <2>2. Outcome(r)
    BY Zenon, <2>1 DEF Outcome, Numbered
  <2> QED  BY Zenon, <2>1, <2>2
<1> SUFFICES ASSUME SoundEngine(Ids, engine), NEW c \in Clients, NEW f \in Frames(c),
                    f.msg \in {"Limit", "Market", "CancelOrder"}
             PROVE  Requested(f, apply_command(engine, f.command))
  OBVIOUS
<1> DEFINE o == f.command
           r == apply_command(engine, o)
<1>1. IsCommand(o) /\ o.id \in Ids
  BY FramesAssumption DEF Ids
<1>2. CASE f.msg = "Limit"
  <2>1. o.op = "limit"
    BY <1>2, FramesAssumption
  <2>2. /\ r = gw_new_limit(engine, o.symbol, o.id, o.side, o.price, o.qty, o.tif)
        /\ o.price \in Int /\ o.qty \in Nat
    BY <1>1, <2>1 DEF apply_command, IsCommand
  <2>3. PreviewOf(f) =
          preview_new_order(engine, o.symbol, o.id, o.side, o.price, o.qty, FALSE, o.tif)
    BY <1>2 DEF PreviewOf
  <2> HIDE DEF r, o
  <2>4. Answers(Ids, engine, r)
    <3>1. OrderAnswered(Ids, engine, o.symbol, r,
                       LimitRefused(engine, o.symbol, o.id, o.side, o.price, o.qty, o.tif),
                       LimitResult(engine.books[o.symbol], o.id, o.side, o.price, o.qty, o.tif),
                       Match(engine.books[o.symbol], o.id, o.side, FALSE, o.price, o.qty))
      BY Zenon, <1>1, <2>2, LimitAnswers
    <3> QED  BY Zenon, <3>1 DEF OrderAnswered
  <2>5. Previews(PreviewOf(f), r)
    BY Zenon, <1>1, <2>2, <2>3, LimitPreviewed
  <2>6. Outcome(r) /\ SoundEngine(Ids, r.engine)
    BY Zenon, <2>4, <1>AnsweredOutcome
  <2>7. Requested(f, r)
    BY <1>2, <2>5, <2>6 DEF Requested
  <2> QED  BY <2>7 DEF r, o
<1>3. CASE f.msg = "Market"
  <2>1. o.op = "market"
    BY <1>3, FramesAssumption
  <2>2. r = gw_new_market(engine, o.symbol, o.id, o.side, o.qty) /\ o.qty \in Nat
    BY <1>1, <2>1 DEF apply_command, IsCommand
  <2>3. PreviewOf(f) =
          preview_new_order(engine, o.symbol, o.id, o.side, 0, o.qty, TRUE, "IOC")
    BY <1>3 DEF PreviewOf
  <2> HIDE DEF r, o
  <2>4. Answers(Ids, engine, r)
    <3>1. OrderAnswered(Ids, engine, o.symbol, r,
                       MarketRefused(engine, o.symbol, o.id, o.side, o.qty),
                       MarketResult(engine.books[o.symbol], o.id, o.side, o.qty),
                       Match(engine.books[o.symbol], o.id, o.side, TRUE, 0, o.qty))
      BY Zenon, <1>1, <2>2, MarketAnswers
    <3> QED  BY Zenon, <3>1 DEF OrderAnswered
  <2>5. Previews(PreviewOf(f), r)
    BY Zenon, <1>1, <2>2, <2>3, MarketPreviewed
  <2>6. Outcome(r) /\ SoundEngine(Ids, r.engine)
    BY Zenon, <2>4, <1>AnsweredOutcome
  <2>7. Requested(f, r)
    BY <1>3, <2>5, <2>6 DEF Requested
  <2> QED  BY <2>7 DEF r, o
<1>4. CASE f.msg = "CancelOrder"
  <2>1. o.op = "cancel"
    BY <1>4, FramesAssumption
  <2>2. r = gw_cancel(engine, o.symbol, o.id)
    BY <1>1, <2>1 DEF apply_command
  <2> HIDE DEF r, o
  <2>3. Answers(Ids, engine, r) /\ (r.accepted => Tells(r, "canceled", [trades |-> <<>>]))
    BY Zenon, <2>2, CancelAnswers
  <2>4. Outcome(r) /\ SoundEngine(Ids, r.engine) /\ Numbered(engine, r)
    BY Zenon, <2>3, <1>AnsweredOutcome
  <2>5. TradeCount(r.events) = 0
    <3>1. CASE ~r.accepted
      BY Zenon, <2>4, <3>1, NoTrades DEF Outcome
    <3>2. CASE r.accepted
      <4>1. Len(r.events) = 1 + Len(<<>>) /\ r.events[1].kind = "canceled"
        BY <2>3, <3>2 DEF Tells
      <4>2. DOMAIN r.events = 1..1
        BY <2>4, <4>1 DEF Numbered
      <4>3. {k \in DOMAIN r.events : r.events[k].kind = "trade"} = {}
        BY <4>1, <4>2
      <4> QED  BY Zenon, <4>3, FS_EmptySet DEF TradeCount
    <3> QED  BY <3>1, <3>2
  <2>6. TradesOf(r) = <<>>
    BY Zenon, <2>4, <2>5, TradesOfFacts
  <2>7. Requested(f, r)
    BY <1>4, <2>4, <2>6 DEF Requested
  <2> QED  BY <2>7 DEF r, o
<1> QED  BY <1>2, <1>3, <1>4

-----------------------------------------------------------------------------
\* Writing moves the response to what was written.
LEMMA WriteEntered ==
  \A c \in Clients :
    IInv /\ LInv /\ Write(c) =>
      Entered(c)
\* The response is written: nothing is told twice.
<1>AccountsWritten. ASSUME NEW w, NEW o, NEW t, NEW h, Accounts(w, o, t, h)
                    PROVE  Accounts(w \o o, <<>>, t, h)
  <2> USE <1>AccountsWritten
  <2>1. Messages(w \o o) /\ Messages(<<>>)
    BY Zenon, ConcatMessages, WireSizesEmpty DEF Accounts
  <2>2. (w \o o) \o <<>> = w \o o
    BY Zenon, <2>1, ConcatEmpty DEF Messages
  <2> QED  BY Zenon, <2>1, <2>2 DEF Accounts
<1> SUFFICES ASSUME IInv, LInv, NEW c \in Clients, Write(c)
             PROVE  Entered(c)
  OBVIOUS
<1>1. /\ DOMAIN pc = Clients /\ DOMAIN out = Clients /\ Histories /\ Ledger(c)
  BY DEF IInv, PerClient, LInv
<1>2. /\ written' = [written EXCEPT ![c] = @ \o out[c]] /\ out' = [out EXCEPT ![c] = <<>>]
      /\ inbuf' = inbuf /\ handled' = handled /\ traded' = traded
      /\ \E p \in {"closed", "read"} : pc' = [pc EXCEPT ![c] = p]
  BY Zenon DEF Write
<1>3. /\ pc'[c] \in {"closed", "read"} /\ out'[c] = <<>> /\ written'[c] = written[c] \o out[c]
      /\ Histories' /\ Elsewhere(c)
  BY <1>1, <1>2 DEF Histories, Elsewhere
<1>4. Accounts(written[c], out[c], traded[c], handled[c]) /\ inbuf[c] \in Seq(Units(c))
  BY Zenon, <1>1 DEF Ledger
<1>5. Accounts(written'[c], out'[c], traded'[c], handled'[c])
  <2>1. Accounts(written[c] \o out[c], <<>>, traded[c], handled[c])
    BY Zenon, <1>4, <1>AccountsWritten
  <2>2. traded'[c] = traded[c] /\ handled'[c] = handled[c]
    BY Zenon, <1>2
  <2> QED  BY Zenon, <1>3, <2>1, <2>2
<1>6. WireSizes(<<>>) <= MaxResponseBytes
  BY WireSizesEmpty, ResponseAssumption
<1>7. pc'[c] # "submit"
  BY <1>3
<1>8. Ledger(c)'
  BY Zenon, <1>2, <1>3, <1>4, <1>5, <1>6, <1>7 DEF Ledger
<1> QED  BY <1>3, <1>8 DEF Entered

\* The first two units are consumed.
LEMMA Consumed ==
  ASSUME NEW U, NEW s \in Seq(U), Len(s) >= 2
  PROVE  SubSeq(s, 3, Len(s)) \in Seq(U) /\ s[1] \in U
  BY SMT

\* The frame at the front is one the client sent.
LEMMA FirstOfLedger ==
  ASSUME NEW c \in Clients, Ledger(c), Len(inbuf[c]) >= 2
  PROVE  FirstFrame(c) \in Frames(c)
<1>1. inbuf[c][1] \in Units(c)
  BY DEF Ledger
<1> QED  BY <1>1 DEF Units, FirstFrame

\* A dropped peer is told nothing more.
LEMMA DropEntered ==
  ASSUME IInv, LInv, NEW c \in Clients, DropPeer(c)
  PROVE  Entered(c)
<1>1. /\ DOMAIN pc = Clients /\ DOMAIN inbuf = Clients /\ Histories /\ Ledger(c)
  BY DEF IInv, PerClient, LInv
<1>2. /\ inbuf' = [inbuf EXCEPT ![c] = SubSeq(@, 3, Len(@))] /\ pc' = [pc EXCEPT ![c] = "write"]
      /\ out' = out /\ written' = written /\ handled' = handled /\ traded' = traded
      /\ Len(inbuf[c]) >= 2
  BY DEF DropPeer, FrameReady, Unlock, history
<1>3. /\ pc'[c] = "write" /\ inbuf'[c] = SubSeq(inbuf[c], 3, Len(inbuf[c]))
      /\ Histories' /\ Elsewhere(c)
  BY <1>1, <1>2 DEF Histories, Elsewhere
<1>4. inbuf[c] \in Seq(Units(c))
  BY Zenon, <1>1 DEF Ledger
<1>5. inbuf'[c] \in Seq(Units(c))
  BY Zenon, <1>2, <1>3, <1>4, Consumed
<1>6. Ledger(c)'
  BY Zenon, <1>1, <1>2, <1>3, <1>5 DEF Ledger, Units
<1> QED  BY <1>3, <1>6 DEF Entered

\* At the output limit nothing is added to the response.
LEMMA LimitEntered ==
  ASSUME IInv, LInv, NEW c \in Clients, OutputLimit(c), written' = written,
         DOMAIN traded' = Clients, \A d \in Clients : traded'[d] = traded[d]
  PROVE  Entered(c)
<1>1. /\ inbuf' = inbuf /\ out' = out /\ handled' = handled /\ pc' = [pc EXCEPT ![c] = "write"]
  BY DEF OutputLimit, Unlock
<1> QED  BY Zenon, <1>1, QuietEntered

\* The first frame of c is answered.
LEMMA AnswerEntered ==
  \A c \in Clients : \A messages, trades :
    (/\ IInv
     /\ LInv
     /\ Len(inbuf[c]) >= 2
     /\ Reply(messages, FirstFrame(c), trades)
     /\ has_space(c, WireSizes(messages))
     /\ Answer(c, messages)
     /\ written' = written
     /\ traded'[c] = traded[c] \o trades
     /\ DOMAIN traded' = Clients
     /\ (\A d \in Clients \ {c} : traded'[d] = traded[d])) =>
      Entered(c)
\* One more frame and its answer.
<1>OneMoreAnswer.
      ASSUME NEW answers, NEW frames, IsSeq(answers), IsSeq(frames), AnswersOf(answers, frames),
             NEW a, NEW f, Answering(a, f)
      PROVE  AnswersOf(answers \o <<a>>, frames \o <<f>>)
  <2> USE <1>OneMoreAnswer
  <2> DEFINE u == answers \o <<a>>
             v == frames \o <<f>>
             n == Len(answers)
  <2>1. IsSeq(<<a>>) /\ Len(<<a>>) = 1 /\ <<a>>[1] = a
    BY Zenon, SingleFacts
  <2>2. IsSeq(<<f>>) /\ Len(<<f>>) = 1 /\ <<f>>[1] = f
    BY Zenon, SingleFacts
  <2>3. Joins(u, answers, <<a>>)
    BY Zenon, <2>1, ConcatFacts
  <2>4. Joins(v, frames, <<f>>)
    BY Zenon, <2>2, ConcatFacts
  <2>5. n \in Nat /\ DOMAIN answers = 1..n
    BY Zenon, SeqShape
  <2>6. Len(frames) = n
    BY DEF AnswersOf
  <2> HIDE DEF u, v, n
  <2>7. /\ Len(u) = n + 1 /\ DOMAIN u = 1..(n + 1) /\ Len(v) = n + 1
        /\ \A k \in 1..n : u[k] = answers[k] /\ v[k] = frames[k]
    BY <2>1, <2>2, <2>3, <2>4, <2>5, <2>6 DEF Joins, n
  <2>8. u[n + 1] = a /\ v[n + 1] = f
    BY <2>1, <2>2, <2>3, <2>4, <2>5, <2>6 DEF Joins, n
  <2>9. ASSUME NEW k \in DOMAIN u PROVE Answering(u[k], v[k])
    <3>1. k \in 1..n \/ k = n + 1
      BY <2>5, <2>7
    <3>2. CASE k \in 1..n
      BY Zenon, <2>5, <2>7, <3>2 DEF AnswersOf
    <3>3. CASE k = n + 1
      BY Zenon, <2>8, <3>3
    <3> QED  BY Zenon, <3>1, <3>2, <3>3
  <2>10. AnswersOf(u, v)
    BY Zenon, <2>7, <2>9 DEF AnswersOf
  <2> QED  BY Zenon, <2>10 DEF u, v
\* One more frame is answered.
<1>AccountsGrow. ASSUME NEW w, NEW o, NEW t, NEW h, Accounts(w, o, t, h),
                        NEW m, NEW f, NEW trades, Reply(m, f, trades)
                 PROVE  Accounts(w, o \o m, t \o trades, Append(h, f))
  <2> USE <1>AccountsGrow
  <2> DEFINE s == w \o o
  <2>1. /\ Messages(w) /\ Messages(o) /\ IsSeq(h) /\ FillTrades(s) = t
        /\ AnswersOf(Replies(s), h)
    BY Zenon DEF Accounts
  <2>2. Messages(m) /\ FillTrades(m) = trades
    BY Zenon DEF Reply
  <2>3. PICK a : Replies(m) = <<a>> /\ Answering(a, f)
    BY Zenon DEF Reply
  <2>4. IsSeq(w) /\ IsSeq(o) /\ IsSeq(m)
    BY Zenon, <2>1, <2>2 DEF Messages
  <2>5. IsSeq(s) /\ Messages(o \o m)
    BY Zenon, <2>1, <2>2, <2>4, ConcatMessages, ConcatFacts DEF Joins
  <2>6. s \o m = w \o (o \o m)
    BY SMTT(30), <2>4, ConcatRegroups
  <2> HIDE DEF s
  <2>7. SplitReplies(s, m) /\ SplitTrades(s, m)
    BY Zenon, <2>4, <2>5, FillsSplit, TradesSplit
  <2>8. FillTrades(s \o m) = t \o trades
    BY Zenon, <2>1, <2>2, <2>7 DEF SplitTrades
  <2>9. Replies(s \o m) = Replies(s) \o <<a>>
    BY Zenon, <2>3, <2>7 DEF SplitReplies
  <2>10. IsSeq(Replies(s))
    BY Zenon, <2>5, FillsSeq
  <2>11. AnswersOf(Replies(s) \o <<a>>, h \o <<f>>)
    BY Zenon, <2>1, <2>3, <2>10, <1>OneMoreAnswer
  <2>12. Append(h, f) = h \o <<f>>
    BY SMT, <2>1 DEF IsSeq
  <2>13. IsSeq(h \o <<f>>)
    BY Zenon, <2>1, SingleFacts, ConcatFacts DEF Joins
  <2> QED  BY Zenon, <2>1, <2>5, <2>6, <2>8, <2>9, <2>11, <2>12, <2>13 DEF Accounts
<1> SUFFICES ASSUME IInv, LInv, NEW c \in Clients, Len(inbuf[c]) >= 2,
                    NEW messages, NEW trades, Reply(messages, FirstFrame(c), trades),
                    has_space(c, WireSizes(messages)), Answer(c, messages),
                    written' = written, traded'[c] = traded[c] \o trades, DOMAIN traded' = Clients,
                    \A d \in Clients \ {c} : traded'[d] = traded[d]
             PROVE  Entered(c)
  OBVIOUS
<1>1. /\ DOMAIN pc = Clients /\ DOMAIN inbuf = Clients /\ DOMAIN out = Clients
      /\ Histories /\ Ledger(c)
  BY DEF IInv, PerClient, LInv
<1>2. /\ inbuf' = [inbuf EXCEPT ![c] = SubSeq(@, 3, Len(@))] /\ pc' = [pc EXCEPT ![c] = "frame"]
      /\ out' = [out EXCEPT ![c] = @ \o messages]
      /\ handled' = [handled EXCEPT ![c] = Append(@, FirstFrame(c))]
  BY DEF Answer
<1>3. /\ pc'[c] = "frame" /\ inbuf'[c] = SubSeq(inbuf[c], 3, Len(inbuf[c]))
      /\ out'[c] = out[c] \o messages /\ handled'[c] = Append(handled[c], FirstFrame(c))
      /\ Histories' /\ Elsewhere(c)
  BY Zenon, <1>1, <1>2 DEF Histories, Elsewhere
<1>4. /\ inbuf[c] \in Seq(Units(c)) /\ Accounts(written[c], out[c], traded[c], handled[c])
  BY Zenon, <1>1 DEF Ledger
<1>5. inbuf'[c] \in Seq(Units(c))
  BY Zenon, <1>3, <1>4, Consumed
<1>6. Accounts(written'[c], out'[c], traded'[c], handled'[c])
  BY Zenon, <1>3, <1>4, <1>AccountsGrow
<1>7. WireSizes(out'[c]) <= MaxResponseBytes
  <2>1. Messages(out[c]) /\ Messages(messages)
    BY Zenon, <1>4 DEF Accounts, Reply
  <2>2. WireSizes(out[c] \o messages) = WireSizes(out[c]) + WireSizes(messages)
    BY Zenon, <2>1, WireSizesConcat
  <2> QED  BY Zenon, <1>3, <2>2 DEF has_space
<1>8. pc'[c] # "submit" /\ pc'[c] # "read"
  BY Zenon, <1>3
<1>9. Ledger(c)'
  BY Zenon, <1>5, <1>6, <1>7, <1>8 DEF Ledger, Units
<1> QED  BY Zenon, <1>3, <1>9 DEF Entered

\* Joining no trades leaves the account of trades.
LEMMA TradedSeq ==
  ASSUME NEW c \in Clients, Ledger(c)
  PROVE  traded[c] \o <<>> = traded[c]
<1> DEFINE s == written[c] \o out[c]
<1>1. Messages(written[c]) /\ Messages(out[c]) /\ traded[c] = FillTrades(s)
  BY Zenon DEF Ledger, Accounts
<1>2. IsSeq(s)
  BY Zenon, <1>1, ConcatMessages DEF Messages
<1> HIDE DEF s
<1>3. IsSeq(traded[c])
  BY Zenon, <1>1, <1>2, FillsSeq
<1> QED  BY Zenon, <1>3, ConcatEmpty

\* A heartbeat is answered, or the session ends.
LEMMA HeartbeatEntered ==
  ASSUME IInv, LInv, NEW c \in Clients, handle_heartbeat(c)
  PROVE  Entered(c)
<1> DEFINE a == [kind |-> "HeartbeatAck", id |-> 0]
<1>1. /\ Len(inbuf[c]) >= 2 /\ FirstFrame(c).msg = "Heartbeat"
      /\ written' = written /\ traded' = traded
  BY DEF handle_heartbeat, FrameReady
<1>2. Ledger(c) /\ DOMAIN traded = Clients
  BY DEF LInv, Histories
<1>3. a.kind = "HeartbeatAck"
  OBVIOUS
<1>4. IF has_space(c, WireSize("HeartbeatAck")) THEN Answer(c, <<a>>) ELSE OutputLimit(c)
  BY Zenon DEF handle_heartbeat
<1> HIDE DEF a
<1>5. a.kind \in Kinds \ {"Fill"} /\ a.kind \in Kinds /\ Answering(a, FirstFrame(c))
  BY <1>1, <1>3 DEF Kinds, Answering
<1>6. Messages(<<a>>) /\ WireSizes(<<a>>) = WireSize("HeartbeatAck")
  BY Zenon, <1>3, <1>5, WireSizesSingle
<1>7. Replies(<<a>>) = <<a>> /\ FillTrades(<<a>>) = <<>>
  BY Zenon, <1>5, SingleReply
<1>8. Reply(<<a>>, FirstFrame(c), <<>>)
  BY Zenon, <1>5, <1>6, <1>7 DEF Reply
<1>9. traded'[c] = traded[c] \o <<>>
  BY Zenon, <1>1, <1>2, TradedSeq
<1>10. CASE has_space(c, WireSize("HeartbeatAck"))
  <2>1. Answer(c, <<a>>) /\ has_space(c, WireSizes(<<a>>))
    BY Zenon, <1>4, <1>6, <1>10
  <2> QED  BY Zenon, <1>1, <1>2, <1>8, <1>9, <2>1, AnswerEntered
<1>11. CASE ~has_space(c, WireSize("HeartbeatAck"))
  BY Zenon, <1>1, <1>2, <1>4, <1>11, LimitEntered
<1> QED  BY <1>10, <1>11

\* An outcome is told in full, or it made no trades and the session ends.
LEMMA EmitEntered ==
  ASSUME IInv, LInv, NEW c \in Clients, Len(inbuf[c]) >= 2, FirstFrame(c).msg # "Heartbeat",
         NEW r, Outcome(r), EmitOrClose(c, FirstFrame(c).command.id, r),
         \/ has_space(c, WireSizes(emit_result(FirstFrame(c).command.id, r)))
         \/ TradesOf(r) = <<>>
  PROVE  Entered(c)
<1> DEFINE f == FirstFrame(c)
           m == emit_result(f.command.id, r)
<1>1. Ledger(c) /\ DOMAIN traded = Clients
  BY DEF LInv, Histories
<1>2. /\ traded' = [traded EXCEPT ![c] = @ \o TradesOf(r)] /\ written' = written
      /\ IF has_space(c, WireSizes(m)) THEN Answer(c, m) ELSE OutputLimit(c)
  BY Zenon DEF EmitOrClose
<1>3. /\ DOMAIN traded' = Clients /\ traded'[c] = traded[c] \o TradesOf(r)
      /\ \A d \in Clients \ {c} : traded'[d] = traded[d]
  BY Zenon, <1>1, <1>2
<1>4. Reply(m, f, TradesOf(r))
  BY Zenon, EmitReply
<1> HIDE DEF m
<1>5. CASE has_space(c, WireSizes(m))
  <2>1. Answer(c, m)
    BY Zenon, <1>2, <1>5
  <2> QED  BY Zenon, <1>2, <1>3, <1>4, <1>5, <2>1, AnswerEntered
<1>6. CASE ~has_space(c, WireSizes(m))
  <2>1. OutputLimit(c) /\ TradesOf(r) = <<>>
    BY Zenon, <1>2, <1>6 DEF m
  <2>2. traded'[c] = traded[c]
    BY Zenon, <1>1, <1>3, <2>1, TradedSeq
  <2>3. \A d \in Clients : traded'[d] = traded[d]
    BY Zenon, <1>3, <2>2
  <2> QED  BY Zenon, <1>2, <1>3, <2>1, <2>3, LimitEntered
<1> QED  BY SMTT(30), <1>5, <1>6

\* A cancel is answered, or the session ends; it makes no trades.
LEMMA CancelEntered ==
  ASSUME IInv, LInv, NEW c \in Clients, handle_cancel_order(c)
  PROVE  Entered(c) /\ SoundEngine(Ids, engine')
<1> DEFINE f == FirstFrame(c)
           r == apply_command(engine, f.command)
<1>1. Len(inbuf[c]) >= 2 /\ f.msg = "CancelOrder"
  BY DEF handle_cancel_order, FrameReady
<1>2. Ledger(c) /\ DOMAIN traded = Clients /\ SoundEngine(Ids, engine)
  BY DEF LInv, Histories
<1>3. f \in Frames(c)
  BY Zenon, <1>1, <1>2, FirstOfLedger
<1>4. f.msg \in {"Limit", "Market", "CancelOrder"} /\ f.msg # "Heartbeat"
  BY <1>1
<1> HIDE DEF f
<1>5. Requested(f, r)
  BY Zenon, <1>2, <1>3, <1>4, RequestOutcome
<1>6. IF has_space(c, WireSize("Ack")) THEN EmitOrClose(c, f.command.id, r)
         ELSE OutputLimit(c) /\ UNCHANGED <<engine, received, written, traded>>
  BY Zenon DEF handle_cancel_order, f
<1> HIDE DEF r
<1>7. Outcome(r) /\ SoundEngine(Ids, r.engine) /\ TradesOf(r) = <<>>
  BY Zenon, <1>1, <1>5 DEF Requested
<1>8. CASE has_space(c, WireSize("Ack"))
  <2>1. EmitOrClose(c, f.command.id, r)
    BY Zenon, <1>6, <1>8
  <2>2. engine' = r.engine
    BY Zenon, <2>1 DEF EmitOrClose
  <2> QED  BY Zenon, <1>1, <1>4, <1>7, <2>1, <2>2, EmitEntered DEF f
<1>9. CASE ~has_space(c, WireSize("Ack"))
  <2>1. OutputLimit(c) /\ UNCHANGED <<engine, received, written, traded>>
    BY Zenon, <1>6, <1>9
  <2> QED  BY Zenon, <1>2, <2>1, LimitEntered
<1> QED  BY <1>8, <1>9

\* The budget check answers nothing.
LEMMA BudgetEntered ==
  ASSUME IInv, LInv, NEW c \in Clients, ensure_new_order_budget(c)
  PROVE  Entered(c)
<1>1. /\ Len(inbuf[c]) >= 2 /\ FirstFrame(c).msg \in {"Limit", "Market"}
      /\ written' = written /\ traded' = traded
  BY DEF ensure_new_order_budget, FrameReady
<1>2. DOMAIN pc = Clients /\ Histories /\ Ledger(c)
  BY DEF IInv, PerClient, LInv
<1>3. CASE OutputLimit(c)
  BY Zenon, <1>1, <1>2, <1>3, LimitEntered DEF Histories
<1>4. CASE /\ pc' = [pc EXCEPT ![c] = "submit"]
           /\ UNCHANGED <<holder, connection, handled>>
  <2>1. inbuf' = inbuf /\ out' = out /\ handled' = handled
    BY <1>4 DEF connection
  <2>2. pc'[c] = "submit" /\ \A d \in Clients \ {c} : pc'[d] = pc[d]
    BY <1>2, <1>4
  <2>3. Histories' /\ Elsewhere(c)
    BY <1>1, <1>2, <2>1, <2>2 DEF Histories, Elsewhere
  <2>4. pc'[c] # "read"
    BY <2>2
  <2>5. Ledger(c)'
    BY Zenon, <1>1, <1>2, <2>1, <2>2, <2>4 DEF Ledger, FirstFrame
  <2> QED  BY <2>3, <2>5 DEF Entered
<1> QED  BY Zenon, <1>3, <1>4 DEF ensure_new_order_budget

\* The preview found room for exactly what emit_result sends.
LEMMA SubmitEntered ==
  ASSUME IInv, LInv, NEW c \in Clients, SubmitNewOrder(c)
  PROVE  Entered(c) /\ SoundEngine(Ids, engine')
<1> DEFINE f == FirstFrame(c)
           r == apply_command(engine, f.command)
           m == emit_result(f.command.id, r)
<1>1. pc[c] = "submit" /\ EmitOrClose(c, f.command.id, r)
  BY Zenon DEF SubmitNewOrder
<1>2. Ledger(c) /\ SoundEngine(Ids, engine)
  BY DEF LInv
<1>3. Len(inbuf[c]) >= 2 /\ f.msg \in {"Limit", "Market"}
  BY Zenon, <1>1, <1>2 DEF Ledger
<1>4. f \in Frames(c)
  BY Zenon, <1>2, <1>3, FirstOfLedger
<1>5. f.msg \in {"Limit", "Market", "CancelOrder"} /\ f.msg # "Heartbeat"
  BY <1>3
<1>6. has_space(c, Required(PreviewOf(f)))
  BY Zenon, <1>1 DEF IInv, BudgetHolds
<1> HIDE DEF f
<1>7. Requested(f, r)
  BY Zenon, <1>2, <1>4, <1>5, RequestOutcome
<1> HIDE DEF r
<1>8. Outcome(r) /\ SoundEngine(Ids, r.engine) /\ Previews(PreviewOf(f), r)
  BY Zenon, <1>3, <1>7 DEF Requested
<1>9. WireSizes(m) = IF r.accepted THEN WireSize("Ack") + TradeCount(r.events) * WireSize("Fill")
                                   ELSE WireSize("Reject")
  BY Zenon, <1>5, <1>8, EmitReply
<1>10. WireSizes(m) = Required(PreviewOf(f))
  BY Zenon, <1>8, <1>9 DEF Required, Previews
<1>11. has_space(c, WireSizes(m))
  BY Zenon, <1>6, <1>10
<1>12. engine' = r.engine
  BY Zenon, <1>1 DEF EmitOrClose
<1> QED  BY Zenon, <1>1, <1>3, <1>5, <1>8, <1>11, <1>12, EmitEntered DEF f

\* Steps that answer nothing and consume nothing.
LEMMA QuietSteps ==
  ASSUME IInv, LInv, NEW c \in Clients,
         Disconnect(c) \/ Lock(c) \/ NeedMoreBytes(c) \/ MalformedHeader(c)
  PROVE  Entered(c)
<1>1. /\ inbuf' = inbuf /\ out' = out /\ written' = written /\ handled' = handled
      /\ traded' = traded
      /\ \E p \in {"closed", "frame", "write"} : pc' = [pc EXCEPT ![c] = p]
  BY DEF Disconnect, Lock, NeedMoreBytes, MalformedHeader, Unlock, connection, history
<1>2. DOMAIN traded = Clients
  BY DEF LInv, Histories
<1>3. PICK p \in {"closed", "frame", "write"} : pc' = [pc EXCEPT ![c] = p]
  BY Zenon, <1>1
<1>4. p # "read" /\ p # "submit"
  OBVIOUS
<1> QED  BY Zenon, <1>1, <1>2, <1>3, <1>4, QuietEntered

\* Every step keeps the accounts.
LEMMA NextLedger == IInv /\ LInv /\ [Next]_vars => LInv'
<1> SUFFICES ASSUME IInv, LInv, [Next]_vars PROVE LInv'
  OBVIOUS
<1>1. SoundEngine(Ids, engine)
  BY DEF LInv
<1>2. ASSUME NEW c \in Clients, Read(c) \/ Disconnect(c) \/ Step(c)
      PROVE  Entered(c) /\ SoundEngine(Ids, engine')
  <2>1. CASE Read(c)
    <3>1. engine' = engine
      BY <2>1 DEF Read
    <3> QED  BY Zenon, <1>1, <2>1, <3>1, ReadEntered
  <2>2. CASE Disconnect(c) \/ Lock(c) \/ NeedMoreBytes(c) \/ MalformedHeader(c)
    <3>1. engine' = engine
      BY <2>2 DEF Disconnect, Lock, NeedMoreBytes, MalformedHeader
    <3> QED  BY Zenon, <1>1, <2>2, <3>1, QuietSteps
  <2>3. CASE Write(c)
    <3>1. engine' = engine
      BY <2>3 DEF Write
    <3> QED  BY Zenon, <1>1, <2>3, <3>1, WriteEntered
  <2>4. CASE DropPeer(c)
    <3>1. engine' = engine
      BY <2>4 DEF DropPeer
    <3> QED  BY Zenon, <1>1, <2>4, <3>1, DropEntered
  <2>5. CASE handle_heartbeat(c)
    <3>1. engine' = engine
      BY <2>5 DEF handle_heartbeat
    <3> QED  BY Zenon, <1>1, <2>5, <3>1, HeartbeatEntered
  <2>6. CASE ensure_new_order_budget(c)
    <3>1. engine' = engine
      BY <2>6 DEF ensure_new_order_budget
    <3> QED  BY Zenon, <1>1, <2>6, <3>1, BudgetEntered
  <2>7. CASE handle_cancel_order(c) \/ SubmitNewOrder(c)
    BY Zenon, <2>7, CancelEntered, SubmitEntered
  <2> QED  BY Zenon, <1>2, <2>1, <2>2, <2>3, <2>4, <2>5, <2>6, <2>7 DEF Step
<1>3. CASE UNCHANGED vars
  BY Zenon, <1>3 DEF vars, connection, history, LInv, Histories, Ledger, FirstFrame
<1> QED  BY Zenon, <1>2, <1>3, EnteredLInv DEF Next

\* The accounts are right throughout.
LEMMA AlwaysLedger == Spec => [](IInv /\ LInv)
<1>1. IInv /\ LInv /\ [Next]_vars => (IInv /\ LInv)'
  BY Zenon, NextIInv, NextLedger
<1> QED  BY InitIInv, InitLedger, <1>1, PTL DEF Spec

\* For every set of clients, frames and limits: the bytes of a response under
\* construction never exceed max_response_bytes (Session::has_space before
\* every append), although a new order's answer is measured from a preview
\* before the order is submitted.
THEOREM ResponseStaysBounded == Spec => []ResponseBounded
<1>1. IInv /\ LInv => ResponseBounded
  BY Zenon DEF LInv, Ledger, ResponseBounded
<1> QED  BY AlwaysLedger, <1>1, PTL

\* For every set of clients, frames and limits: the trades an order of a
\* client made are told to that client as fills, in order, in what was
\* written or is still in the response; the output limit never ends a session
\* between a submission and its fills (ensure_new_order_budget, emit_result).
THEOREM EveryTradeTold == Spec => []NoSilentTrade
<1>1. IInv /\ LInv => NoSilentTrade
  BY Zenon DEF LInv, Ledger, Accounts, FillTrades, NoSilentTrade
<1> QED  BY AlwaysLedger, <1>1, PTL

\* For every set of clients, frames and limits: each frame handled has
\* exactly one Ack, Reject or HeartbeatAck, in the order of the frames,
\* however responses are cut into writes.
THEOREM EachFrameAnsweredOnce == Spec => []OneAnswerEach
<1>1. IInv /\ LInv => OneAnswerEach
  BY Zenon DEF LInv, Ledger, Accounts, AnswersOf, Answering, OneAnswerEach
<1> QED  BY AlwaysLedger, <1>1, PTL
=============================================================================
