----------------------------- MODULE FeedProofs -----------------------------
(***************************************************************************)
(* For every set of symbols and prices, every number of trades a command   *)
(* makes and every behaviour of the network, the subscriber's count of     *)
(* gaps is exact and a subscriber told of no gap has the engine's tops of  *)
(* book: safety of module Feed, proved from the inductive invariant IInv.  *)
(***************************************************************************)
EXTENDS Feed, SequenceTheorems, FiniteSetTheorems, TLAPS

TypeOK ==
  /\ md_seq \in Nat /\ total_gaps \in Nat
  /\ tob = [s \in Symbols |-> tob[s]] /\ view = [s \in Symbols |-> view[s]]
  /\ tracker # <<>> => tracker = <<tracker[1]>> /\ tracker[1] \in [first : Nat, last : Nat]
  /\ received \subseteq Nat /\ late \subseteq received

\* Datagrams carry distinct numbers, already given out; what arrives was sent.
WireNumbered ==
  /\ \A f \in wire : f.md_seq \in 1..md_seq
  /\ \A f, g \in wire : f.md_seq = g.md_seq => f = g
  /\ received \subseteq {f.md_seq : f \in wire}

\* The tracker is at the highest number received, which was not late.
TrackerAtHighest ==
  /\ tracker = <<>> => received = {}
  /\ tracker # <<>> => /\ tracker[1].last \in received
                       /\ tracker[1].last \notin late
                       /\ tracker[1].first <= tracker[1].last
                       /\ \A n \in received : n <= tracker[1].last

IsTob(f, s) == f.type = "MdTopOfBook" /\ f.fields[1] = s

\* Of the messages W up to number n, the last about symbol s shows t.
Latest(W, n, s, t) ==
  \/ /\ t = NoTob
     /\ \A g \in W : g.md_seq <= n => ~IsTob(g, s)
  \/ \E f \in W :
       /\ f.md_seq <= n /\ IsTob(f, s) /\ Shown(f) = t
       /\ \A g \in W : g.md_seq <= n /\ IsTob(g, s) => g.md_seq <= f.md_seq

\* The publisher's map is the engine's tops of book.
LastTobCurrent ==
  \A s \in Symbols : tob[s] = IF s \in DOMAIN last_tob THEN last_tob[s] ELSE NoTob

\* With every message sent, the last about a symbol shows its top of book.
Announced ==
  1..md_seq \subseteq {f.md_seq : f \in wire} =>
    \A s \in Symbols : Latest(wire, md_seq, s, tob[s])

\* A subscriber without gaps shows what the messages so far say.
ViewFollows ==
  /\ tracker = <<>> => view = [s \in Symbols |-> NoTob]
  /\ tracker # <<>> /\ total_gaps = 0 =>
       (tracker[1].first = 1 => /\ 1..tracker[1].last \subseteq received
                                /\ \A s \in Symbols : Latest(wire, tracker[1].last, s, view[s]))

IInv ==
  /\ TypeOK /\ WireNumbered /\ TrackerAtHighest /\ LastTobCurrent
  /\ Announced /\ ViewFollows /\ GapsExact

-----------------------------------------------------------------------------
(* The messages of a command.                                              *)

\* Decoding a top-of-book message gives the top of book it was encoded from.
LEMMA ShownIsEncoded ==
  ASSUME NEW t \in Tob, NEW seq, NEW s
  PROVE  Shown(encode_tob(seq, s, t)) = t
<1>1. t.bid \in Bids /\ t.ask \in Asks /\ t = [bid |-> t.bid, ask |-> t.ask]
  BY DEF Tob
<1>2. t.bid = <<>> \/ t.bid = <<t.bid[1]>>
  BY <1>1, OptionalPrices
<1>3. t.ask = <<>> \/ t.ask = <<t.ask[1]>>
  BY <1>1, OptionalPrices
<1> DEFINE fields == <<s, flag(t.bid), value_or_zero(t.bid), flag(t.ask), value_or_zero(t.ask)>>
<1>4. encode_tob(seq, s, t).fields = fields
  BY DEF encode_tob, Frame
<1>5. /\ fields[2] = flag(t.bid) /\ fields[3] = value_or_zero(t.bid)
      /\ fields[4] = flag(t.ask) /\ fields[5] = value_or_zero(t.ask)
  OBVIOUS
<1> HIDE DEF fields
<1>6. (IF fields[2] # 0 THEN <<fields[3]>> ELSE nullopt) = t.bid
  BY <1>2, <1>5 DEF flag, value_or_zero, nullopt
<1>7. (IF fields[4] # 0 THEN <<fields[5]>> ELSE nullopt) = t.ask
  BY <1>3, <1>5 DEF flag, value_or_zero, nullopt
<1> QED  BY <1>1, <1>4, <1>6, <1>7 DEF Shown

\* Numbered from md_seq + 1 on, the top of book last.
LEMMA MessagesFacts ==
  ASSUME NEW s, NEW trades \in Nat, NEW t, md_seq \in Nat,
         NEW m, m = Messages(s, trades, t)
  PROVE  /\ DOMAIN m = 1..Len(m)
         /\ Len(m) = IF TobChanged(s, t) THEN trades + 1 ELSE trades
         /\ \A k \in 1..trades : m[k] = encode_trade(md_seq + k, s)
         /\ TobChanged(s, t) => m[trades + 1] = encode_tob(md_seq + trades + 1, s, t)
<1> DEFINE a == [k \in 1..trades |-> encode_trade(md_seq + k, s)]
           e == encode_tob(md_seq + trades + 1, s, t)
           b == IF TobChanged(s, t) THEN <<e>> ELSE <<>>
           S == {encode_trade(md_seq + k, s) : k \in 1..trades} \cup {e}
<1>1. a \in Seq(S) /\ Len(a) = trades /\ \A k \in 1..trades : a[k] = encode_trade(md_seq + k, s)
  <2>1. \A k \in 1..trades : encode_trade(md_seq + k, s) \in S
    OBVIOUS
  <2>2. a \in [1..trades -> S]
    BY <2>1
  <2> HIDE DEF S
  <2>3. a \in Seq(S)
    BY <2>2, IsASeq
  <2>4. DOMAIN a = 1..Len(a) /\ Len(a) \in Nat /\ DOMAIN a = 1..trades
    BY <2>3, LenProperties
  <2>5. Len(a) = trades
    BY <2>4
  <2> QED  BY <2>3, <2>5
<1>2. b \in Seq(S) /\ Len(b) = (IF TobChanged(s, t) THEN 1 ELSE 0) /\ (TobChanged(s, t) => b[1] = e)
  <2>1. e \in S
    OBVIOUS
  <2> HIDE DEF e, S
  <2>2. <<e>> \in Seq(S) /\ Len(<<e>>) = 1 /\ <<e>>[1] = e
    BY <2>1
  <2>3. <<>> \in Seq(S) /\ Len(<<>>) = 0
    OBVIOUS
  <2>4. CASE TobChanged(s, t)
    BY <2>2, <2>4
  <2>5. CASE ~TobChanged(s, t)
    BY <2>3, <2>5
  <2> QED  BY <2>4, <2>5
<1>3. m = a \o b
  BY DEF Messages
<1> HIDE DEF a, b, S
<1>4. /\ m \in Seq(S) /\ Len(m) = Len(a) + Len(b)
      /\ \A k \in 1..(Len(a) + Len(b)) : m[k] = IF k <= Len(a) THEN a[k] ELSE b[k - Len(a)]
  <2>1. /\ a \o b \in Seq(S) /\ Len(a \o b) = Len(a) + Len(b)
        /\ \A k \in 1..(Len(a) + Len(b)) :
             (a \o b)[k] = IF k <= Len(a) THEN a[k] ELSE b[k - Len(a)]
    BY Zenon, <1>1, <1>2, ConcatProperties
  <2> QED  BY <1>3, <2>1
<1>5. DOMAIN m = 1..Len(m)
  BY <1>4, LenProperties
<1>6. \A k \in 1..trades : m[k] = encode_trade(md_seq + k, s)
  <2> SUFFICES ASSUME NEW k \in 1..trades PROVE m[k] = encode_trade(md_seq + k, s)
    OBVIOUS
  <2>1. k \in 1..(Len(a) + Len(b)) /\ k <= Len(a)
    BY <1>1, <1>2
  <2>2. m[k] = a[k]
    BY <1>4, <2>1
  <2> QED  BY <1>1, <2>2
<1>7. TobChanged(s, t) => m[trades + 1] = e
  <2> SUFFICES ASSUME TobChanged(s, t) PROVE m[trades + 1] = e
    OBVIOUS
  <2> HIDE DEF e
  <2>1. m[trades + 1] = b[(trades + 1) - trades]
    BY <1>1, <1>2, <1>4
  <2>2. (trades + 1) - trades = 1
    OBVIOUS
  <2> QED  BY <1>2, <2>1, <2>2
<1>8. Len(m) = IF TobChanged(s, t) THEN trades + 1 ELSE trades
  BY <1>1, <1>2, <1>4
<1> QED  BY <1>5, <1>6, <1>7, <1>8

\* Messages that say nothing newer of a symbol leave what is shown of it.
LEMMA LatestKept ==
  ASSUME NEW W, NEW V, W \subseteq V, NEW n \in Nat, NEW n2 \in Nat, n <= n2,
         \A f \in V : f.md_seq \in Nat,
         NEW s, NEW t, Latest(W, n, s, t),
         \A f \in V : f.md_seq <= n2 /\ IsTob(f, s) => f \in W /\ f.md_seq <= n
  PROVE  Latest(V, n2, s, t)
<1>1. CASE t = NoTob /\ \A g \in W : g.md_seq <= n => ~IsTob(g, s)
  BY <1>1 DEF Latest
<1>2. ASSUME NEW f \in W, f.md_seq <= n, IsTob(f, s), Shown(f) = t,
             \A g \in W : g.md_seq <= n /\ IsTob(g, s) => g.md_seq <= f.md_seq
      PROVE  Latest(V, n2, s, t)
  <2>1. f \in V /\ f.md_seq <= n2
    BY <1>2
  <2>2. \A g \in V : g.md_seq <= n2 /\ IsTob(g, s) => g.md_seq <= f.md_seq
    BY <1>2
  <2> QED  BY <1>2, <2>1, <2>2 DEF Latest
<1> QED  BY <1>1, <1>2 DEF Latest

\* It is shown of one message only.
LEMMA LatestUnique ==
  ASSUME NEW n, NEW s, NEW t, NEW u, Latest(wire, n, s, t), Latest(wire, n, s, u), WireNumbered,
         md_seq \in Nat
  PROVE  t = u
<1>1. \A f \in wire : f.md_seq \in Nat
  BY DEF WireNumbered
<1>2. CASE \A g \in wire : g.md_seq <= n => ~IsTob(g, s)
  BY <1>2 DEF Latest
<1>3. CASE \E g \in wire : g.md_seq <= n /\ IsTob(g, s)
  <2>1. PICK f \in wire : /\ f.md_seq <= n /\ IsTob(f, s) /\ Shown(f) = t
                          /\ \A g \in wire : g.md_seq <= n /\ IsTob(g, s) => g.md_seq <= f.md_seq
    BY <1>3 DEF Latest
  <2>2. PICK h \in wire : /\ h.md_seq <= n /\ IsTob(h, s) /\ Shown(h) = u
                          /\ \A g \in wire : g.md_seq <= n /\ IsTob(g, s) => g.md_seq <= h.md_seq
    BY <1>3 DEF Latest
  <2>3. f.md_seq = h.md_seq
    BY <1>1, <2>1, <2>2
  <2> QED  BY <2>1, <2>2, <2>3 DEF WireNumbered
<1> QED  BY <1>2, <1>3

-----------------------------------------------------------------------------
(* The invariant.                                                          *)

\* Before the first command nothing is sent and nothing is shown.
LEMMA InitIInv == Init => IInv
<1> SUFFICES ASSUME Init PROVE IInv
  OBVIOUS
<1>1. TypeOK
  BY DEF Init, TypeOK
<1>2. WireNumbered /\ TrackerAtHighest /\ LastTobCurrent
  BY DEF Init, WireNumbered, TrackerAtHighest, LastTobCurrent
<1>3. Announced /\ ViewFollows /\ GapsExact
  BY DEF Init, Announced, Latest, ViewFollows, GapsExact
<1> QED  BY <1>1, <1>2, <1>3 DEF IInv

\* What a publish sends: some of its messages, numbered after the earlier ones.
LEMMA PublishSends ==
  ASSUME IInv, NEW s \in Symbols, NEW trades \in Nat, NEW t \in Tob, publish(s, trades, t)
  PROVE  /\ md_seq' \in Nat /\ md_seq <= md_seq' /\ wire \subseteq wire'
         /\ \A f \in wire' \ wire : f.md_seq \in (md_seq + 1)..md_seq'
         /\ \A f, g \in wire' : f.md_seq = g.md_seq => f = g
         /\ \A f \in wire' \ wire, x \in Symbols :
              IsTob(f, x) => /\ x = s /\ Shown(f) = t /\ f.md_seq = md_seq'
                             /\ TobChanged(s, t)
         /\ TobChanged(s, t) => /\ md_seq < md_seq'
                                /\ \A f \in wire' \ wire : f.md_seq = md_seq' => IsTob(f, s)
<1> DEFINE m == Messages(s, trades, t)
           e == encode_tob(md_seq + trades + 1, s, t)
<1>1. md_seq \in Nat /\ \A f \in wire : f.md_seq \in 1..md_seq
  BY DEF IInv, TypeOK, WireNumbered
<1>2. /\ DOMAIN m = 1..Len(m)
      /\ Len(m) = IF TobChanged(s, t) THEN trades + 1 ELSE trades
      /\ \A k \in 1..trades : m[k] = encode_trade(md_seq + k, s)
      /\ TobChanged(s, t) => m[trades + 1] = e
  BY <1>1, MessagesFacts
<1>3. PICK failed \in SUBSET DOMAIN m : Emit(m, failed)
  BY DEF publish
<1> HIDE DEF m
<1>4. md_seq' = md_seq + Len(m) /\ Len(m) \in Nat
  BY <1>2, <1>3 DEF Emit
<1>5. wire' = wire \cup {m[k] : k \in DOMAIN m \ failed}
  BY <1>3 DEF Emit
<1>6. ASSUME NEW k \in 1..trades
      PROVE  m[k].md_seq = md_seq + k /\ m[k].type = "MdTrade"
  <2>1. m[k] = encode_trade(md_seq + k, s)
    BY <1>2
  <2>2. /\ encode_trade(md_seq + k, s).md_seq = md_seq + k
        /\ encode_trade(md_seq + k, s).type = "MdTrade"
    BY DEF encode_trade, Frame
  <2> QED  BY <2>1, <2>2
<1>7. /\ e.md_seq = md_seq + trades + 1 /\ e.type = "MdTopOfBook" /\ e.fields[1] = s
      /\ Shown(e) = t
  <2>1. Shown(e) = t
    BY ShownIsEncoded
  <2> QED  BY <2>1 DEF encode_tob, Frame
<1> HIDE DEF e
<1>8. ASSUME NEW k \in DOMAIN m
      PROVE  /\ k \in 1..Len(m) /\ m[k].md_seq = md_seq + k
             /\ k \in 1..trades \/ (TobChanged(s, t) /\ k = trades + 1 /\ m[k] = e)
  <2>1. k \in 1..trades \/ (TobChanged(s, t) /\ k = trades + 1)
    BY <1>2
  <2> QED  BY <1>1, <1>2, <1>6, <1>7, <2>1
<1>9. \A f \in wire' \ wire : \E k \in DOMAIN m : f = m[k]
  BY <1>5
<1>10. \A f \in wire' \ wire : f.md_seq \in (md_seq + 1)..md_seq'
  BY <1>1, <1>4, <1>8, <1>9
<1>11. ASSUME NEW f \in wire', NEW g \in wire', f.md_seq = g.md_seq
       PROVE  f = g
  <2>1. CASE f \in wire /\ g \in wire
    BY <1>11, <2>1 DEF IInv, WireNumbered
  <2>2. CASE f \notin wire /\ g \notin wire
    <3>1. PICK k \in DOMAIN m : f = m[k]
      BY <1>9, <2>2
    <3>2. PICK j \in DOMAIN m : g = m[j]
      BY <1>9, <2>2
    <3>3. md_seq + k = md_seq + j /\ k \in Int /\ j \in Int
      BY <1>8, <1>11, <3>1, <3>2
    <3>4. k = j
      <4>1. \A a, b, c \in Int : a + b = a + c => b = c
        OBVIOUS
      <4>2. md_seq \in Int
        BY <1>1
      <4> QED  BY Zenon, <3>3, <4>1, <4>2
    <3> QED  BY <3>1, <3>2, <3>4
  <2>3. CASE f \in wire /\ g \notin wire
    BY <1>1, <1>10, <1>11, <2>3
  <2>4. CASE f \notin wire /\ g \in wire
    BY <1>1, <1>10, <1>11, <2>4
  <2> QED  BY <2>1, <2>2, <2>3, <2>4
<1>12. ASSUME NEW f \in wire' \ wire, NEW x \in Symbols, IsTob(f, x)
       PROVE  /\ x = s /\ Shown(f) = t /\ f.md_seq = md_seq' /\ TobChanged(s, t)
  <2>1. PICK k \in DOMAIN m : f = m[k]
    BY <1>9
  <2>2. k \notin 1..trades
    BY <1>6, <1>12, <2>1 DEF IsTob
  <2>3. TobChanged(s, t) /\ k = trades + 1 /\ f = e
    BY <1>8, <2>1, <2>2
  <2> QED  BY <1>1, <1>2, <1>4, <1>7, <1>12, <2>3 DEF IsTob
<1>13. ASSUME TobChanged(s, t), NEW f \in wire' \ wire, f.md_seq = md_seq'
       PROVE  IsTob(f, s)
  <2>1. PICK k \in DOMAIN m : f = m[k]
    BY <1>9
  <2>2. k = trades + 1
    BY <1>1, <1>2, <1>4, <1>8, <1>13, <2>1
  <2> QED  BY <1>2, <1>7, <1>13, <2>1, <2>2 DEF IsTob
<1>14. md_seq <= md_seq' /\ (TobChanged(s, t) => md_seq < md_seq')
  BY <1>1, <1>2, <1>4
<1> QED  BY <1>1, <1>4, <1>5, <1>10, <1>11, <1>12, <1>13, <1>14

\* on_events keeps the invariant, whatever trades and top of book a command
\* leaves.
LEMMA PublishStep ==
  ASSUME IInv, NEW s \in Symbols, NEW trades \in Nat, NEW t \in Tob, publish(s, trades, t)
  PROVE  IInv'
<1>1. /\ md_seq' \in Nat /\ md_seq <= md_seq' /\ wire \subseteq wire'
      /\ \A f \in wire' \ wire : f.md_seq \in (md_seq + 1)..md_seq'
      /\ \A f, g \in wire' : f.md_seq = g.md_seq => f = g
  BY PublishSends
<1>2. \A f \in wire' \ wire, x \in Symbols :
        IsTob(f, x) => x = s /\ Shown(f) = t /\ f.md_seq = md_seq' /\ TobChanged(s, t)
  BY PublishSends
<1>3. TobChanged(s, t) => /\ md_seq < md_seq'
                          /\ \A f \in wire' \ wire : f.md_seq = md_seq' => IsTob(f, s)
  BY PublishSends
<1>4. UNCHANGED <<tracker, total_gaps, received, late, view>>
  BY DEF publish, clientVars
<1>5. tob' = [tob EXCEPT ![s] = t] /\ tob = [x \in Symbols |-> tob[x]]
  BY DEF publish, IInv, TypeOK
<1>6. md_seq \in Nat /\ \A f \in wire : f.md_seq \in 1..md_seq
  BY DEF IInv, TypeOK, WireNumbered
<1>7. \A f \in wire' : f.md_seq \in 1..md_seq'
  BY <1>1, <1>6
<1>8. \A x \in Symbols : tob'[x] = IF x = s THEN t ELSE tob[x]
  BY <1>5
<1>9. TypeOK'
  BY SMTT(30), <1>1, <1>4, <1>5 DEF IInv, TypeOK
<1>10. WireNumbered'
  <2>1. received' \subseteq {f.md_seq : f \in wire'}
    BY <1>1, <1>4 DEF IInv, WireNumbered
  <2> QED  BY <1>1, <1>7, <2>1 DEF WireNumbered
<1>11. TrackerAtHighest' /\ GapsExact'
  BY <1>4 DEF IInv, TrackerAtHighest, GapsExact
<1>12. LastTobCurrent'
  BY <1>8 DEF IInv, LastTobCurrent, publish
<1>13. TobChanged(s, t) <=> tob[s] # t
  BY DEF IInv, LastTobCurrent, TobChanged
<1>14. Announced'
  <2> SUFFICES ASSUME 1..md_seq' \subseteq {f.md_seq : f \in wire'}, NEW x \in Symbols
               PROVE  Latest(wire', md_seq', x, tob'[x])
    BY DEF Announced
  <2>1. 1..md_seq \subseteq {f.md_seq : f \in wire}
    <3> SUFFICES ASSUME NEW k \in 1..md_seq PROVE \E f \in wire : f.md_seq = k
      OBVIOUS
    <3>1. PICK f \in wire' : f.md_seq = k
      BY <1>1, <1>6
    <3> QED  BY <1>1, <1>6, <3>1
  <2>2. Latest(wire, md_seq, x, tob[x])
    BY <2>1 DEF IInv, Announced
  <2>3. CASE x = s /\ TobChanged(s, t)
    <3>1. PICK f \in wire' : f.md_seq = md_seq'
      BY <1>1, <1>3, <1>6, <2>3
    <3>2. f \notin wire
      BY <1>3, <1>6, <2>3, <3>1
    <3>3. IsTob(f, s) /\ Shown(f) = t
      BY <1>2, <1>3, <2>3, <3>1, <3>2
    <3>4. f.md_seq <= md_seq' /\ \A g \in wire' : g.md_seq <= f.md_seq
      BY <1>1, <1>7, <3>1
    <3> QED  BY <1>8, <2>3, <3>3, <3>4 DEF Latest
  <2>4. CASE ~(x = s /\ TobChanged(s, t))
    <3>1. \A f \in wire' : f.md_seq <= md_seq' /\ IsTob(f, x) => f \in wire /\ f.md_seq <= md_seq
      BY <1>2, <1>6, <2>4
    <3>2. Latest(wire', md_seq', x, tob[x])
      <4>1. \A f \in wire' : f.md_seq \in Nat
        BY <1>1, <1>7
      <4> QED  BY <1>1, <1>6, <2>2, <3>1, <4>1, LatestKept
    <3>3. tob'[x] = tob[x]
      BY <1>8, <1>13, <2>4
    <3> QED  BY <3>2, <3>3
  <2> QED  BY <2>3, <2>4
<1>15. ViewFollows'
  <2>1. tracker = <<>> => view' = [x \in Symbols |-> NoTob]
    BY <1>4 DEF IInv, ViewFollows
  <2>2. ASSUME tracker # <<>>, total_gaps = 0, tracker[1].first = 1
        PROVE  /\ 1..tracker[1].last \subseteq received
               /\ \A x \in Symbols : Latest(wire', tracker[1].last, x, view[x])
    <3>1. /\ 1..tracker[1].last \subseteq received
          /\ \A x \in Symbols : Latest(wire, tracker[1].last, x, view[x])
      BY <2>2 DEF IInv, ViewFollows
    <3>2. tracker[1].last \in Nat /\ tracker[1].last <= md_seq
      BY <1>6, <2>2 DEF IInv, TypeOK, TrackerAtHighest, WireNumbered
    <3>3. \A f \in wire' : f.md_seq \in Nat /\ (f.md_seq <= tracker[1].last => f \in wire)
      BY <1>1, <1>6, <1>7, <3>2
    <3> QED  BY <1>1, <3>1, <3>2, <3>3, LatestKept
  <2> QED  BY <1>4, <2>1, <2>2 DEF ViewFollows
<1> QED  BY <1>9, <1>10, <1>11, <1>12, <1>14, <1>15 DEF IInv

\* What total_gaps counts: of a to b, what is not in R, or only late.
Missing(a, b, R, L) == {n \in a..b : n \notin R \/ n \in L}

\* The messages missing between two numbers can be counted.
LEMMA MissingFinite ==
  ASSUME NEW a \in Nat, NEW b \in Nat, NEW R, NEW L
  PROVE  IsFiniteSet(Missing(a, b, R, L)) /\ Cardinality(Missing(a, b, R, L)) \in Nat
<1>1. IsFiniteSet(a..b) /\ Missing(a, b, R, L) \subseteq a..b
  BY FS_Interval DEF Missing
<1> QED  BY <1>1, FS_Subset, FS_CardinalityType

\* The numbers skipped between last and q are new ones.
LEMMA MissingGrows ==
  ASSUME NEW a \in Nat, NEW last \in Nat, NEW q \in Nat, a <= last, last < q,
         NEW R \in SUBSET Nat, \A n \in R : n <= last, NEW L \in SUBSET R
  PROVE  Cardinality(Missing(a, q, R \cup {q}, L)) =
           Cardinality(Missing(a, last, R, L)) + (q - last - 1)
<1> DEFINE M == Missing(a, last, R, L)
           N == Missing(a, q, R \cup {q}, L)
           I == (last + 1)..(q - 1)
<1>1. IsFiniteSet(M) /\ Cardinality(M) \in Nat
  BY MissingFinite
<1>2. IsFiniteSet(I) /\ Cardinality(I) = q - last - 1
  <2>1. last + 1 \in Int /\ q - 1 \in Int
    OBVIOUS
  <2>2. IsFiniteSet(I) /\ Cardinality(I) = IF last + 1 > q - 1 THEN 0 ELSE (q - 1) - (last + 1) + 1
    BY <2>1, FS_Interval
  <2> QED  BY <2>2
<1>3. M \cap I = {}
  BY DEF Missing
<1>4. N = M \cup I
  <2> USE DEF Missing
  <2>1. ASSUME NEW n \in N PROVE n \in M \cup I
    <3>1. n \in Nat /\ a <= n /\ n <= q /\ (n \notin R \cup {q} \/ n \in L)
      OBVIOUS
    <3>2. n # q
      BY <3>1
    <3>3. CASE n <= last
      BY <3>1, <3>2, <3>3
    <3>4. CASE n > last
      BY <3>1, <3>2, <3>4
    <3> QED  BY <3>1, <3>3, <3>4
  <2>2. ASSUME NEW n \in M PROVE n \in N
    OBVIOUS
  <2>3. ASSUME NEW n \in I PROVE n \in N
    <3>1. n \in Nat /\ n > last /\ n < q /\ n \in a..q
      OBVIOUS
    <3>2. n \notin R
      BY <3>1
    <3> QED  BY <3>1, <3>2
  <2> QED  BY <2>1, <2>2, <2>3
<1> HIDE DEF M, N, I
<1>5. Cardinality(M \cup I) = Cardinality(M) + Cardinality(I) - Cardinality(M \cap I)
  BY <1>1, <1>2, FS_Union
<1>6. Cardinality({}) = 0
  BY FS_EmptySet
<1>7. Cardinality(N) = Cardinality(M) + (q - last - 1)
  <2>1. Cardinality(M \cap I) = 0
    BY <1>3, <1>6
  <2>2. Cardinality(N) = Cardinality(M \cup I)
    BY <1>4
  <2> QED  BY <1>1, <1>2, <1>5, <2>1, <2>2
<1> QED  BY <1>7 DEF M, N

\* What a datagram that is received leaves alone.
LEMMA ReceiveKeeps ==
  ASSUME IInv, NEW f \in wire, receive(f)
  PROVE  /\ f.md_seq \in Nat /\ f.md_seq >= 1
         /\ UNCHANGED <<tob, last_tob, md_seq, wire>>
         /\ received' = received \cup {f.md_seq}
         /\ received' \subseteq {g.md_seq : g \in wire}
         /\ LastTobCurrent' /\ Announced' /\ WireNumbered'
<1>1. f.md_seq \in Nat /\ f.md_seq >= 1
  BY DEF IInv, WireNumbered, TypeOK
<1>2. UNCHANGED <<tob, last_tob, md_seq, wire>> /\ received' = received \cup {f.md_seq}
  BY DEF receive, engineVars, Consume
<1>3. received' \subseteq {g.md_seq : g \in wire}
  BY <1>2 DEF IInv, WireNumbered
<1>4. LastTobCurrent' /\ Announced'
  BY <1>2 DEF IInv, LastTobCurrent, Announced
<1>5. WireNumbered'
  BY <1>2, <1>3 DEF IInv, WireNumbered
<1> QED  BY <1>1, <1>2, <1>3, <1>4, <1>5

\* The first datagram a subscriber receives.
LEMMA ReceiveFirst ==
  ASSUME IInv, NEW f \in wire, receive(f), tracker = <<>>
  PROVE  IInv'
<1> DEFINE q == f.md_seq
<1>1. /\ q \in Nat /\ UNCHANGED <<tob, last_tob, md_seq, wire>>
      /\ received' = received \cup {q}
      /\ LastTobCurrent' /\ Announced' /\ WireNumbered'
  BY ReceiveKeeps
<1>2. received = {} /\ late = {} /\ view = [s \in Symbols |-> NoTob] /\ total_gaps = 0
  BY DEF IInv, TypeOK, TrackerAtHighest, ViewFollows, GapsExact
<1>3. /\ total_gaps' = 0 /\ tracker' = <<[first |-> q, last |-> q]>>
      /\ received' = {q} /\ late' = {}
  BY <1>1, <1>2 DEF receive, observe, Tracked, Consume
<1>4. view' = IF f.type = "MdTopOfBook" THEN [view EXCEPT ![f.fields[1]] = Shown(f)] ELSE view
  BY <1>2 DEF receive, Consume
<1>5. tracker' # <<>> /\ tracker'[1].first = q /\ tracker'[1].last = q
      /\ tracker'[1] \in [first : Nat, last : Nat] /\ tracker' = <<tracker'[1]>>
  BY <1>1, <1>3
<1>6. TypeOK'
  <2>1. view' = [s \in Symbols |-> view'[s]]
    BY <1>2, <1>4
  <2> QED  BY <1>1, <1>3, <1>5, <2>1 DEF IInv, TypeOK
<1>7. TrackerAtHighest'
  BY <1>1, <1>3, <1>5 DEF TrackerAtHighest
<1>8. GapsExact'
  <2>1. {n \in q..q : n \notin {q} \/ n \in {}} = {}
    BY <1>1
  <2>2. Cardinality({n \in q..q : n \notin {q} \/ n \in {}}) = 0
    BY <2>1, FS_EmptySet
  <2> QED  BY Zenon, <1>3, <1>5, <2>2 DEF GapsExact
<1>9. ViewFollows'
  <2> SUFFICES ASSUME q = 1
               PROVE  1..q \subseteq {q} /\ \A s \in Symbols : Latest(wire, q, s, view'[s])
    BY <1>1, <1>3, <1>5 DEF ViewFollows
  <2>1. \A g \in wire : g.md_seq \in Nat /\ (g.md_seq <= q => g = f)
    BY DEF IInv, WireNumbered, TypeOK
  <2>2. ASSUME NEW s \in Symbols PROVE Latest(wire, q, s, view'[s])
    <3>1. CASE IsTob(f, s)
      <4>1. view'[s] = Shown(f)
        BY <1>2, <1>4, <3>1 DEF IsTob
      <4>2. f.md_seq <= q /\ \A g \in wire : g.md_seq <= q => g.md_seq <= f.md_seq
        BY <2>1
      <4> HIDE DEF q
      <4> QED  BY <3>1, <4>1, <4>2 DEF Latest
    <3>2. CASE ~IsTob(f, s)
      <4>1. view'[s] = NoTob
        BY <1>2, <1>4, <3>2 DEF IsTob
      <4> QED  BY <2>1, <3>2, <4>1 DEF Latest
    <3> QED  BY <3>1, <3>2
  <2> QED  BY <1>1, <2>2
<1> QED  BY <1>1, <1>6, <1>7, <1>8, <1>9 DEF IInv

\* One that is not ahead of the tracker: a repeated or a late one.
LEMMA ReceiveBehind ==
  ASSUME IInv, NEW f \in wire, receive(f), tracker # <<>>, f.md_seq <= tracker[1].last
  PROVE  IInv'
<1> DEFINE q == f.md_seq
           first == tracker[1].first
           last == tracker[1].last
<1>1. /\ q \in Nat /\ UNCHANGED <<tob, last_tob, md_seq, wire>>
      /\ received' = received \cup {q}
      /\ LastTobCurrent' /\ Announced' /\ WireNumbered'
  BY ReceiveKeeps
<1>2. /\ first \in Nat /\ last \in Nat /\ last \in received /\ last \notin late
      /\ received \subseteq Nat /\ late \subseteq received /\ total_gaps \in Nat
      /\ \A n \in received : n <= last
  BY DEF IInv, TypeOK, TrackerAtHighest
<1>3. total_gaps' = total_gaps /\ tracker' = tracker
  BY <1>2 DEF receive, observe, Tracked
<1>4. view' = view
  BY <1>1, <1>2 DEF receive, Consume
<1>5. late' = IF q \notin received /\ \E r \in received : r > q THEN late \cup {q} ELSE late
  BY DEF receive, Consume
<1>6. TypeOK'
  BY SMTT(30), <1>1, <1>2, <1>3, <1>4, <1>5 DEF IInv, TypeOK
<1>7. TrackerAtHighest'
  BY <1>1, <1>2, <1>3, <1>5 DEF IInv, TrackerAtHighest
<1>8. GapsExact'
  <2>1. ASSUME NEW n \in first..last
        PROVE  (n \notin received' \/ n \in late') <=> (n \notin received \/ n \in late)
    <3>1. CASE n # q
      BY <1>1, <1>5, <3>1
    <3>2. CASE n = q /\ q \in received
      BY <1>1, <1>5, <3>2
    <3>3. CASE n = q /\ q \notin received
      <4>1. q < last
        BY <1>1, <1>2, <3>3
      <4> QED  BY <1>1, <1>2, <1>5, <3>3, <4>1
    <3> QED  BY <3>1, <3>2, <3>3
  <2>2. {n \in first..last : n \notin received' \/ n \in late'} =
        {n \in first..last : n \notin received \/ n \in late}
    BY <2>1
  <2> QED  BY Zenon, <1>3, <2>2 DEF IInv, GapsExact
<1>9. ViewFollows'
  BY <1>1, <1>3, <1>4 DEF IInv, ViewFollows
<1> QED  BY <1>1, <1>6, <1>7, <1>8, <1>9 DEF IInv

\* One ahead of it: the numbers it skips are gaps.
LEMMA ReceiveAhead ==
  ASSUME IInv, NEW f \in wire, receive(f), tracker # <<>>, ~(f.md_seq <= tracker[1].last)
  PROVE  IInv'
<1> DEFINE q == f.md_seq
           first == tracker[1].first
           last == tracker[1].last
<1>1. /\ q \in Nat /\ UNCHANGED <<tob, last_tob, md_seq, wire>>
      /\ received' = received \cup {q}
      /\ LastTobCurrent' /\ Announced' /\ WireNumbered'
  BY ReceiveKeeps
<1>2. /\ first \in Nat /\ last \in Nat /\ last \in received /\ last \notin late /\ first <= last
      /\ received \subseteq Nat /\ late \subseteq received /\ total_gaps \in Nat
      /\ \A n \in received : n <= last
      /\ tracker = <<tracker[1]>> /\ tracker[1] \in [first : Nat, last : Nat]
  BY DEF IInv, TypeOK, TrackerAtHighest
<1>3. last < q /\ q \notin received /\ \A r \in received : ~(r > q) /\ r < q
  BY <1>1, <1>2
<1>4. total_gaps' = total_gaps + (q - last - 1) /\ late' = late
  BY <1>2, <1>3 DEF receive, observe, Consume
<1>5. tracker' = <<[tracker[1] EXCEPT !.last = q]>>
  BY <1>2, <1>3 DEF receive, Tracked
<1>6. /\ tracker' # <<>> /\ tracker'[1].first = first /\ tracker'[1].last = q
      /\ tracker'[1] \in [first : Nat, last : Nat] /\ tracker' = <<tracker'[1]>>
  BY <1>1, <1>2, <1>5
<1>7. view' = IF f.type = "MdTopOfBook" THEN [view EXCEPT ![f.fields[1]] = Shown(f)] ELSE view
  BY <1>3 DEF receive, Consume
<1>8. view = [s \in Symbols |-> view[s]] /\ view' = [s \in Symbols |-> view'[s]]
  BY <1>7 DEF IInv, TypeOK
<1>9. TypeOK'
  <2>1. total_gaps' \in Nat
    BY <1>1, <1>2, <1>3, <1>4
  <2> QED  BY <1>1, <1>2, <1>4, <1>6, <1>8, <2>1 DEF IInv, TypeOK
<1>10. TrackerAtHighest'
  BY <1>1, <1>2, <1>3, <1>4, <1>6 DEF TrackerAtHighest
<1>11. GapsExact'
  <2>1. total_gaps = Cardinality(Missing(first, last, received, late))
    BY DEF IInv, GapsExact, Missing
  <2>2. Cardinality(Missing(first, q, received \cup {q}, late)) =
          Cardinality(Missing(first, last, received, late)) + (q - last - 1)
    BY <1>1, <1>2, <1>3, MissingGrows
  <2>3. total_gaps' = Cardinality(Missing(first, q, received \cup {q}, late))
    BY <1>4, <2>1, <2>2
  <2> QED  BY <1>1, <1>4, <1>6, <2>3 DEF GapsExact, Missing
<1>12. ViewFollows'
  <2> SUFFICES ASSUME total_gaps' = 0, first = 1
               PROVE  1..q \subseteq received' /\ \A s \in Symbols : Latest(wire, q, s, view'[s])
    BY <1>1, <1>6 DEF ViewFollows
  <2>1. total_gaps = 0 /\ q = last + 1
    BY <1>1, <1>2, <1>3, <1>4
  <2>2. 1..last \subseteq received /\ \A s \in Symbols : Latest(wire, last, s, view[s])
    BY <2>1 DEF IInv, ViewFollows
  <2>3. \A g \in wire : g.md_seq \in Nat /\ (g.md_seq <= q => g = f \/ g.md_seq <= last)
    BY <1>2, <2>1 DEF IInv, WireNumbered, TypeOK
  <2>4. 1..q \subseteq received'
    BY <1>1, <1>2, <2>1, <2>2
  <2>5. ASSUME NEW s \in Symbols PROVE Latest(wire, q, s, view'[s])
    <3>1. CASE IsTob(f, s)
      <4>1. view'[s] = Shown(f)
        BY <1>7, <1>8, <3>1 DEF IsTob
      <4>2. f.md_seq <= q /\ \A g \in wire : g.md_seq <= q => g.md_seq <= f.md_seq
        BY <2>3
      <4> HIDE DEF q
      <4> QED  BY <3>1, <4>1, <4>2 DEF Latest
    <3>2. CASE ~IsTob(f, s)
      <4>1. view'[s] = view[s]
        BY <1>7, <1>8, <3>2 DEF IsTob
      <4>2. Latest(wire, q, s, view[s])
        BY <1>1, <1>2, <1>3, <2>2, <2>3, <3>2, LatestKept
      <4> QED  BY <4>1, <4>2
    <3> QED  BY <3>1, <3>2
  <2> QED  BY <2>4, <2>5
<1> QED  BY <1>1, <1>9, <1>10, <1>11, <1>12 DEF IInv

\* Every step of publisher, network and subscriber keeps the invariant.
LEMMA NextIInv == IInv /\ [Next]_vars => IInv'
<1> SUFFICES ASSUME IInv, [Next]_vars PROVE IInv'
  OBVIOUS
<1>1. ASSUME NEW s \in Symbols, NEW trades \in 0..MaxTrades, NEW t \in Tob, publish(s, trades, t)
      PROVE  IInv'
  BY <1>1, TradesAssumption, PublishStep
<1>2. ASSUME NEW f \in wire, receive(f) PROVE IInv'
  BY SMTT(30), <1>2, ReceiveFirst, ReceiveBehind, ReceiveAhead
<1>3. CASE UNCHANGED <<engineVars, wire, tracker, total_gaps, received, late, view>>
  BY <1>3 DEF engineVars, IInv, TypeOK, WireNumbered, TrackerAtHighest, LastTobCurrent,
              Announced, ViewFollows, GapsExact
<1>4. CASE ReceiveTimeout \/ \E f \in wire : \E g \in Damaged(f) : ReceiveUndecodable(g)
  BY <1>3, <1>4 DEF ReceiveTimeout, ReceiveUndecodable
<1>5. CASE UNCHANGED vars
  BY <1>3, <1>5 DEF vars, clientVars
<1> QED  BY <1>1, <1>2, <1>4, <1>5 DEF Next

-----------------------------------------------------------------------------
(* The properties.                                                         *)

\* With no gap told and the last number seen, the view is the engine's.
LEMMA CurrentFollows == IInv => ViewCurrent
<1> SUFFICES ASSUME IInv, tracker # <<>>, total_gaps = 0,
                    tracker[1].first = 1, tracker[1].last = md_seq
             PROVE  view = tob
  BY DEF ViewCurrent
<1>1. 1..md_seq \subseteq received /\ \A s \in Symbols : Latest(wire, md_seq, s, view[s])
  BY DEF IInv, ViewFollows
<1>2. 1..md_seq \subseteq {f.md_seq : f \in wire}
  BY <1>1 DEF IInv, WireNumbered
<1>3. \A s \in Symbols : Latest(wire, md_seq, s, tob[s])
  BY <1>2 DEF IInv, Announced
<1>4. \A s \in Symbols : view[s] = tob[s]
  BY <1>1, <1>3, LatestUnique DEF IInv, TypeOK
<1> QED  BY <1>4 DEF IInv, TypeOK

\* Whatever is lost, repeated, late, damaged or never sent, however many messages
\* there are: total_gaps_ counts each number missing or late once, and no other.
THEOREM GapCount == Spec => []GapsExact
<1>1. IInv => GapsExact
  BY DEF IInv
<1> QED  BY InitIInv, NextIInv, <1>1, PTL DEF Spec

\* A subscriber that has the first message, the last one and no gap reported shows
\* every top of book as the engine has it.
THEOREM NoGapNoDifference == Spec => []ViewCurrent
  BY InitIInv, NextIInv, CurrentFollows, PTL DEF Spec
=============================================================================
