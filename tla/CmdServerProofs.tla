-------------------------- MODULE CmdServerProofs --------------------------
(***************************************************************************)
(* CmdServerInv is an inductive invariant of CmdServer for every number of *)
(* channels and clients, every ring and every set of requests: no copy of  *)
(* a word is unaccounted for and each ring keeps its channel's words in    *)
(* order.  With one client, each reply answers its own request.            *)
(***************************************************************************)
EXTENDS CmdServer, FiniteSetTheorems, SequenceTheorems, TLAPS

-----------------------------------------------------------------------------
(***************************************************************************)
(* Sums over the channels.                                                 *)
(***************************************************************************)
\* The pairs that Total counts.
Pairs(f) == UNION {{c} \X (1..f[c]) : c \in Chan}

LEMMA PairsMembers ==
  ASSUME NEW f \in [Chan -> Nat]
  PROVE  \A p : p \in Pairs(f) <=> \E c \in Chan : \E k \in 1..f[c] : p = <<c, k>>
BY DEF Pairs

LEMMA ChanFinite == IsFiniteSet(Chan) /\ Chan \subseteq Nat
<1>1. 0 \in Int /\ Channels - 1 \in Int
  BY ChannelsAssumption
<1>2. QED
  BY <1>1, FS_Interval DEF Chan

\* There are finitely many of them, so their sum is a number.
LEMMA TotalType ==
  ASSUME NEW f \in [Chan -> Nat]
  PROVE  IsFiniteSet(Pairs(f)) /\ Total(f) \in Nat
<1> DEFINE column == [c \in Chan |-> {c} \X (1..f[c])]
           columns == {{c} \X (1..f[c]) : c \in Chan}
<1>1. column \in Surjection(Chan, columns)
  BY DEF Surjection
<1>2. IsFiniteSet(columns)
  BY <1>1, ChanFinite, FS_Surjection
<1>3. ASSUME NEW c \in Chan
      PROVE  IsFiniteSet({c} \X (1..f[c]))
  <2>1. f[c] \in Int /\ 1 \in Int
    OBVIOUS
  <2>2. IsFiniteSet(1..f[c])
    BY <2>1, FS_Interval
  <2>3. IsFiniteSet({c})
    BY FS_Singleton
  <2>4. QED
    BY <2>2, <2>3, FS_Product
<1>4. \A T \in columns : IsFiniteSet(T)
  BY <1>3
<1>5. IsFiniteSet(UNION columns)
  BY <1>2, <1>4, FS_UNION
<1>6. QED
  BY <1>5, FS_CardinalityType DEF Pairs, Total

\* The sum of two functions is the sum of their sums.
LEMMA TotalAdds ==
  ASSUME NEW f \in [Chan -> Nat], NEW g \in [Chan -> Nat],
         NEW h \in [Chan -> Nat], \A c \in Chan : h[c] = f[c] + g[c]
  PROVE  Total(h) = Total(f) + Total(g)
<1> DEFINE above == {p \in Pairs(h) : p[2] > f[p[1]]}
           lift == [p \in Pairs(g) |-> <<p[1], f[p[1]] + p[2]>>]
<1>1. \A p \in Pairs(g) : lift[p] \in above
  <2> TAKE p \in Pairs(g)
  <2>1. PICK c \in Chan : \E k \in 1..g[c] : p = <<c, k>>
    BY PairsMembers
  <2>1a. PICK k \in 1..g[c] : p = <<c, k>>
    BY <2>1
  <2>2. f[c] + k \in 1..h[c] /\ f[c] + k > f[c] /\ lift[p] = <<c, f[c] + k>>
    BY <2>1, <2>1a
  <2>3. QED
    BY <2>2, PairsMembers
<1>2. \A q \in above : \E p \in Pairs(g) : lift[p] = q
  <2> TAKE q \in above
  <2>1. PICK c \in Chan : \E k \in 1..h[c] : q = <<c, k>>
    BY PairsMembers
  <2>1a. PICK k \in 1..h[c] : q = <<c, k>>
    BY <2>1
  <2>2. k > f[c] /\ k - f[c] \in 1..g[c] /\ f[c] + (k - f[c]) = k
    BY <2>1, <2>1a
  <2>3. <<c, k - f[c]>> \in Pairs(g)
    BY <2>2, PairsMembers
  <2>4. QED
    BY <2>1, <2>1a, <2>2, <2>3
<1>3. \A p, q \in Pairs(g) : lift[p] = lift[q] => p = q
  <2> TAKE p, q \in Pairs(g)
  <2>1. PICK c \in Chan : \E k \in 1..g[c] : p = <<c, k>>
    BY PairsMembers
  <2>1a. PICK k \in 1..g[c] : p = <<c, k>>
    BY <2>1
  <2>2. PICK d \in Chan : \E m \in 1..g[d] : q = <<d, m>>
    BY PairsMembers
  <2>2a. PICK m \in 1..g[d] : q = <<d, m>>
    BY <2>2
  <2>3. lift[p] = <<c, f[c] + k>> /\ lift[q] = <<d, f[d] + m>>
    BY <2>1, <2>1a, <2>2, <2>2a
  <2>4. lift[p] = lift[q] => c = d /\ k = m
    BY <2>3
  <2>5. QED
    BY <2>1, <2>1a, <2>2, <2>2a, <2>4
<1>4. lift \in Bijection(Pairs(g), above)
  BY <1>1, <1>2, <1>3 DEF Bijection, Injection, Surjection, IsInjective
<1>5. IsFiniteSet(above) /\ Cardinality(above) = Total(g)
  BY <1>4, TotalType, FS_Bijection DEF ExistsBijection, Total, Pairs
<1>6. Pairs(h) = Pairs(f) \cup above
  <2>1. Pairs(f) \subseteq Pairs(h)
    <3> SUFFICES ASSUME NEW c \in Chan, NEW k \in 1..f[c]
                 PROVE  <<c, k>> \in Pairs(h)
      BY PairsMembers
    <3>1. k \in 1..h[c]
      OBVIOUS
    <3>2. QED
      BY <3>1, PairsMembers
  <2>2. ASSUME NEW p \in Pairs(h)
        PROVE  p \in Pairs(f) \cup above
    <3>1. PICK c \in Chan : \E k \in 1..h[c] : p = <<c, k>>
      BY PairsMembers
    <3>1a. PICK k \in 1..h[c] : p = <<c, k>>
      BY <3>1
    <3>2. k \in 1..f[c] \/ p[2] > f[p[1]]
      BY <3>1, <3>1a
    <3>3. QED
      BY <3>1, <3>1a, <3>2, PairsMembers
  <2>3. QED
    BY <2>1, <2>2
<1>7. Pairs(f) \cap above = {}
  <2> SUFFICES ASSUME NEW p \in Pairs(f), p \in above
               PROVE  FALSE
    OBVIOUS
  <2>1. PICK c \in Chan : \E k \in 1..f[c] : p = <<c, k>>
    BY PairsMembers
  <2>1a. PICK k \in 1..f[c] : p = <<c, k>>
    BY <2>1
  <2>2. QED
    BY <2>1, <2>1a
<1>8. Cardinality(Pairs(h)) =
        Cardinality(Pairs(f)) + Cardinality(above) - Cardinality({})
  <2> HIDE DEF above
  <2>1. QED
    BY <1>5, <1>6, <1>7, TotalType, FS_Union
<1>9. /\ Cardinality(Pairs(f)) = Total(f) /\ Cardinality(Pairs(h)) = Total(h)
      /\ Total(f) \in Nat /\ Total(g) \in Nat /\ Cardinality({}) = 0
  BY TotalType, FS_EmptySet DEF Total, Pairs
<1>10. QED
  <2> HIDE DEF above
  <2>1. QED
    BY <1>5, <1>8, <1>9

\* The sum of a function that is one on a set and zero elsewhere.
LEMMA TotalOfSet ==
  ASSUME NEW S \in SUBSET Chan, NEW f \in [Chan -> Nat],
         \A c \in Chan : f[c] = IF c \in S THEN 1 ELSE 0
  PROVE  Total(f) = Cardinality(S) /\ Cardinality(S) \in Nat
<1> DEFINE pair == [c \in S |-> <<c, 1>>]
<1>1. IsFiniteSet(S) /\ Cardinality(S) \in Nat
  BY ChanFinite, FS_Subset, FS_CardinalityType
<1>2. \A c \in S : pair[c] \in Pairs(f)
  BY PairsMembers
<1>3. \A p \in Pairs(f) : \E c \in S : pair[c] = p
  <2> TAKE p \in Pairs(f)
  <2>1. PICK c \in Chan : \E k \in 1..f[c] : p = <<c, k>>
    BY PairsMembers
  <2>1a. PICK k \in 1..f[c] : p = <<c, k>>
    BY <2>1
  <2>2. c \in S /\ k = 1
    BY <2>1, <2>1a
  <2>3. QED
    BY <2>1, <2>1a, <2>2
<1>4. pair \in Bijection(S, Pairs(f))
  BY <1>2, <1>3 DEF Bijection, Injection, Surjection, IsInjective
<1>5. QED
  BY <1>1, <1>4, FS_Bijection DEF ExistsBijection, Total, Pairs

-----------------------------------------------------------------------------
(***************************************************************************)
(* Arithmetic in a ring of N slots.                                        *)
(***************************************************************************)
\* From a slot that is n ahead of t, counting on and back to t.
LEMMA RingFacts ==
  ASSUME NEW t \in Index, NEW n \in 0..N-1, NEW a \in 0..N-1-n
  PROVE  /\ Ahead(t, n) \in Index /\ Ahead(Ahead(t, n), a) \in Index
         /\ Distance(t, Ahead(Ahead(t, n), a)) = n + a
         /\ \A k \in 0..n-1 : /\ Ahead(t, k) \in Index
                             /\ Distance(Ahead(t, n), Ahead(t, k)) >= a
         /\ \A k \in n..n+a-1 : /\ Ahead(t, k) \in Index
                               /\ Distance(Ahead(t, n), Ahead(t, k)) < a
BY NAssumption DEF Index, Ahead, Distance

\* Distance is the inverse of Ahead.
LEMMA DistanceFacts ==
  ASSUME NEW s \in Index, NEW j \in Index
  PROVE  Distance(s, j) \in 0..N-1 /\ Ahead(s, Distance(s, j)) = j
BY NAssumption DEF Index, Ahead, Distance

\* The slot behind the oldest.
LEMMA NextFacts ==
  ASSUME NEW t \in Index, NEW h \in Index, Distance(t, h) > 0
  PROVE  /\ NextSlot(t) \in Index /\ Distance(NextSlot(t), h) = Distance(t, h) - 1
         /\ \A k \in 0..N-2 : Ahead(NextSlot(t), k) = Ahead(t, k + 1)
BY NAssumption DEF Index, Ahead, Distance, NextSlot

-----------------------------------------------------------------------------
(***************************************************************************)
(* tx_buffer_in and tx_buffer_out.                                         *)
(***************************************************************************)
BufferInv == BufferTypeOK /\ EveryCopyAccounted /\ RingHoldsDue

\* The ring of a channel and what it holds.
LEMMA ChanFacts ==
  ASSUME BufferTypeOK, NEW c \in Chan
  PROVE  /\ head[c] \in Index /\ tail[c] \in Index /\ data[c] \in [Index -> Word]
         /\ due[c] \in Seq(Word)
         /\ Count(c) \in 0..N-1 /\ head[c] = Ahead(tail[c], Count(c))
<1>1. /\ head[c] \in Index /\ tail[c] \in Index /\ data[c] \in [Index -> Word]
      /\ due[c] \in Seq(Word)
  BY DEF BufferTypeOK
<1>2. QED
  BY <1>1, DistanceFacts DEF Count

\* No ring takes more copies than there are, or than it has room for.
LEMMA AcceptedFacts ==
  ASSUME BufferTypeOK, NEW ch, NEW c \in Chan
  PROVE  /\ Copies(ch, c) \in 0..2
         /\ Accepted(ch, c) \in 0..N - 1 - Count(c)
         /\ Missed(ch, c) \in Nat
         /\ Copies(ch, c) = Accepted(ch, c) + Missed(ch, c)
<1> DEFINE room == N - 1 - Count(c)
           wanted == Copies(ch, c)
<1>1. wanted \in 0..2
  BY DEF Copies
<1>2. room \in Nat
  BY ChanFacts, NAssumption
<1>3. \E x \in {wanted, room} : \A y \in {wanted, room} : x <= y
  <2> HIDE DEF room, wanted
  <2>1. QED
    BY <1>1, <1>2
<1>4. Accepted(ch, c) \in {wanted, room}
      /\ Accepted(ch, c) <= wanted /\ Accepted(ch, c) <= room
  BY <1>3, Zenon DEF Accepted, Min
<1>5. QED
  <2> HIDE DEF room
  <2>1. Accepted(ch, c) \in 0..room
    BY <1>1, <1>2, <1>4
  <2>2. QED
    BY <1>1, <1>2, <1>4, <2>1 DEF Missed, room

\* What tx_buffer_in does to the ring of one channel.
LEMMA ChanIn ==
  ASSUME BufferInv, NEW ch, TxIn(ch), NEW c \in Chan
  PROVE  /\ head'[c] \in Index /\ data'[c] \in [Index -> Word]
         /\ due'[c] \in Seq(Word)
         /\ Count(c)' = Count(c) + Accepted(ch, c)
         /\ due'[c] = [k \in 1..Count(c)' |-> data'[c][Ahead(tail'[c], k - 1)]]
<1> DEFINE n == Count(c)
           a == Accepted(ch, c)
           word == offered + 1
           t == tail[c]
<1>1. /\ data'[c] = [j \in Index |->
                       IF Distance(head[c], j) < a THEN word ELSE data[c][j]]
      /\ head'[c] = Ahead(head[c], a)
      /\ due'[c] = due[c] \o [k \in 1..a |-> word]
      /\ tail' = tail
  BY DEF TxIn
<1>2. BufferTypeOK /\ word \in Word
  BY MaxWordsAssumption DEF BufferInv, BufferTypeOK, TxIn, Word
<1>3. /\ n \in 0..N-1 /\ a \in 0..N-1-n /\ t \in Index
      /\ head[c] = Ahead(t, n) /\ data[c] \in [Index -> Word]
      /\ due[c] \in Seq(Word)
  BY <1>2, ChanFacts, AcceptedFacts
<1>4. due[c] = [k \in 1..n |-> data[c][Ahead(t, k - 1)]]
  BY DEF BufferInv, RingHoldsDue
<1>5. Count(c)' = Distance(t, head'[c])
  BY <1>1 DEF Count
<1> HIDE DEF n, a, word, t
<1>6. /\ head'[c] \in Index /\ Count(c)' = n + a
      /\ n \in Nat /\ a \in Nat /\ N \in Nat
  BY <1>1, <1>3, <1>5, RingFacts, NAssumption
<1>7. data'[c] \in [Index -> Word]
  BY <1>1, <1>2, <1>3
<1>8. \A k \in 1..n : data'[c][Ahead(t, k - 1)] = data[c][Ahead(t, k - 1)]
  <2> TAKE k \in 1..n
  <2>1. k - 1 \in 0..n-1
    BY <1>6
  <2>2. /\ Ahead(t, k - 1) \in Index
        /\ Distance(head[c], Ahead(t, k - 1)) >= a
    BY <1>3, <2>1, RingFacts
  <2>3. Distance(head[c], Ahead(t, k - 1)) \in 0..N-1
    BY <1>3, <1>6, <2>2, RingFacts, DistanceFacts
  <2>4. ~(Distance(head[c], Ahead(t, k - 1)) < a)
    BY <1>6, <2>2, <2>3
  <2>5. QED
    BY <1>1, <2>2, <2>4
<1>9. \A k \in n+1..n+a : data'[c][Ahead(t, k - 1)] = word
  <2> TAKE k \in n+1..n+a
  <2>1. k - 1 \in n..n+a-1
    BY <1>6
  <2>2. /\ Ahead(t, k - 1) \in Index
        /\ Distance(head[c], Ahead(t, k - 1)) < a
    BY <1>3, <2>1, RingFacts
  <2>3. QED
    BY <1>1, <2>2
<1>10. /\ Len(due[c]) = n
       /\ \A k \in 1..n : due[c][k] = data[c][Ahead(t, k - 1)]
  BY <1>3, <1>4, <1>6
<1>11. [k \in 1..a |-> word] \in Seq(Word) /\ Len([k \in 1..a |-> word]) = a
  BY <1>2, <1>6
<1>12. /\ due'[c] \in Seq(Word) /\ Len(due'[c]) = n + a
       /\ \A k \in 1..n : due'[c][k] = due[c][k]
       /\ \A k \in n+1..n+a : due'[c][k] = word
  <2> DEFINE added == [k \in 1..a |-> word]
  <2>1. \A k \in 1..a : added[k] = word
    OBVIOUS
  <2>2. added \in Seq(Word) /\ Len(added) = a /\ due'[c] = due[c] \o added
    BY <1>1, <1>11
  <2> HIDE DEF added
  <2>3. Len(due[c]) = n /\ due[c] \in Seq(Word)
    BY <1>3, <1>10
  <2>4. due'[c] \in Seq(Word)
    BY <2>2, <2>3
  <2>5. Len(due'[c]) = Len(due[c]) + Len(added)
    BY <2>2, <2>3, ConcatProperties
  <2>6. \A k \in 1..n : due'[c][k] = due[c][k]
    BY <1>6, <2>2, <2>3
  <2>7. ASSUME NEW k \in n+1..n+a
        PROVE  due'[c][k] = word
    <3>1. k - n \in 1..a /\ due'[c][k] = added[k - n]
      BY <1>6, <2>2, <2>3
    <3>2. QED
      BY <2>1, <3>1
  <2>8. QED
    BY <2>2, <2>3, <2>4, <2>5, <2>6, <2>7
<1>13. \A k \in 1..n + a : due'[c][k] = data'[c][Ahead(t, k - 1)]
  <2> TAKE k \in 1..n + a
  <2>1. CASE k \in 1..n
    BY <2>1, <1>8, <1>10, <1>12
  <2>2. CASE k \notin 1..n
    <3>1. k \in n+1..n+a
      BY <2>2, <1>6
    <3>2. QED
      BY <3>1, <1>9, <1>12
  <2>3. QED
    BY <2>1, <2>2
<1>14. due'[c] = [k \in 1..n + a |-> data'[c][Ahead(t, k - 1)]]
  <2> DEFINE ring == [k \in 1..n + a |-> data'[c][Ahead(t, k - 1)]]
  <2>1. \A k \in 1..n + a : ring[k] = due'[c][k]
    BY <1>13
  <2>2. DOMAIN ring = 1..n + a
    OBVIOUS
  <2> HIDE DEF ring
  <2>3. due'[c] = [k \in 1..n + a |-> due'[c][k]]
    BY <1>6, <1>12
  <2>4. ring = [k \in 1..n + a |-> ring[k]]
    BY <2>2 DEF ring
  <2>5. QED
    BY <2>1, <2>3, <2>4 DEF ring
<1>15. QED
  BY <1>1, <1>6, <1>7, <1>12, <1>14 DEF n, a, t

\* What tx_buffer_out does to the ring of one channel.
LEMMA ChanOut ==
  ASSUME BufferInv, TxOut, NEW c \in Chan
  PROVE  /\ tail'[c] \in Index /\ due'[c] \in Seq(Word)
         /\ Count(c) = Count(c)' + (IF c \in NonEmpty THEN 1 ELSE 0)
         /\ due'[c] = [k \in 1..Count(c)' |-> data'[c][Ahead(tail'[c], k - 1)]]
<1> DEFINE n == Count(c)
           t == tail[c]
<1>1. /\ head' = head /\ data' = data
      /\ tail'[c] = IF n > 0 THEN NextSlot(t) ELSE t
      /\ due'[c] = IF n > 0 THEN Tail(due[c]) ELSE due[c]
  BY DEF TxOut, NonEmpty
<1>2. /\ n \in 0..N-1 /\ t \in Index /\ head[c] \in Index
      /\ data[c] \in [Index -> Word] /\ due[c] \in Seq(Word)
      /\ n = Distance(t, head[c])
  BY ChanFacts DEF BufferInv, Count
<1>3. due[c] = [k \in 1..n |-> data[c][Ahead(t, k - 1)]]
  BY DEF BufferInv, RingHoldsDue
<1>4. Count(c)' = Distance(tail'[c], head[c])
  BY <1>1 DEF Count
<1>5. c \in NonEmpty <=> n > 0
  BY DEF NonEmpty
<1> HIDE DEF n, t
<1>6. n \in Nat /\ N \in Nat
  BY <1>2, NAssumption
<1>7. CASE ~(n > 0)
  BY <1>1, <1>2, <1>3, <1>4, <1>5, <1>6, <1>7 DEF n, t
<1>8. CASE n > 0
  <2>1. /\ tail'[c] = NextSlot(t) /\ due'[c] = Tail(due[c])
    BY <1>1, <1>8
  <2>2. /\ tail'[c] \in Index /\ Count(c)' = n - 1
        /\ \A k \in 0..N-2 : Ahead(tail'[c], k) = Ahead(t, k + 1)
    BY <1>2, <1>4, <1>8, <2>1, NextFacts
  <2>3. Len(due[c]) = n /\ \A k \in 1..n : due[c][k] = data[c][Ahead(t, k - 1)]
    BY <1>2, <1>3, <1>6
  <2>4. /\ due'[c] \in Seq(Word) /\ Len(due'[c]) = n - 1
        /\ \A k \in 1..n - 1 : due'[c][k] = due[c][k + 1]
    BY <1>2, <1>8, <2>1, <2>3
  <2>5. \A k \in 1..n - 1 : due'[c][k] = data[c][Ahead(tail'[c], k - 1)]
    <3> TAKE k \in 1..n - 1
    <3>1. k - 1 \in 0..N-2 /\ (k - 1) + 1 = k /\ k + 1 \in 1..n /\ (k + 1) - 1 = k
      BY <1>2, <1>6
    <3>2. QED
      BY <2>2, <2>3, <2>4, <3>1
  <2>6. due'[c] = [k \in 1..n - 1 |-> data[c][Ahead(tail'[c], k - 1)]]
    BY <1>6, <2>4, <2>5
  <2>7. n = (n - 1) + 1
    BY <1>6
  <2>8. QED
    BY <1>1, <1>5, <1>8, <2>2, <2>4, <2>6, <2>7 DEF n
<1>9. QED
  BY <1>7, <1>8

\* Counts of a channel are numbers.
LEMMA CountType ==
  ASSUME BufferTypeOK
  PROVE  [c \in Chan |-> Count(c)] \in [Chan -> Nat]
BY ChanFacts, NAssumption

\* tx_buffer_in keeps the rings and the account.
LEMMA TxInInv ==
  ASSUME BufferInv, NEW ch, TxIn(ch)
  PROVE  BufferInv'
<1>1. BufferTypeOK /\ EveryCopyAccounted
  BY DEF BufferInv
<1>2. \A c \in Chan : /\ head'[c] \in Index /\ data'[c] \in [Index -> Word]
                      /\ due'[c] \in Seq(Word)
                      /\ Count(c)' = Count(c) + Accepted(ch, c)
                      /\ due'[c] = [k \in 1..Count(c)' |->
                                     data'[c][Ahead(tail'[c], k - 1)]]
  BY ChanIn
<1> DEFINE wanted == [c \in Chan |-> Copies(ch, c)]
           taken == [c \in Chan |-> Accepted(ch, c)]
           missed == [c \in Chan |-> Missed(ch, c)]
           before == [c \in Chan |-> Count(c)]
           after == [c \in Chan |-> Count(c)']
<1>3. /\ wanted \in [Chan -> Nat] /\ taken \in [Chan -> Nat]
      /\ missed \in [Chan -> Nat] /\ before \in [Chan -> Nat]
  BY <1>1, AcceptedFacts, CountType, NAssumption
<1>4. /\ after \in [Chan -> Nat]
      /\ \A c \in Chan : after[c] = before[c] + taken[c]
  <2>1. \A c \in Chan : before[c] \in Nat /\ taken[c] \in Nat
    BY <1>3
  <2>2. \A c \in Chan : Count(c)' = before[c] + taken[c]
    BY <1>2
  <2> HIDE DEF before, taken
  <2>3. \A c \in Chan : Count(c)' \in Nat
    BY <2>1, <2>2
  <2>4. QED
    BY <2>2, <2>3
<1>5. \A c \in Chan : wanted[c] = taken[c] + missed[c]
  BY <1>1, AcceptedFacts
<1>6. /\ copies' = copies + Total(wanted) /\ lost' = lost + Total(missed)
      /\ out' = out /\ tail' = tail
      /\ offered' = offered + 1 /\ offered < MaxWords
  BY DEF TxIn
<1>7. copies = lost + out + Total(before)
  BY <1>1 DEF EveryCopyAccounted
<1>8. EveryCopyAccounted' <=> copies' = lost' + out' + Total(after)
  BY DEF EveryCopyAccounted, Total, Chan
<1>9. RingHoldsDue'
  BY <1>2 DEF RingHoldsDue, Chan
<1>10. /\ head' \in [Chan -> Index] /\ data' \in [Chan -> [Index -> Word]]
       /\ due' \in [Chan -> Seq(Word)]
  BY <1>2 DEF TxIn
<1> HIDE DEF wanted, taken, missed, before, after
<1>11. /\ Total(wanted) \in Nat /\ Total(missed) \in Nat /\ Total(before) \in Nat
       /\ Total(taken) \in Nat
       /\ Total(wanted) = Total(taken) + Total(missed)
       /\ Total(after) = Total(before) + Total(taken)
  BY <1>3, <1>4, <1>5, TotalType, TotalAdds
<1>12. /\ copies \in Nat /\ lost \in Nat /\ out \in Nat /\ offered \in 0..MaxWords
       /\ tail \in [Chan -> Index]
  BY <1>1 DEF BufferTypeOK, Word
<1>13. EveryCopyAccounted'
  BY <1>6, <1>7, <1>8, <1>11, <1>12
<1>14. /\ copies' \in Nat /\ lost' \in Nat /\ out' \in Nat /\ offered' \in Word
       /\ tail' \in [Chan -> Index]
  BY <1>6, <1>11, <1>12, MaxWordsAssumption DEF Word
<1>15. BufferTypeOK'
  BY <1>10, <1>14 DEF BufferTypeOK, Chan, Index, Word
<1>16. QED
  BY <1>9, <1>13, <1>15 DEF BufferInv

\* So does tx_buffer_out, for any number of channels that have a word.
LEMMA TxOutInv ==
  ASSUME BufferInv, TxOut
  PROVE  BufferInv'
<1>1. BufferTypeOK /\ EveryCopyAccounted
  BY DEF BufferInv
<1>2. \A c \in Chan : /\ tail'[c] \in Index /\ due'[c] \in Seq(Word)
                      /\ Count(c) = Count(c)' + (IF c \in NonEmpty THEN 1 ELSE 0)
                      /\ due'[c] = [k \in 1..Count(c)' |->
                                     data'[c][Ahead(tail'[c], k - 1)]]
  BY ChanOut
<1> DEFINE left == [c \in Chan |-> IF c \in NonEmpty THEN 1 ELSE 0]
           before == [c \in Chan |-> Count(c)]
           after == [c \in Chan |-> Count(c)']
<1>3. left \in [Chan -> Nat] /\ before \in [Chan -> Nat]
  BY <1>1, CountType
<1>4. after \in [Chan -> Nat]
  <2>1. \A c \in Chan : head'[c] \in Index /\ tail'[c] \in Index
    BY <1>1, <1>2, ChanFacts DEF TxOut
  <2>2. \A c \in Chan : Count(c)' = Distance(tail'[c], head'[c])
    BY DEF Count
  <2>3. \A c \in Chan : Count(c)' \in Nat
    BY <2>1, <2>2, DistanceFacts, NAssumption
  <2>4. QED
    BY <2>3
<1>5. \A c \in Chan : before[c] = after[c] + left[c]
  BY <1>2
<1>6. /\ NonEmpty \in SUBSET Chan
      /\ \A c \in Chan : left[c] = IF c \in NonEmpty THEN 1 ELSE 0
  BY DEF NonEmpty
<1>7. /\ copies' = copies /\ lost' = lost /\ out' = out + Cardinality(NonEmpty)
      /\ offered' = offered /\ head' = head /\ data' = data
  BY DEF TxOut
<1>8. copies = lost + out + Total(before)
  BY <1>1 DEF EveryCopyAccounted
<1>9. EveryCopyAccounted' <=> copies' = lost' + out' + Total(after)
  BY DEF EveryCopyAccounted, Total, Chan
<1>10. RingHoldsDue'
  BY <1>2 DEF RingHoldsDue, Chan
<1>11. tail' \in [Chan -> Index] /\ due' \in [Chan -> Seq(Word)]
  BY <1>2 DEF TxOut
<1> HIDE DEF left, before, after
<1>12. /\ Total(left) = Cardinality(NonEmpty) /\ Total(left) \in Nat
       /\ Total(after) \in Nat /\ Total(before) = Total(after) + Total(left)
  BY <1>3, <1>4, <1>5, <1>6, TotalType, TotalAdds, TotalOfSet
<1>13. /\ copies \in Nat /\ lost \in Nat /\ out \in Nat /\ offered \in Word
       /\ head \in [Chan -> Index] /\ data \in [Chan -> [Index -> Word]]
  BY <1>1 DEF BufferTypeOK
<1>14. EveryCopyAccounted' /\ out' \in Nat
  BY <1>7, <1>8, <1>9, <1>12, <1>13
<1>15. BufferTypeOK'
  BY <1>7, <1>11, <1>13, <1>14 DEF BufferTypeOK, Chan, Index, Word
<1>16. QED
  BY <1>10, <1>14, <1>15 DEF BufferInv

\* Whatever else runs leaves the rings alone.
LEMMA BufferUnchanged ==
  ASSUME BufferInv, UNCHANGED bufferVars
  PROVE  BufferInv'
<1>1. /\ head' = head /\ tail' = tail /\ data' = data /\ lost' = lost
      /\ offered' = offered /\ copies' = copies /\ due' = due /\ out' = out
  BY DEF bufferVars
<1>2. \A c : Count(c)' = Count(c)
  BY <1>1 DEF Count
<1>3. BufferTypeOK'
  BY <1>1 DEF BufferInv, BufferTypeOK, Chan, Index, Word
<1>4. [c \in Chan |-> Count(c)'] = [c \in Chan |-> Count(c)]
  BY <1>2
<1>5. EveryCopyAccounted'
  BY <1>1, <1>4 DEF BufferInv, EveryCopyAccounted, Total, Chan
<1>6. RingHoldsDue'
  BY <1>1, <1>2 DEF BufferInv, RingHoldsDue, Chan
<1>7. QED
  BY <1>3, <1>5, <1>6 DEF BufferInv

\* The rings start empty.
LEMMA BufferInitInv == BufferInit => BufferInv
<1> SUFFICES ASSUME BufferInit PROVE BufferInv
  OBVIOUS
<1>1. 0 \in Index /\ 0 \in Word
  BY NAssumption, MaxWordsAssumption DEF Index, Word
<1>2. BufferTypeOK
  BY <1>1 DEF BufferInit, BufferTypeOK
<1>3. \A c \in Chan : Count(c) = 0
  BY <1>1 DEF BufferInit, Count, Distance, Index
<1> DEFINE none == [c \in Chan |-> Count(c)]
<1>4. none \in [Chan -> Nat] /\ \A c \in Chan : none[c] = IF c \in {} THEN 1 ELSE 0
  BY <1>3
<1>5. Total(none) = 0
  <2> HIDE DEF none
  <2>1. QED
    BY <1>4, TotalOfSet, FS_EmptySet
<1>6. EveryCopyAccounted
  BY <1>5 DEF BufferInit, EveryCopyAccounted
<1>7. \A c \in Chan : due[c] = <<>> /\ [k \in 1..Count(c) |-> data[c][Ahead(tail[c], k - 1)]] = <<>>
  BY <1>3 DEF BufferInit
<1>8. QED
  BY <1>2, <1>6, <1>7 DEF BufferInv, RingHoldsDue

-----------------------------------------------------------------------------
(***************************************************************************)
(* The server, its clients and the engine.                                 *)
(***************************************************************************)
\* The types of everything but the rings.
ServerTypeOK ==
  /\ pc \in {"poll", "recv", "words", "stopped"}
  /\ batch_count \in 0..Batch /\ free \in 0..RingSize
  /\ asked \in [Client -> Request \cup {<<>>}]
  /\ promised \in Word /\ inbox \subseteq Client
  /\ current \in Client \cup {NoClient} /\ i \in 0..Longest
  /\ rep_header \in 0..Longest
  /\ rep_words \in [1..Longest -> Client \cup {NoClient}]
  /\ owed \subseteq Client

Places == OnePlaceEach /\ ReplyInHand /\ OneClientReplyKept

\* CmdServerInv, taken apart.
LEMMA InvParts ==
  /\ CmdServerInv <=> BufferInv /\ ServerTypeOK /\ Places
  /\ CmdServerInv' <=> BufferInv' /\ ServerTypeOK' /\ Places'
BY DEF CmdServerInv, TypeOK, BufferInv, ServerTypeOK, Places

\* A request has words, and no more than the reply buffer has room for.
LEMMA RequestFacts ==
  ASSUME ServerTypeOK, NEW c \in Client
  PROVE  /\ asked[c] \in Seq(Nat) /\ Len(asked[c]) \in 0..Longest
         /\ asked[c] # <<>> => asked[c] \in Request
         /\ <<>> \notin Request
<1>1. asked[c] \in Request \cup {<<>>}
  BY DEF ServerTypeOK
<1>2. CASE asked[c] = <<>>
  BY <1>2, RequestAssumption, LongestAssumption
<1>3. CASE asked[c] \in Request
  BY <1>3, RequestAssumption, LongestAssumption
<1>4. QED
  BY <1>1, <1>2, <1>3

\* main() starts with nobody's request.
LEMMA InitInv == Init => CmdServerInv
<1> SUFFICES ASSUME Init PROVE CmdServerInv
  OBVIOUS
<1>1. BufferInv
  BY BufferInitInv DEF Init
<1>2. /\ 0 \in 0..Batch /\ RingSize \in 0..RingSize /\ 0 \in Word /\ 0 \in 0..Longest
  BY RingSizeAssumption, MaxWordsAssumption, LongestAssumption DEF Word
<1>3. ServerTypeOK
  BY <1>2 DEF Init, ServerTypeOK
<1>4. Places
  BY DEF Init, Places, OnePlaceEach, ReplyInHand, OneClientReplyKept
<1>5. QED
  BY <1>1, <1>3, <1>4, InvParts

\* The poll: packets go to the engine, nobody's request moves.
LEMMA PollInv ==
  ASSUME CmdServerInv, PollTx \/ EndPoll
  PROVE  CmdServerInv'
<1>1. BufferInv /\ ServerTypeOK /\ Places
  BY InvParts
<1>2. BufferInv'
  BY <1>1, TxOutInv, BufferUnchanged DEF PollTx, EndPoll
<1>3. /\ UNCHANGED <<asked, promised, inbox, current, i, rep_header, rep_words, owed>>
      /\ pc = "poll" /\ pc' \in {"poll", "recv"}
  BY DEF PollTx, EndPoll, clientVars
<1>4. batch_count' \in 0..Batch /\ free' \in 0..RingSize
  BY <1>1, RingSizeAssumption DEF PollTx, EndPoll, MayHandOver, ServerTypeOK
<1>5. ServerTypeOK'
  BY <1>1, <1>3, <1>4 DEF ServerTypeOK, Word
<1>6. Places'
  BY <1>1, <1>3 DEF Places, OnePlaceEach, ReplyInHand, OneClientReplyKept
<1>7. QED
  BY <1>2, <1>5, <1>6, InvParts

\* A request is received: its client is in no other place, and the reply's
\* header announces its length.
LEMMA RecvInv ==
  ASSUME CmdServerInv, NEW c \in Client, Recv(c)
  PROVE  CmdServerInv'
<1>1. BufferInv /\ ServerTypeOK /\ Places
  BY InvParts
<1>2. BufferInv'
  BY <1>1, BufferUnchanged DEF Recv
<1>3. /\ UNCHANGED <<batch_count, rep_words, free, asked, promised, owed>>
      /\ pc = "recv" /\ c \in inbox /\ inbox' = inbox \ {c}
      /\ current' = c /\ i' = 0 /\ rep_header' = Len(asked[c]) /\ pc' = "words"
  BY DEF Recv
<1>4. Len(asked[c]) \in 0..Longest /\ 0 \in 0..Longest
  BY <1>1, RequestFacts, LongestAssumption
<1>5. ServerTypeOK'
  BY <1>1, <1>3, <1>4 DEF ServerTypeOK, Word
<1>6. OnePlaceEach'
  BY <1>1, <1>3 DEF Places, OnePlaceEach
<1>7. ReplyInHand'
  BY <1>3, <1>4 DEF ReplyInHand
<1>8. OneClientReplyKept'
  BY <1>1, <1>3 DEF Places, OnePlaceEach, OneClientReplyKept, ServerTypeOK
<1>9. QED
  BY <1>2, <1>5, <1>6, <1>7, <1>8, InvParts DEF Places

\* A word is handled: its reply word is written.
LEMMA HandleWordInv ==
  ASSUME CmdServerInv, HandleWord
  PROVE  CmdServerInv'
<1>1. BufferInv /\ ServerTypeOK /\ Places
  BY InvParts
<1>2. BufferInv'
  BY <1>1, TxInInv, BufferUnchanged DEF HandleWord
<1>3. /\ UNCHANGED <<pc, batch_count, current, rep_header, free, asked, promised,
                     inbox, owed>>
      /\ pc = "words" /\ i < Len(asked[current]) /\ i' = i + 1
      /\ rep_words' = [rep_words EXCEPT ![i + 1] = current]
  BY DEF HandleWord, clientVars
<1>4. current \in Client
  BY <1>1, <1>3 DEF Places, OnePlaceEach
<1>5. /\ Len(asked[current]) \in 0..Longest /\ i \in Nat /\ Longest \in Nat
  BY <1>1, <1>4, RequestFacts, LongestAssumption DEF ServerTypeOK
<1>6. i + 1 \in 1..Longest /\ i' \in 0..Longest /\ i' <= Len(asked[current])
  BY <1>3, <1>5
<1>7. rep_words' \in [1..Longest -> Client \cup {NoClient}]
  BY <1>1, <1>3, <1>4 DEF ServerTypeOK
<1>8. ServerTypeOK'
  BY <1>1, <1>3, <1>6, <1>7 DEF ServerTypeOK, Word
<1>9. OnePlaceEach'
  BY <1>1, <1>3 DEF Places, OnePlaceEach
<1>10. ReplyInHand'
  <2>1. \A k \in 1..i : rep_words[k] = current
    BY <1>1, <1>3 DEF Places, ReplyInHand
  <2>2. ASSUME NEW k \in 1..i + 1
        PROVE  rep_words'[k] = current
    <3>1. k \in 1..Longest /\ (k \in 1..i \/ k = i + 1)
      BY <1>5, <1>6
    <3>2. QED
      BY <1>1, <1>3, <2>1, <3>1 DEF ServerTypeOK
  <2>3. rep_header = Len(asked[current])
    BY <1>1, <1>3 DEF Places, ReplyInHand
  <2>4. QED
    BY <1>3, <1>6, <2>2, <2>3 DEF ReplyInHand
<1>11. OneClientReplyKept'
  BY <1>1, <1>3, <1>4 DEF Places, OneClientReplyKept, ServerTypeOK
<1>12. QED
  BY <1>2, <1>8, <1>9, <1>10, <1>11, InvParts DEF Places

\* The reply is complete and goes to ZeroMQ.
LEMMA SendReplyInv ==
  ASSUME CmdServerInv, SendReply
  PROVE  CmdServerInv'
<1>1. BufferInv /\ ServerTypeOK /\ Places
  BY InvParts
<1>2. BufferInv'
  BY <1>1, BufferUnchanged DEF SendReply
<1>3. /\ UNCHANGED <<batch_count, current, i, rep_header, rep_words, free, asked,
                     promised, inbox>>
      /\ pc = "words" /\ pc' = "poll" /\ i = Len(asked[current])
      /\ owed' = owed \cup {current}
  BY DEF SendReply, clientVars
<1>4. /\ current \in Client /\ current \notin inbox /\ asked[current] # <<>>
  BY <1>1, <1>3 DEF Places, OnePlaceEach
<1>5. ServerTypeOK'
  BY <1>1, <1>3, <1>4 DEF ServerTypeOK, Word
<1>6. OnePlaceEach'
  BY <1>1, <1>3, <1>4 DEF Places, OnePlaceEach
<1>7. ReplyInHand'
  BY <1>3 DEF ReplyInHand
<1>8. OneClientReplyKept'
  <2> SUFFICES ASSUME \A c, d \in Client : c = d, NEW c \in owed'
               PROVE  /\ pc' # "words" /\ rep_header' = Len(asked'[c])
                      /\ \A k \in 1..Len(asked'[c]) : rep_words'[k] = c
    BY DEF OneClientReplyKept
  <2>1. c = current
    BY <1>1, <1>3, <1>4 DEF ServerTypeOK
  <2>2. /\ rep_header = Len(asked[current])
        /\ \A k \in 1..i : rep_words[k] = current
    BY <1>1, <1>3 DEF Places, ReplyInHand
  <2>3. QED
    BY <1>3, <2>1, <2>2
<1>9. QED
  BY <1>2, <1>5, <1>6, <1>7, <1>8, InvParts DEF Places

\* A client without a request sends one.
LEMMA AskInv ==
  ASSUME CmdServerInv, NEW c \in Client, NEW r \in Request, Ask(c, r)
  PROVE  CmdServerInv'
<1>1. BufferInv /\ ServerTypeOK /\ Places
  BY InvParts
<1>2. BufferInv'
  BY <1>1, BufferUnchanged DEF Ask
<1>3. /\ UNCHANGED <<pc, batch_count, current, i, rep_header, rep_words, free, owed>>
      /\ asked[c] = <<>> /\ asked' = [asked EXCEPT ![c] = r]
      /\ inbox' = inbox \cup {c}
      /\ promised + TxWords(r) <= MaxWords /\ promised' = promised + TxWords(r)
  BY DEF Ask, mainVars
<1>4. TxWords(r) \in Nat
  <2>1. Len(r) \in Int /\ 1 \in Int
    BY RequestAssumption
  <2>2. IsFiniteSet(1..Len(r))
    BY <2>1, FS_Interval
  <2>3. IsFiniteSet({k \in 1..Len(r) : r[k] % 256 > 0})
    BY <2>2, FS_Subset
  <2>4. QED
    BY <2>3, FS_CardinalityType DEF TxWords
<1>5. promised' \in Word
  BY <1>1, <1>3, <1>4, MaxWordsAssumption DEF ServerTypeOK, Word
<1>6. ServerTypeOK'
  BY <1>1, <1>3, <1>5 DEF ServerTypeOK, Word
<1>7. /\ c \notin inbox \cup owed /\ (pc = "words" => current # c)
      /\ (pc = "words" => current \in Client) /\ r # <<>>
  BY <1>1, <1>3, RequestAssumption DEF Places, OnePlaceEach
<1>8. \A d \in Client : d # c => asked'[d] = asked[d]
  BY <1>1, <1>3 DEF ServerTypeOK
<1>9. asked'[c] = r
  BY <1>1, <1>3 DEF ServerTypeOK
<1>10. OnePlaceEach'
  BY <1>1, <1>3, <1>7, <1>8, <1>9 DEF Places, OnePlaceEach, ServerTypeOK
<1>11. ReplyInHand'
  BY <1>1, <1>3, <1>7, <1>8 DEF Places, ReplyInHand
<1>12. OneClientReplyKept'
  BY <1>1, <1>3, <1>7, <1>8 DEF Places, OneClientReplyKept, ServerTypeOK
<1>13. QED
  BY <1>2, <1>6, <1>10, <1>11, <1>12, InvParts DEF Places

\* A reply is delivered: its client was not being served.
LEMMA DeliverInv ==
  ASSUME CmdServerInv, NEW c \in Client, Deliver(c)
  PROVE  CmdServerInv'
<1>1. BufferInv /\ ServerTypeOK /\ Places
  BY InvParts
<1>2. BufferInv'
  BY <1>1, BufferUnchanged DEF Deliver
<1>3. /\ UNCHANGED <<pc, batch_count, current, i, rep_header, rep_words, free,
                     promised, inbox>>
      /\ c \in owed /\ owed' = owed \ {c}
      /\ asked' = [asked EXCEPT ![c] = <<>>]
  BY DEF Deliver, mainVars
<1>4. ServerTypeOK'
  BY <1>1, <1>3 DEF ServerTypeOK, Word
<1>5. /\ c \notin inbox /\ (pc = "words" => current # c /\ current \in Client)
  BY <1>1, <1>3 DEF Places, OnePlaceEach
<1>6. \A d \in Client : d # c => asked'[d] = asked[d]
  BY <1>1, <1>3 DEF ServerTypeOK
<1>7. OnePlaceEach'
  BY <1>1, <1>3, <1>5, <1>6 DEF Places, OnePlaceEach, ServerTypeOK
<1>8. ReplyInHand'
  BY <1>1, <1>3, <1>5, <1>6 DEF Places, ReplyInHand
<1>9. OneClientReplyKept'
  BY <1>1, <1>3, <1>6 DEF Places, OneClientReplyKept, ServerTypeOK
<1>10. QED
  BY <1>2, <1>4, <1>7, <1>8, <1>9, InvParts DEF Places

\* The engine, a failing zmq_msg_recv and steps of others.
LEMMA RestInv ==
  ASSUME CmdServerInv, Stream \/ RecvFails \/ UNCHANGED vars
  PROVE  CmdServerInv'
<1>1. BufferInv /\ ServerTypeOK /\ Places
  BY InvParts
<1>2. BufferInv'
  BY <1>1, BufferUnchanged DEF Stream, RecvFails, vars
<1>3. /\ UNCHANGED <<batch_count, current, i, rep_header, rep_words, asked,
                     promised, inbox, owed>>
      /\ pc' = pc \/ (pc = "recv" /\ pc' = "stopped")
  BY DEF Stream, RecvFails, vars, mainVars, clientVars
<1>4. free' \in 0..RingSize
  BY <1>1, RingSizeAssumption DEF Stream, RecvFails, vars, ServerTypeOK
<1>5. ServerTypeOK'
  BY <1>1, <1>3, <1>4 DEF ServerTypeOK, Word
<1>6. Places'
  BY <1>1, <1>3 DEF Places, OnePlaceEach, ReplyInHand, OneClientReplyKept
<1>7. QED
  BY <1>2, <1>5, <1>6, InvParts

LEMMA StepInv == CmdServerInv /\ [Next]_vars => CmdServerInv'
BY PollInv, RecvInv, HandleWordInv, SendReplyInv, AskInv, DeliverInv, RestInv
   DEF Next, Server

-----------------------------------------------------------------------------
(***************************************************************************)
(* The results.                                                            *)
(***************************************************************************)
\* For up to 62 channels, any clients and every ring, batch and set of
\* requests: tx_buffer_in and tx_buffer_out lose, double and reorder no word
\* uncounted, and main() has one reply in the making.
THEOREM CmdServerCorrect == Spec => []CmdServerInv
<1>1. Spec => []CmdServerInv
  BY InitInv, StepInv, PTL DEF Spec
<1>2. QED
  BY <1>1

\* With one client, the reply that the static rep_msg carries when ZeroMQ
\* sends it announces and answers that client's request.
THEOREM OneClientReplies ==
  ASSUME \A c, d \in Client : c = d
  PROVE  Spec => ReplyMatchesRequest
<1>1. CmdServerInv /\ [Next]_vars =>
        [\A c \in owed : c \notin owed' =>
           /\ rep_header = Len(asked[c])
           /\ \A k \in 1..Len(asked[c]) : rep_words[k] = c]_vars
  BY DEF CmdServerInv, OneClientReplyKept
<1>2. QED
  BY <1>1, CmdServerCorrect, PTL DEF Spec, ReplyMatchesRequest

=============================================================================
