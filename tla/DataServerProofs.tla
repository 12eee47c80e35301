-------------------------- MODULE DataServerProofs --------------------------
(***************************************************************************)
(* DataServerInv is an inductive invariant of DataServer for every ring,   *)
(* every batch and any number of subscribers; what each subscriber gets    *)
(* and that the message buffer is not written under ZeroMQ follow from it. *)
(***************************************************************************)
EXTENDS DataServer, TLAPS

-----------------------------------------------------------------------------
(***************************************************************************)
(* Arithmetic in a ring of N slots.                                        *)
(***************************************************************************)
\* NextSlot stays in the ring and no two slots have the same successor.
LEMMA NextSlotFacts ==
  /\ \A i \in Index : NextSlot(i) \in Index
  /\ \A i, j \in Index : NextSlot(i) = NextSlot(j) => i = j
BY NAssumption DEF Index, NextSlot

\* Ahead stays in the ring, and counting on by one is taking the successor.
LEMMA AheadFacts ==
  ASSUME NEW i \in Index
  PROVE  /\ \A k \in 0..N : Ahead(i, k) \in Index
         /\ \A k \in 0..N-1 : NextSlot(Ahead(i, k)) = Ahead(i, k + 1)
         /\ \A k \in 0..N-1 : Ahead(NextSlot(i), k) = Ahead(i, k + 1)
         /\ \A k, m \in 0..N-1 : Ahead(i, k) = Ahead(i, m) => k = m
         /\ Ahead(i, 0) = i /\ Ahead(i, N) = i
BY NAssumption DEF Index, NextSlot, Ahead

\* Distance is the inverse of Ahead.
LEMMA DistanceFacts ==
  ASSUME NEW i \in Index
  PROVE  /\ \A j \in Index : Distance(i, j) \in 0..N-1
         /\ \A k \in 0..N-1 : Distance(i, Ahead(i, k)) = k
         /\ \A j \in Index : Ahead(i, Distance(i, j)) = j
         /\ \A j \in Index : j # i => Distance(NextSlot(i), j) = Distance(i, j) - 1
         /\ Distance(NextSlot(i), i) = N - 1
BY NAssumption DEF Index, NextSlot, Ahead, Distance

-----------------------------------------------------------------------------
(***************************************************************************)
(* The ring: rx_buffer_in puts a word behind the others, rx_buffer_out     *)
(* takes the first one.                                                    *)
(***************************************************************************)
\* A ring of N slots holds at most N - 1 words.
LEMMA CountRange == BufferTypeOK => Count \in 0..N-1
BY DistanceFacts DEF BufferTypeOK, Count

\* The test of rx_buffer_in for a full ring is the one for N - 1 words.
LEMMA FullFact == BufferTypeOK => (Full <=> Count = N - 1)
BY NAssumption DEF BufferTypeOK, Full, Count, Distance, NextSlot, Index

\* Every word that arrived was lost, is in the ring or has left it.
Accounted == arrived = lost + Count + taken

\* rx_buffer_in: the word goes behind the others or counts as lost.
LEMMA RxInFacts ==
  ASSUME BufferTypeOK, Accounted, RxIn
  PROVE  /\ arrived' = arrived + 1 /\ taken' = taken /\ tail' = tail
         /\ BufferTypeOK' /\ Accounted'
         /\ \A k \in 1..Count : InRing(k)' = InRing(k)
         /\ \/ Count' = Count + 1 /\ InRing(Count)' = arrived + 1
            \/ Count' = Count
<1> USE CountRange, NAssumption, MaxWordsAssumption
<1>1. CASE Full
  <2>1. /\ lost' = lost + 1 /\ arrived' = arrived + 1
        /\ UNCHANGED <<head, tail, data, max, taken>>
    BY <1>1 DEF RxIn
  <2>2. Count' = Count
    BY <2>1 DEF Count
  <2>3. \A k \in 1..Count : InRing(k)' = InRing(k)
    BY <2>1 DEF InRing
  <2>4. BufferTypeOK' /\ Accounted'
    BY <2>1, <2>2 DEF BufferTypeOK, Accounted, Word, RxIn
  <2>5. QED
    BY <2>1, <2>2, <2>3, <2>4
<1>2. CASE ~Full
  <2>1. /\ data' = [data EXCEPT ![head] = arrived + 1]
        /\ head' = NextSlot(head)
        /\ max' = IF Count + 1 > max THEN Count + 1 ELSE max
        /\ arrived' = arrived + 1
        /\ UNCHANGED <<tail, lost, taken>>
    BY <1>2 DEF RxIn
  <2>2. Count < N - 1
    BY <1>2, FullFact
  <2>3. /\ head = Ahead(tail, Count) /\ head' = Ahead(tail, Count + 1)
        /\ head' \in Index
    BY <2>1, <2>2, DistanceFacts, AheadFacts, NextSlotFacts
       DEF Count, BufferTypeOK
  <2>4. Count' = Count + 1
    BY <2>1, <2>2, <2>3, DistanceFacts DEF Count, BufferTypeOK
  <2>5. \A k \in 1..Count : InRing(k)' = InRing(k)
    <3> TAKE k \in 1..Count
    <3>1. Ahead(tail, k - 1) # head /\ Ahead(tail, k - 1) \in Index
      BY <2>2, <2>3, AheadFacts DEF BufferTypeOK
    <3>2. QED
      BY <2>1, <3>1 DEF InRing, BufferTypeOK
  <2>6. InRing(Count)' = arrived + 1
    BY <2>1, <2>3, <2>4, AheadFacts DEF InRing, BufferTypeOK
  <2>7. BufferTypeOK' /\ Accounted'
    BY <2>1, <2>2, <2>3, <2>4 DEF BufferTypeOK, Accounted, Word, RxIn
  <2>8. QED
    BY <2>1, <2>4, <2>5, <2>6, <2>7
<1>3. QED
  BY <1>1, <1>2

\* rx_buffer_out: the first word leaves, the others move up by one.
LEMMA RxOutFacts ==
  ASSUME BufferTypeOK, Accounted, RxOut
  PROVE  /\ Count > 0 /\ Count' = Count - 1
         /\ arrived' = arrived
         /\ BufferTypeOK' /\ Accounted'
         /\ data[tail] = InRing(1)
         /\ \A k \in 1..Count - 1 : InRing(k)' = InRing(k + 1)
<1> USE CountRange, NAssumption, MaxWordsAssumption
<1>1. /\ Count # 0 /\ tail' = NextSlot(tail) /\ taken' = taken + 1
      /\ UNCHANGED <<head, data, lost, max, arrived>>
  BY DEF RxOut
<1>2. tail' \in Index
  BY <1>1, NextSlotFacts DEF BufferTypeOK
<1>3. Count' = Count - 1
  <2>1. tail # head
    BY <1>1 DEF Count, Distance, BufferTypeOK, Index
  <2>2. QED
    BY <1>1, <2>1, DistanceFacts DEF Count, BufferTypeOK
<1>4. BufferTypeOK' /\ Accounted'
  BY <1>1, <1>2, <1>3 DEF BufferTypeOK, Accounted, Word
<1>5. data[tail] = InRing(1)
  BY AheadFacts DEF InRing, BufferTypeOK
<1>6. ASSUME NEW k \in 1..Count - 1
      PROVE  InRing(k)' = InRing(k + 1)
  BY <1>1, AheadFacts DEF InRing, BufferTypeOK
<1>7. QED
  BY <1>1, <1>3, <1>4, <1>5, <1>6

-----------------------------------------------------------------------------
(***************************************************************************)
(* The invariant.                                                          *)
(***************************************************************************)
\* The words of the ring are in the order they arrived.
RingInOrder == \A k, m \in 1..Count : k < m => InRing(k) < InRing(m)

\* Steps that leave the ring alone leave what is said of it.
LEMMA RingUnchanged ==
  ASSUME UNCHANGED bufferVars
  PROVE  /\ Count' = Count /\ \A k : InRing(k)' = InRing(k)
         /\ UNCHANGED bufferVars
         /\ BufferTypeOK' <=> BufferTypeOK
         /\ Accounted' <=> Accounted
         /\ RingInOrder' <=> RingInOrder
<1> USE DEF bufferVars
<1>1. Count' = Count /\ \A k : InRing(k)' = InRing(k)
  BY DEF Count, InRing
<1>2. QED
  BY <1>1 DEF BufferTypeOK, Accounted, RingInOrder

\* The conjuncts of DataServerInv, in the form the steps below use.
LEMMA InvParts ==
  DataServerInv <=> /\ TypeOK /\ Accounted /\ RingInOrder
                    /\ NeverUnderflows /\ OneOwner /\ WordsInOrder
BY DEF DataServerInv, NothingVanishes, Accounted, RingInOrder

\* The words that arrived are numbers, those in the ring too.
LEMMA InRingWord ==
  ASSUME BufferTypeOK, NEW k \in 1..Count
  PROVE  InRing(k) \in Word
BY CountRange, AheadFacts, NAssumption DEF InRing, BufferTypeOK

\* At the start everything is empty.
LEMMA InitInv == Init => DataServerInv
<1> SUFFICES ASSUME Init PROVE DataServerInv
  OBVIOUS
<1>1. BufferTypeOK /\ Count = 0
  BY NAssumption, MaxWordsAssumption
  DEF Init, BufferInit, BufferTypeOK, Index, Word, Count, Distance
<1>2. TypeOK
  <2>1. /\ available \in 0..MaxBatch /\ filled \in 0..MaxBatch /\ sent \in 0..MaxBatch
        /\ n_bytes \in 0 .. NBytesRange - 1 /\ 0 \in Word
    BY BatchAssumption, BytesAssumption, MaxWordsAssumption DEF Init, Word
  <2>2. QED
    BY <1>1, <2>1 DEF Init, TypeOK
<1>3. Accounted /\ RingInOrder
  BY <1>1 DEF Init, BufferInit, Accounted, RingInOrder
<1>4. NeverUnderflows /\ OneOwner
  BY DEF Init, NeverUnderflows, OneOwner
<1>5. WordsInOrder
  BY <1>1 DEF Init, BufferInit, WordsInOrder, InMessage
<1>6. QED
  BY <1>2, <1>3, <1>4, <1>5, InvParts

\* pacman_poll_rx.
LEMMA PollRxInv == DataServerInv /\ PollRx => DataServerInv'
<1> SUFFICES ASSUME DataServerInv, PollRx PROVE DataServerInv'
  OBVIOUS
<1>1. TypeOK /\ Accounted /\ RingInOrder /\ NeverUnderflows /\ OneOwner /\ WordsInOrder
  BY InvParts
<1>2. /\ RxIn /\ pc = "poll"
      /\ UNCHANGED <<mainVars, msg_ready, expired, zmqVars>>
  BY DEF PollRx
<1>3. /\ arrived' = arrived + 1
      /\ BufferTypeOK' /\ Accounted'
      /\ \A k \in 1..Count : InRing(k)' = InRing(k)
      /\ \/ Count' = Count + 1 /\ InRing(Count)' = arrived + 1
         \/ Count' = Count
  BY <1>1, <1>2, RxInFacts DEF TypeOK
<1>4. /\ Count \in Nat /\ arrived \in Nat /\ \A k \in 1..Count : InRing(k) \in Nat
  BY <1>1, CountRange, NAssumption, InRingWord DEF TypeOK, BufferTypeOK, Word
<1>5. \A k \in 1..Count' : \/ k \in 1..Count /\ InRing(k)' = InRing(k)
                           \/ k = Count + 1 /\ InRing(k)' = arrived + 1
  BY <1>3, <1>4
<1>6. TypeOK'
  BY <1>1, <1>2, <1>3 DEF TypeOK, mainVars, zmqVars
<1>7. RingInOrder'
  BY <1>1, <1>4, <1>5 DEF RingInOrder, WordsInOrder
<1>8. NeverUnderflows' /\ OneOwner'
  BY <1>1, <1>2 DEF NeverUnderflows, OneOwner, mainVars, zmqVars
<1>9. WordsInOrder'
  <2>1. InMessage' = InMessage /\ 1..InMessage \subseteq 1..MaxBatch
    BY <1>1, <1>2, BatchAssumption DEF InMessage, TypeOK, mainVars, zmqVars
  <2>2. /\ \A k \in 1..InMessage : msg_buffer'[k] = msg_buffer[k] /\ msg_buffer[k] \in Nat
        /\ \A s \in Subscriber : received'[s] = received[s] /\ received[s] \in Nat
        /\ held' = held /\ owed' = owed
    BY <1>1, <1>2, <2>1 DEF TypeOK, mainVars, zmqVars, Word
  <2>3. /\ \A k, m \in 1..InMessage' : k < m => msg_buffer'[k] < msg_buffer'[m]
        /\ \A k \in 1..InMessage' : msg_buffer'[k] <= arrived'
    BY <1>1, <1>3, <1>4, <2>1, <2>2 DEF WordsInOrder
  <2>4. \A k \in 1..InMessage', j \in 1..Count' : msg_buffer'[k] < InRing(j)'
    BY <1>1, <1>4, <1>5, <2>1, <2>2 DEF WordsInOrder
  <2>5. \A s \in Subscriber, k \in 1..InMessage' :
          (held' => s \in owed') => received'[s] < msg_buffer'[k]
    BY <1>1, <2>1, <2>2 DEF WordsInOrder
  <2>6. \A s \in Subscriber : received'[s] <= arrived'
    BY <1>1, <1>3, <1>4, <2>2 DEF WordsInOrder
  <2>7. \A s \in Subscriber, j \in 1..Count' : received'[s] < InRing(j)'
    BY <1>1, <1>4, <1>5, <2>2 DEF WordsInOrder
  <2>8. \A j \in 1..Count' : InRing(j)' <= arrived'
    BY <1>1, <1>3, <1>4, <1>5 DEF WordsInOrder
  <2>9. QED
    BY <2>3, <2>4, <2>5, <2>6, <2>7, <2>8 DEF WordsInOrder
<1>10. QED
  BY <1>3, <1>6, <1>7, <1>8, <1>9
  DEF DataServerInv, NothingVanishes, Accounted, RingInOrder

\* rx_buffer_out into the message.
LEMMA CopyWordInv == DataServerInv /\ CopyWord => DataServerInv'
<1> SUFFICES ASSUME DataServerInv, CopyWord PROVE DataServerInv'
  OBVIOUS
<1>1. TypeOK /\ Accounted /\ RingInOrder /\ NeverUnderflows /\ OneOwner /\ WordsInOrder
  BY InvParts
<1>2. pc = "fill" /\ filled < available /\ Count # 0 /\ ~held
  <2>1. Count \in Nat
    BY <1>1, CountRange, NAssumption DEF TypeOK
  <2>2. QED
    BY <1>1, <2>1, BatchAssumption DEF CopyWord, NeverUnderflows, OneOwner, TypeOK
<1>3. /\ RxOut /\ filled' = filled + 1
      /\ msg_buffer' = [msg_buffer EXCEPT ![filled + 1] = data[tail]]
      /\ UNCHANGED <<available, expired, pc, n_bytes, msg_ready, zmqVars>>
  BY <1>2 DEF CopyWord
<1>4. /\ Count > 0 /\ Count' = Count - 1 /\ arrived' = arrived
      /\ BufferTypeOK' /\ Accounted'
      /\ data[tail] = InRing(1)
      /\ \A k \in 1..Count - 1 : InRing(k)' = InRing(k + 1)
  BY <1>1, <1>3, RxOutFacts DEF TypeOK
<1>5. /\ Count \in Nat /\ arrived \in Nat /\ \A k \in 1..Count : InRing(k) \in Word
  BY <1>1, CountRange, NAssumption, InRingWord DEF TypeOK, BufferTypeOK, Word
<1>6. /\ filled \in Nat /\ available \in 0..MaxBatch /\ filled + 1 \in 1..MaxBatch
      /\ \A k \in 1..filled : msg_buffer'[k] = msg_buffer[k] /\ msg_buffer[k] \in Word
      /\ msg_buffer'[filled + 1] = InRing(1) /\ InRing(1) \in Word
  BY <1>1, <1>2, <1>3, <1>4, <1>5, BatchAssumption DEF TypeOK
<1>7. TypeOK'
  BY <1>1, <1>3, <1>4, <1>6 DEF TypeOK, zmqVars
<1>8. RingInOrder'
  BY <1>1, <1>4, <1>5 DEF RingInOrder
<1>9. NeverUnderflows' /\ OneOwner'
  BY <1>1, <1>2, <1>3, <1>4, <1>5, <1>6 DEF NeverUnderflows, OneOwner, zmqVars
<1>10. InMessage = filled /\ InMessage' = filled + 1
  BY <1>2, <1>3 DEF InMessage, zmqVars
<1>11. WordsInOrder'
  <2> USE DEF Word
  <2>1. \A k, m \in 1..InMessage' : k < m => msg_buffer'[k] < msg_buffer'[m]
    BY <1>1, <1>4, <1>5, <1>6, <1>10 DEF WordsInOrder
  <2>2. \A k \in 1..InMessage' : msg_buffer'[k] <= arrived'
    BY <1>1, <1>4, <1>5, <1>6, <1>10 DEF WordsInOrder
  <2>3. \A k \in 1..InMessage', j \in 1..Count' : msg_buffer'[k] < InRing(j)'
    BY <1>1, <1>4, <1>5, <1>6, <1>10 DEF WordsInOrder, RingInOrder
  <2>4. \A s \in Subscriber, k \in 1..InMessage' :
          (held' => s \in owed') => received'[s] < msg_buffer'[k]
    BY <1>1, <1>2, <1>3, <1>4, <1>5, <1>6, <1>10 DEF WordsInOrder, zmqVars
  <2>5. \A s \in Subscriber : received'[s] <= arrived'
    BY <1>1, <1>3, <1>4 DEF WordsInOrder, zmqVars
  <2>6. \A s \in Subscriber, j \in 1..Count' : received'[s] < InRing(j)'
    BY <1>1, <1>3, <1>4, <1>5 DEF WordsInOrder, zmqVars
  <2>7. \A j \in 1..Count' : InRing(j)' <= arrived'
    BY <1>1, <1>4, <1>5 DEF WordsInOrder
  <2>8. QED
    BY <2>1, <2>2, <2>3, <2>4, <2>5, <2>6, <2>7 DEF WordsInOrder
<1>12. QED
  BY <1>4, <1>7, <1>8, <1>9, <1>11
  DEF DataServerInv, NothingVanishes, Accounted, RingInOrder

\* Steps that leave the ring and the contents of the message alone: words may
\* leave the message, and subscribers who wait for it.
LEMMA RingLeftAlone ==
  ASSUME DataServerInv, UNCHANGED <<bufferVars, msg_buffer, received>>,
         TypeOK', NeverUnderflows', OneOwner',
         InMessage' \in 0..InMessage,
         \A s \in Subscriber :
           InMessage' > 0 /\ (held' => s \in owed') => (held => s \in owed)
  PROVE  DataServerInv'
<1>1. Accounted /\ RingInOrder /\ WordsInOrder /\ TypeOK
  BY InvParts
<1>2. /\ Count' = Count /\ \A k : InRing(k)' = InRing(k)
      /\ Accounted' /\ RingInOrder'
  BY <1>1, RingUnchanged
<1>3. arrived' = arrived /\ msg_buffer' = msg_buffer /\ received' = received
  BY DEF bufferVars
<1>4. InMessage \in Nat
  BY <1>1, BatchAssumption DEF InMessage, TypeOK
<1>5. WordsInOrder'
  BY <1>1, <1>2, <1>3, <1>4 DEF WordsInOrder
<1>6. QED
  BY <1>2, <1>5 DEF DataServerInv, NothingVanishes, Accounted, RingInOrder

\* The steps of the loop between the poll and the copying of words and after it.
LEMMA RestOfLoopInv ==
  ASSUME DataServerInv, NEW S \in SUBSET Subscriber,
         EndPoll \/ Check \/ WriteHeader \/ InitFails \/ SendFails \/ Send(S)
  PROVE  DataServerInv'
<1>1. TypeOK /\ NeverUnderflows /\ OneOwner /\ Count \in Nat
  BY InvParts, CountRange, NAssumption DEF TypeOK
<1>2. UNCHANGED bufferVars => Count' = Count /\ (BufferTypeOK' <=> BufferTypeOK)
  BY RingUnchanged
<1> USE DEF TypeOK, NeverUnderflows, OneOwner, InMessage, mainVars, zmqVars
<1>3. CASE EndPoll
  <2>1. TypeOK' /\ NeverUnderflows' /\ OneOwner' /\ InMessage' = InMessage
    BY <1>1, <1>2, <1>3 DEF EndPoll
  <2>2. QED
    BY <1>1, <1>3, <2>1, BatchAssumption, RingLeftAlone DEF EndPoll
<1>4. CASE Check
  <2>1. Available \in 0..MaxBatch /\ Available <= Count
    BY <1>1, BatchAssumption DEF Available
  <2>2. TypeOK' /\ NeverUnderflows'
    BY <1>1, <1>2, <1>4, <2>1, BatchAssumption DEF Check
  <2>3. OneOwner' /\ InMessage' \in 0..InMessage
    BY <1>1, <1>4, <2>1, BatchAssumption DEF Check, Flush
  <2>4. QED
    BY <1>1, <1>4, <2>2, <2>3, RingLeftAlone DEF Check
<1>5. CASE WriteHeader
  <2>1. (available * WordBytes) % NBytesRange \in 0 .. NBytesRange - 1
    BY <1>1, BytesAssumption, BatchAssumption
  <2>2. TypeOK' /\ NeverUnderflows'
    BY <1>1, <1>2, <1>5, <2>1 DEF WriteHeader
  <2>3. OneOwner' /\ InMessage' = InMessage
    BY <1>1, <1>5, BatchAssumption DEF WriteHeader
  <2>4. QED
    BY <1>1, <1>5, <2>2, <2>3, BatchAssumption, RingLeftAlone DEF WriteHeader
<1>6. CASE InitFails \/ SendFails
  <2>1. 0 \in 0..MaxBatch
    BY BatchAssumption
  <2>2. TypeOK'
    BY <1>1, <1>2, <1>6, <2>1 DEF InitFails, SendFails, NextRound
  <2>3. NeverUnderflows' /\ OneOwner' /\ InMessage' = 0
    BY <1>1, <1>6 DEF InitFails, SendFails, NextRound
  <2>4. QED
    BY <1>1, <1>6, <2>2, <2>3, BatchAssumption, RingLeftAlone
    DEF InitFails, SendFails, NextRound
<1>7. CASE Send(S)
  <2>1. 0 \in 0..MaxBatch
    BY BatchAssumption
  <2>2. TypeOK'
    BY <1>1, <1>2, <1>7, <2>1 DEF Send, NextRound
  <2>3. NeverUnderflows' /\ OneOwner' /\ InMessage' = InMessage
    BY <1>1, <1>7 DEF Send, NextRound
  <2>4. QED
    BY <1>1, <1>7, <2>2, <2>3, BatchAssumption, RingLeftAlone DEF Send, NextRound
<1>8. QED
  BY <1>3, <1>4, <1>5, <1>6, <1>7

\* The message goes out to one more subscriber.
LEMMA TransmitInv ==
  ASSUME DataServerInv, NEW s \in Subscriber, Transmit(s)
  PROVE  DataServerInv'
<1>1. /\ TypeOK /\ Accounted /\ RingInOrder /\ NeverUnderflows /\ OneOwner
      /\ WordsInOrder /\ Count \in Nat
  BY InvParts, CountRange, NAssumption DEF TypeOK
<1>2. /\ held /\ s \in owed /\ owed' = owed \ {s}
      /\ received' = [received EXCEPT ![s] = IF sent = 0 THEN received[s] ELSE msg_buffer[sent]]
      /\ UNCHANGED <<bufferVars, mainVars, msg_ready, expired, held, sent, init_failed>>
  BY DEF Transmit
<1>3. /\ Count' = Count /\ \A k : InRing(k)' = InRing(k) /\ arrived' = arrived
      /\ Accounted' /\ RingInOrder' /\ BufferTypeOK'
  BY <1>1, <1>2, RingUnchanged DEF TypeOK, bufferVars
<1>4. InMessage = sent /\ InMessage' = sent /\ msg_buffer' = msg_buffer /\ sent \in 0..MaxBatch
  BY <1>1, <1>2 DEF InMessage, mainVars, TypeOK
<1>5. /\ received' \in [Subscriber -> Word]
      /\ \A r \in Subscriber : r # s => received'[r] = received[r]
      /\ received'[s] = IF sent = 0 THEN received[s] ELSE msg_buffer[sent]
  BY <1>1, <1>2, <1>4, BatchAssumption DEF TypeOK
<1>6. TypeOK'
  BY <1>1, <1>2, <1>3, <1>5 DEF TypeOK, mainVars
<1>7. NeverUnderflows' /\ OneOwner'
  BY <1>1, <1>2, <1>3 DEF NeverUnderflows, OneOwner, mainVars
<1>8. WordsInOrder'
  <2>1. sent # 0 => sent \in 1..sent
    BY <1>4, BatchAssumption
  <2>2. \A r \in Subscriber : received'[r] <= arrived'
    BY <1>1, <1>3, <1>4, <1>5, <2>1 DEF WordsInOrder
  <2>3. \A r \in Subscriber, j \in 1..Count' : received'[r] < InRing(j)'
    BY <1>1, <1>3, <1>4, <1>5, <2>1 DEF WordsInOrder
  <2>4. \A r \in Subscriber, k \in 1..InMessage' :
          (held' => r \in owed') => received'[r] < msg_buffer'[k]
    BY <1>1, <1>2, <1>4, <1>5 DEF WordsInOrder
  <2>5. QED
    BY <1>1, <1>3, <1>4, <2>2, <2>3, <2>4 DEF WordsInOrder
<1>9. QED
  BY <1>3, <1>6, <1>7, <1>8 DEF DataServerInv, NothingVanishes, Accounted, RingInOrder

\* clear_msg, the passing of time and stuttering leave the ring alone.
LEMMA RestInv ==
  ASSUME DataServerInv, ClearMsg \/ Expire \/ UNCHANGED vars
  PROVE  DataServerInv'
<1>1. TypeOK /\ NeverUnderflows /\ OneOwner
  BY InvParts
<1>2. UNCHANGED <<bufferVars, mainVars, received>>
  BY DEF ClearMsg, Expire, vars, zmqVars
<1>3. Count' = Count /\ (BufferTypeOK' <=> BufferTypeOK)
  BY <1>2, RingUnchanged
<1>4. TypeOK'
  BY <1>1, <1>2, <1>3 DEF TypeOK, ClearMsg, Expire, vars, mainVars, zmqVars
<1>5. NeverUnderflows' /\ OneOwner'
  BY <1>1, <1>2, <1>3
  DEF NeverUnderflows, OneOwner, ClearMsg, Expire, vars, mainVars, zmqVars
<1>6. /\ InMessage' \in 0..InMessage
      /\ InMessage' > 0 => held' = held /\ owed' = owed
  BY <1>1, BatchAssumption
  DEF InMessage, TypeOK, OneOwner, ClearMsg, Expire, vars, mainVars, zmqVars
<1>7. QED
  BY <1>2, <1>4, <1>5, <1>6, RingLeftAlone DEF mainVars

\* The inductive invariant: types, accounting, ownership of the message buffer
\* and the order of words, in every reachable state.
THEOREM DataServerCorrect == Spec => []DataServerInv
<1>1. DataServerInv /\ [Next]_vars => DataServerInv'
  BY PollRxInv, CopyWordInv, RestOfLoopInv, TransmitInv, RestInv DEF Next, Main
<1>2. QED
  BY InitInv, <1>1, PTL DEF Spec

\* ZeroMQ's message is never written by the loop: while it is held the buffer is
\* not main()'s, by OneOwner.
THEOREM HeldNotWritten == Spec => HeldBufferNotWritten
<1>1. DataServerInv /\ [Next]_vars => [held => UNCHANGED <<msg_buffer, n_bytes>>]_vars
  <2> SUFFICES ASSUME DataServerInv, Next, held
               PROVE  UNCHANGED <<msg_buffer, n_bytes>>
    BY DEF vars, mainVars
  <2>1. pc # "fill"
    BY DEF DataServerInv, OneOwner
  <2>2. QED
    BY <2>1 DEF Next, Main, PollRx, EndPoll, Check, CopyWord, WriteHeader, InitFails,
         SendFails, Send, NextRound, Transmit, ClearMsg, Expire, mainVars
<1>2. QED
  BY <1>1, DataServerCorrect, PTL DEF Spec, HeldBufferNotWritten

\* Each subscriber gets words in the order they arrived, none twice, however
\* many messages failed, were dropped or were never sent to it.
THEOREM WordsOnceInOrder == Spec => EachWordOnceInOrder
<1> DEFINE Sees(s) == /\ \A k \in 1..sent : msg_buffer[k] > received[s]
                      /\ \A k, m \in 1..sent : k < m => msg_buffer[k] < msg_buffer[m]
<1>1. DataServerInv /\ [Next]_vars => [\A s \in owed : s \notin owed' => Sees(s)]_vars
  <2> SUFFICES ASSUME DataServerInv, NEW s \in owed PROVE Sees(s)
    OBVIOUS
  <2>1. held /\ s \in Subscriber /\ InMessage = sent
    BY DEF DataServerInv, TypeOK, OneOwner, InMessage
  <2>2. \A k \in 1..sent : msg_buffer[k] \in Nat /\ received[s] \in Nat
    BY <2>1, BatchAssumption DEF DataServerInv, TypeOK, Word
  <2>3. QED
    BY <2>1, <2>2 DEF DataServerInv, WordsInOrder
<1>2. QED
  BY <1>1, DataServerCorrect, PTL DEF Spec, EachWordOnceInOrder

=============================================================================
