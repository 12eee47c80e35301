------------------------------ MODULE DmaProofs -----------------------------
(***************************************************************************)
(* RingInv is inductive for every ring size, batch size and depth of       *)
(* prefetch: each step of the driver and of the engine preserves it.  From *)
(* it follow the theorems about the transmit and the receive ring, for     *)
(* every set of packets: either is a bounded queue.                        *)
(***************************************************************************)
EXTENDS DmaTx, DmaRx, SequenceTheorems, TLAPS

-----------------------------------------------------------------------------
(***************************************************************************)
(* Arithmetic in a ring of N slots.                                        *)
(***************************************************************************)
\* NextSlot stays in the ring and no two slots have the same successor.
LEMMA NextSlotFacts ==
  /\ \A i \in Index : NextSlot(i) \in Index
  /\ \A i, j \in Index : NextSlot(i) = NextSlot(j) => i = j
BY NAssumption DEF Index, NextSlot

\* Ahead stays in the ring, and counting on by one is taking the successor.
LEMMA AheadFacts ==
  ASSUME NEW i \in Index
  PROVE  /\ \A k \in 0..N : Ahead(i, k) \in Index
         /\ \A k \in 0..N-1 : NextSlot(Ahead(i, k)) = Ahead(i, k + 1)
         /\ \A k \in 0..N-1 : Ahead(NextSlot(i), k) = Ahead(i, k + 1)
         /\ \A k, m \in 0..N-1 : Ahead(i, k) = Ahead(i, m) => k = m
         /\ Ahead(i, 0) = i /\ Ahead(i, N) = i
BY NAssumption DEF Index, NextSlot, Ahead

\* Distance is the inverse of Ahead.
LEMMA DistanceFacts ==
  ASSUME NEW i \in Index
  PROVE  /\ \A j \in Index : Distance(i, j) \in 0..N-1
         /\ \A k \in 0..N-1 : Distance(i, Ahead(i, k)) = k
         /\ \A j \in Index : Ahead(i, Distance(i, j)) = j
         /\ \A j \in Index : j # i => Distance(NextSlot(i), j) = Distance(i, j) - 1
         /\ Distance(NextSlot(i), i) = N - 1
BY NAssumption DEF Index, NextSlot, Ahead, Distance

-----------------------------------------------------------------------------
USE NAssumption, BatchAssumption, PrefetchAssumption

-----------------------------------------------------------------------------
(***************************************************************************)
(* The driver's steps.                                                     *)
(***************************************************************************)
\* A new poll starts with nothing in the batch.
LEMMA StartPollInv == RingInv /\ StartPoll => RingInv'
BY DEF RingInv, StartPoll, RingTypeOK, Pointers, Segment, RestingNotFull, PollState,
       InFlight, engineVars

\* What dma_next_available_*_bd has found stays true.
LEMMA ReadCurrentInv == RingInv /\ ReadCurrent => RingInv'
<1> SUFFICES ASSUME RingInv, ReadCurrent PROVE RingInv'
  OBVIOUS
<1>1. RingTypeOK'
  BY NextSlotFacts DEF RingInv, ReadCurrent, RingTypeOK, engineVars
<1>2. (Pointers /\ Segment /\ RestingNotFull)'
  BY DEF RingInv, ReadCurrent, Pointers, Segment, RestingNotFull, InFlight, engineVars
<1>3. PollState'
  BY DEF RingInv, ReadCurrent, PollState, engineVars
<1> QED
  BY <1>1, <1>2, <1>3 DEF RingInv

\* The status read is acted on only if it was COMPLETE.
LEMMA ReadStatusInv == RingInv /\ ReadStatus => RingInv'
<1> SUFFICES ASSUME RingInv, ReadStatus PROVE RingInv'
  OBVIOUS
<1>1. RingTypeOK'
  BY DEF RingInv, ReadStatus, RingTypeOK, engineVars
<1>2. (Pointers /\ Segment /\ RestingNotFull)'
  BY DEF RingInv, ReadStatus, Pointers, Segment, RestingNotFull, InFlight, engineVars
<1>3. PollState'
  BY DEF RingInv, ReadStatus, PollState, engineVars
<1> QED
  BY <1>1, <1>2, <1>3 DEF RingInv

\* When the poll adds a BD the ring has room for it, and an engine at rest
\* leaves room for one more.
LEMMA RoomForBd ==
  ASSUME RingInv, pc = "use"
  PROVE  /\ InFlight \in 0..N-1
         /\ fetched = 0 => InFlight < N - 1
         /\ nxta = Ahead(write_back, InFlight)
<1>1. /\ InFlight \in 0..N /\ write_back \in Index /\ nxta \in Index /\ curdesc \in Index
      /\ complete[nxta]
      /\ nxta = Ahead(write_back, InFlight)
      /\ nxta # curdesc
  BY DEF RingInv, RingTypeOK, Pointers, PollState, InFlight
<1>2. Distance(write_back, nxta) >= InFlight
  BY <1>1 DEF RingInv, Segment
<1>3. InFlight # N
  BY <1>1, <1>2, DistanceFacts
<1>4. ASSUME fetched = 0 PROVE InFlight # N - 1
  <2>1. NextSlot(curdesc) = write_back
    BY <1>1, <1>4, AheadFacts DEF RingInv, Pointers
  <2>2. NextSlot(Ahead(write_back, N - 1)) = write_back
    BY <1>1, AheadFacts
  <2>3. Ahead(write_back, N - 1) = curdesc
    BY <1>1, <2>1, <2>2, NextSlotFacts, AheadFacts
  <2> QED
    BY <1>1, <2>3
<1> QED
  BY <1>1, <1>3, <1>4

\* A BD joins the batch.
LEMMA AddBdInv == RingInv /\ AddBd => RingInv'
<1> SUFFICES ASSUME RingInv, AddBd PROVE RingInv'
  OBVIOUS
<1>1. /\ InFlight \in 0..N-1
      /\ fetched = 0 => InFlight < N - 1
      /\ nxta = Ahead(write_back, InFlight)
  BY RoomForBd DEF AddBd
<1>2. /\ write_back \in Index /\ nxta \in Index
      /\ published \in 0..N /\ added \in 0..N /\ InFlight = published + added
  BY DEF RingInv, RingTypeOK, InFlight
<1>3. /\ complete' = [complete EXCEPT ![nxta] = FALSE]
      /\ batch_tail' = nxta /\ added' = added + 1
      /\ batch_count' = batch_count + 1 /\ pc' = "current" /\ nxta' = nxta
      /\ taildesc' = taildesc /\ curdesc' = curdesc /\ write_back' = write_back
      /\ fetched' = fetched /\ published' = published
  BY DEF AddBd, engineVars
<1>4. InFlight' = InFlight + 1
  BY <1>2, <1>3 DEF InFlight
<1>5. batch_count < Batch /\ batch_count = added
  BY DEF RingInv, PollState, AddBd
<1>6. RingTypeOK'
  BY <1>1, <1>2, <1>3, <1>5 DEF RingInv, RingTypeOK
<1>7. Pointers'
  <2>1. NextSlot(nxta) = Ahead(write_back, InFlight + 1)
    BY <1>1, <1>2, AheadFacts
  <2> QED
    BY <1>1, <1>2, <1>3, <1>4, <2>1 DEF RingInv, Pointers
<1>8. Segment'
  <2> SUFFICES ASSUME NEW i \in Index
               PROVE  complete'[i] <=> Distance(write_back, i) >= InFlight + 1
    BY <1>3, <1>4 DEF Segment
  <2>1. CASE i = nxta
    <3>1. Distance(write_back, i) = InFlight
      BY <1>1, <1>2, <2>1, DistanceFacts
    <3>2. ~complete'[i]
      BY <1>2, <1>3, <2>1 DEF RingInv, RingTypeOK
    <3> QED
      BY <1>1, <3>1, <3>2
  <2>2. CASE i # nxta
    <3>1. Distance(write_back, i) # InFlight
      BY <1>1, <1>2, <2>2, DistanceFacts
    <3>2. complete'[i] = complete[i]
      BY <1>3, <2>2 DEF RingInv, RingTypeOK
    <3>3. Distance(write_back, i) \in 0..N-1
      BY <1>2, DistanceFacts
    <3> QED
      BY <1>1, <3>1, <3>2, <3>3 DEF RingInv, Segment
  <2> QED
    BY <2>1, <2>2
<1>9. RestingNotFull' /\ PollState'
  BY <1>1, <1>3, <1>4, <1>5 DEF RingInv, RestingNotFull, PollState
<1> QED
  BY <1>6, <1>7, <1>8, <1>9 DEF RingInv

\* The batch is handed over.
LEMMA PublishInv == RingInv /\ Publish => RingInv'
<1> SUFFICES ASSUME RingInv, Publish PROVE RingInv'
  OBVIOUS
<1>1. batch_count = added /\ added \in 0..N /\ published \in 0..N /\ published + added <= N
  BY DEF RingInv, PollState, RingTypeOK, Publish, Pointers, InFlight
<1>2. CASE batch_count > 0
  BY <1>1, <1>2 DEF RingInv, Publish, RingTypeOK, Pointers, Segment, RestingNotFull,
                    PollState, InFlight, engineVars
<1>3. CASE ~(batch_count > 0)
  BY <1>1, <1>3 DEF RingInv, Publish, RingTypeOK, Pointers, Segment, RestingNotFull,
                    PollState, InFlight, engineVars
<1> QED
  BY <1>2, <1>3

-----------------------------------------------------------------------------
(***************************************************************************)
(* The engine's steps.                                                     *)
(***************************************************************************)
\* The engine still has something to fetch: the BD is one handed over.
LEMMA FetchRoom ==
  ASSUME RingInv, curdesc # taildesc
  PROVE  fetched < published
<1>1. /\ write_back \in Index /\ curdesc \in Index /\ taildesc \in Index
      /\ fetched \in 0..N /\ published \in 0..N /\ fetched <= published
      /\ NextSlot(curdesc) = Ahead(write_back, fetched)
      /\ NextSlot(taildesc) = Ahead(write_back, published)
  BY DEF RingInv, RingTypeOK, Pointers
<1>2. NextSlot(curdesc) # NextSlot(taildesc)
  BY <1>1, NextSlotFacts
<1> QED
  BY <1>1, <1>2

\* The engine takes the next BD.
LEMMA FetchInv == RingInv /\ Fetch => RingInv'
<1> SUFFICES ASSUME RingInv, Fetch PROVE RingInv'
  OBVIOUS
<1>1. fetched < published
  BY FetchRoom DEF Fetch
<1>2. /\ write_back \in Index /\ curdesc \in Index
      /\ published \in 0..N /\ fetched \in 0..N /\ InFlight \in 0..N
      /\ published <= InFlight
  BY DEF RingInv, RingTypeOK, Pointers, InFlight
<1>3. /\ curdesc' = Ahead(write_back, fetched)
      /\ fetched' = fetched + 1
      /\ UNCHANGED <<complete, batch_tail, taildesc, write_back, published, added,
                     pc, batch_count, nxta>>
  BY DEF Fetch, RingInv, Pointers, driverVars
<1>4. InFlight' = InFlight
  BY <1>3 DEF InFlight
<1>5. RingTypeOK'
  BY <1>1, <1>2, <1>3, AheadFacts DEF RingInv, RingTypeOK
<1>6. Pointers'
  <2>1. NextSlot(Ahead(write_back, fetched)) = Ahead(write_back, fetched + 1)
    BY <1>1, <1>2, AheadFacts
  <2> QED
    BY <1>1, <1>2, <1>3, <1>4, <2>1 DEF RingInv, Pointers
<1>7. Segment' /\ RestingNotFull'
  BY <1>2, <1>3, <1>4 DEF RingInv, Segment, RestingNotFull
<1>8. PollState'
  <2>1. ASSUME pc \in {"status", "use"} PROVE nxta # curdesc'
    <3>1. nxta = Ahead(write_back, InFlight)
      BY <2>1 DEF RingInv, PollState, Pointers
    <3>2. CASE InFlight < N
      BY <1>1, <1>2, <1>3, <3>1, <3>2, AheadFacts
    <3>3. CASE InFlight = N
      <4>1. fetched \in 1..N-1
        BY <1>1, <1>2, <3>3 DEF RingInv, RestingNotFull
      <4>2. nxta = Ahead(write_back, 0)
        BY <1>2, <3>1, <3>3, AheadFacts
      <4> QED
        BY <1>2, <1>3, <4>1, <4>2, AheadFacts
    <3> QED
      BY <1>2, <3>2, <3>3
  <2> QED
    BY <1>3, <2>1 DEF RingInv, PollState
<1> QED
  BY <1>5, <1>6, <1>7, <1>8 DEF RingInv

\* The BD it takes has been cleared.
LEMMA FetchIsFresh == RingInv /\ Fetch => ~complete[curdesc']
<1> SUFFICES ASSUME RingInv, Fetch PROVE ~complete[curdesc']
  OBVIOUS
<1>1. fetched < published
  BY FetchRoom DEF Fetch
<1>2. /\ write_back \in Index /\ fetched \in 0..N-1 /\ InFlight \in 0..N
      /\ fetched < InFlight
      /\ curdesc' = Ahead(write_back, fetched)
  BY <1>1 DEF RingInv, RingTypeOK, Pointers, InFlight, Fetch
<1>3. Distance(write_back, curdesc') < InFlight /\ curdesc' \in Index
  BY <1>1, <1>2, DistanceFacts, AheadFacts
<1> QED
  BY <1>2, <1>3, DistanceFacts DEF RingInv, Segment

\* An engine at rest has been handed nothing.
LEMMA RingNeverStalls == RingInv => NeverStalled
<1> SUFFICES ASSUME RingInv, published > 0, fetched = 0 PROVE curdesc # taildesc
  BY DEF NeverStalled, RingInv, RingTypeOK
<1>1. /\ write_back \in Index /\ published \in 1..N-1
      /\ NextSlot(curdesc) = Ahead(write_back, 0)
      /\ NextSlot(taildesc) = Ahead(write_back, published)
  BY DEF RingInv, RingTypeOK, Pointers, RestingNotFull, InFlight
<1> QED
  BY <1>1, AheadFacts

\* The engine finishes the oldest BD it holds.
LEMMA WriteBackInv == RingInv /\ WriteBack => RingInv'
<1> SUFFICES ASSUME RingInv, WriteBack PROVE RingInv'
  OBVIOUS
<1>1. /\ write_back \in Index /\ fetched \in 1..N /\ published \in 1..N
      /\ fetched <= published /\ InFlight \in 1..N /\ added \in 0..N
      /\ InFlight = published + added
  BY DEF RingInv, RingTypeOK, Pointers, InFlight, WriteBack
<1>2. /\ complete' = [complete EXCEPT ![write_back] = TRUE]
      /\ write_back' = NextSlot(write_back)
      /\ fetched' = fetched - 1 /\ published' = published - 1
      /\ UNCHANGED <<batch_tail, taildesc, curdesc, added, pc, batch_count, nxta>>
  BY DEF WriteBack, driverVars
<1>3. InFlight' = InFlight - 1
  BY <1>1, <1>2 DEF InFlight
<1>4. RingTypeOK'
  BY <1>1, <1>2, NextSlotFacts DEF RingInv, RingTypeOK
<1>5. Pointers'
  <2>1. /\ Ahead(NextSlot(write_back), fetched - 1) = Ahead(write_back, fetched)
        /\ Ahead(NextSlot(write_back), published - 1) = Ahead(write_back, published)
        /\ Ahead(NextSlot(write_back), InFlight - 1) = Ahead(write_back, InFlight)
    BY <1>1, AheadFacts
  <2> QED
    BY <1>1, <1>2, <1>3, <2>1 DEF RingInv, Pointers
<1>6. Segment'
  <2> SUFFICES ASSUME NEW i \in Index
               PROVE  complete'[i] <=> Distance(NextSlot(write_back), i) >= InFlight - 1
    BY <1>2, <1>3 DEF Segment
  <2>1. CASE i = write_back
    <3>1. complete'[i]
      BY <1>1, <1>2, <2>1 DEF RingInv, RingTypeOK
    <3>2. Distance(NextSlot(write_back), i) = N - 1
      BY <1>1, <2>1, DistanceFacts
    <3> QED
      BY <1>1, <3>1, <3>2
  <2>2. CASE i # write_back
    <3>1. complete'[i] = complete[i]
      BY <1>2, <2>2 DEF RingInv, RingTypeOK
    <3>2. Distance(NextSlot(write_back), i) = Distance(write_back, i) - 1
      BY <1>1, <2>2, DistanceFacts
    <3>3. Distance(write_back, i) \in 0..N-1
      BY <1>1, DistanceFacts
    <3> QED
      BY <1>1, <3>1, <3>2, <3>3 DEF RingInv, Segment
  <2> QED
    BY <2>1, <2>2
<1>7. RestingNotFull'
  BY <1>1, <1>3 DEF RestingNotFull
<1>8. PollState'
  <2>1. ASSUME pc = "use" PROVE complete'[nxta]
    BY <1>2, <2>1 DEF RingInv, RingTypeOK, PollState
  <2> QED
    BY <1>2, <2>1 DEF RingInv, PollState
<1> QED
  BY <1>4, <1>5, <1>6, <1>7, <1>8 DEF RingInv

-----------------------------------------------------------------------------
(***************************************************************************)
(* The transmit ring: the invariant.                                       *)
(***************************************************************************)
\* The ring starts with BD 0 handed over and fetched.
LEMMA TxInitInv == TxInit => TxInv
<1> SUFFICES ASSUME TxInit PROVE TxInv
  OBVIOUS
<1>1. RingTypeOK /\ TxTypeOK
  BY DEF TxInit, TxTypeOK, RingTypeOK, Index, Packets
<1>2. Pointers /\ RestingNotFull /\ PollState
  BY DEF TxInit, Pointers, RestingNotFull, PollState, InFlight, NextSlot, Ahead
<1>3. Segment
  <2> SUFFICES ASSUME NEW i \in Index PROVE complete[i] <=> Distance(write_back, i) >= InFlight
    BY DEF Segment
  <2>1. complete[i] <=> i # 0
    BY DEF TxInit
  <2>2. Distance(write_back, i) = i /\ InFlight = 1 /\ i \in Nat
    BY DEF TxInit, Index, Distance, InFlight
  <2> QED
    BY <2>1, <2>2
<1> QED
  BY <1>1, <1>2, <1>3 DEF TxInv, RingInv

\* Finding nothing to send only ends the poll.
LEMMA NothingToSendInv == RingInv /\ NothingToSend => RingInv'
BY DEF RingInv, NothingToSend, RingTypeOK, Pointers, Segment, RestingNotFull,
       PollState, InFlight, engineVars

\* Every step preserves the invariant.
LEMMA TxStepInv == TxInv /\ [TxNext]_txVars => TxInv'
<1> SUFFICES ASSUME TxInv, [TxNext]_txVars PROVE TxInv'
  OBVIOUS
<1>1. RingInv /\ buf \in [Index -> Packets] /\ sent \in Packets
  BY DEF TxInv, TxTypeOK
<1>2. CASE (StartPoll \/ ReadCurrent \/ ReadStatus \/ Publish) /\ UNCHANGED <<buf, sent>>
  BY <1>1, <1>2, StartPollInv, ReadCurrentInv, ReadStatusInv, PublishInv
     DEF TxInv, TxTypeOK, RingInv
<1>3. ASSUME NEW p \in Packet, FillBuffer(p) PROVE TxInv'
  <2>1. RingInv'
    BY <1>1, <1>3, AddBdInv DEF FillBuffer
  <2>2. buf' \in [Index -> Packets] /\ sent' \in Packets
    BY <1>1, <1>3 DEF FillBuffer, Packets
  <2> QED
    BY <2>1, <2>2 DEF TxInv, TxTypeOK, RingInv
<1>4. CASE NothingToSend
  BY <1>1, <1>4, NothingToSendInv DEF NothingToSend, TxInv, TxTypeOK, RingInv
<1>5. CASE Fetch /\ UNCHANGED <<buf, sent>>
  BY <1>1, <1>5, FetchInv DEF TxInv, TxTypeOK, RingInv
<1>6. CASE Transmit
  <2>1. RingInv'
    BY <1>1, <1>6, WriteBackInv DEF Transmit
  <2>2. buf' = buf /\ sent' \in Packets
    BY <1>1, <1>6 DEF Transmit, RingInv, RingTypeOK
  <2> QED
    BY <1>1, <2>1, <2>2 DEF TxInv, TxTypeOK, RingInv
<1>7. CASE UNCHANGED txVars
  BY <1>1, <1>7 DEF txVars, ringVars, TxInv, TxTypeOK, RingInv, RingTypeOK, Pointers, Segment,
     RestingNotFull, PollState, InFlight
<1> QED
  BY <1>2, <1>3, <1>4, <1>5, <1>6, <1>7 DEF TxNext, TxDriver, TxEngine

\* The inductive invariant of the transmit ring holds in every behaviour.
THEOREM TxInvariant == TxSpec => []TxInv
BY TxInitInv, TxStepInv, PTL DEF TxSpec

\* The five pointers of the ring, the COMPLETE bits and the poll in progress
\* always agree: pacman_poll_tx and the MM2S channel.
THEOREM TxRingInvariant == TxSpec => []RingInv
<1>1. TxSpec => []TxInv
  BY TxInvariant
<1>2. TxInv => RingInv
  BY DEF TxInv
<1> QED
  BY <1>1, <1>2, PTL

\* Every variable keeps its type.
THEOREM TxTypeCorrect == TxSpec => []TxTypeOK
<1>1. TxSpec => []TxInv
  BY TxInvariant
<1>2. TxInv => TxTypeOK
  BY DEF TxInv
<1> QED
  BY <1>1, <1>2, PTL

-----------------------------------------------------------------------------
(***************************************************************************)
(* The transmit ring: what follows from it.                                *)
(***************************************************************************)
\* The transmit engine is never left asleep over packets handed to it:
\* dma_next_available_tx_bd keeps one BD back.
THEOREM TxNeverStalled == TxSpec => []NeverStalled
BY TxRingInvariant, RingNeverStalls, PTL

\* The transmit engine never fetches a BD that was not cleared.
THEOREM TxNoStaleFetch == TxSpec => NoStaleFetch
<1>1. RingInv /\ [TxNext]_txVars => [fetched' > fetched => ~complete[curdesc']]_ringVars
  <2> SUFFICES ASSUME RingInv, [TxNext]_txVars, fetched' > fetched
               PROVE  ~complete[curdesc']
    OBVIOUS
  <2>1. fetched \in 0..N
    BY DEF RingInv, RingTypeOK
  <2>2. Fetch
    BY <2>1 DEF TxNext, TxDriver, TxEngine, StartPoll, ReadCurrent, ReadStatus, Publish, FillBuffer,
       AddBd, NothingToSend, Transmit, WriteBack, txVars, ringVars, engineVars
  <2> QED
    BY <2>2, FetchIsFresh
<1> QED
  BY <1>1, TxRingInvariant, PTL DEF TxSpec, NoStaleFetch

\* pacman_poll_tx writes a packet only into a buffer whose BD is complete and
\* which the engine does not hold.
THEOREM TxOwnsBuffer == TxSpec => OwnsBufferItFills
<1> DEFINE Owns == \A i \in Index : buf'[i] # buf[i] =>
                     complete[i] /\ (fetched > 0 => Distance(write_back, i) >= fetched)
<1>1. TxInv /\ [TxNext]_txVars => [Owns]_txVars
  <2> SUFFICES ASSUME TxInv, [TxNext]_txVars, NEW i \in Index, buf'[i] # buf[i]
               PROVE  complete[i] /\ (fetched > 0 => Distance(write_back, i) >= fetched)
    OBVIOUS
  <2>1. PICK p \in Packet : FillBuffer(p)
    BY DEF TxNext, TxDriver, TxEngine, NothingToSend, Transmit, txVars
  <2>2. pc = "use" /\ i = nxta
    BY <2>1 DEF FillBuffer, AddBd, TxInv, TxTypeOK
  <2>3. complete[i] /\ Distance(write_back, i) >= InFlight
    BY <2>2 DEF TxInv, RingInv, PollState, Segment
  <2>4. InFlight >= fetched /\ InFlight \in Nat /\ fetched \in Nat /\ write_back \in Index
    BY DEF TxInv, RingInv, RingTypeOK, Pointers, InFlight
  <2>5. Distance(write_back, i) \in 0..N-1
    BY <2>4, DistanceFacts
  <2> QED
    BY <2>3, <2>4, <2>5
<1>2. TxSpec => []TxInv
  BY TxInitInv, TxStepInv, PTL DEF TxSpec
<1> QED
  BY <1>1, <1>2, PTL DEF TxSpec, OwnsBufferItFills

-----------------------------------------------------------------------------
(***************************************************************************)
(* The transmit ring implements the queue.                                 *)
(***************************************************************************)
\* At the start the queue holds the initial empty packet.
LEMMA TxFifoInit == TxInit => TxFifo!Init
<1> SUFFICES ASSUME TxInit PROVE TxFifo!Init
  OBVIOUS
<1>1. InFlight = 1 /\ sent = Zero
  BY DEF TxInit, InFlight
<1>2. Ahead(write_back, 0) = 0 /\ buf[0] = Zero
  BY DEF TxInit, Ahead, Index
<1>3. txQueue = <<Zero>>
  BY <1>1, <1>2 DEF txQueue
<1> QED
  BY <1>1, <1>3 DEF TxFifo!Init

\* A packet copied into a buffer joins the queue at its end.
LEMMA TxPut ==
  ASSUME TxInv, NEW p \in Packet, FillBuffer(p)
  PROVE  TxFifo!Put(p)
<1>1. /\ InFlight \in 0..N-1 /\ nxta = Ahead(write_back, InFlight)
      /\ write_back \in Index /\ nxta \in Index
  BY RoomForBd DEF FillBuffer, AddBd, TxInv, RingInv, RingTypeOK
<1>2. /\ write_back' = write_back /\ InFlight' = InFlight + 1
      /\ buf' = [buf EXCEPT ![nxta] = p] /\ sent' = sent
  BY DEF FillBuffer, AddBd, InFlight, engineVars, TxInv, RingInv, RingTypeOK
<1>3. \A k \in 1..InFlight : buf'[Ahead(write_back, k - 1)] = buf[Ahead(write_back, k - 1)]
  BY <1>1, <1>2, AheadFacts DEF TxInv, TxTypeOK
<1>4. buf'[Ahead(write_back, InFlight)] = p
  BY <1>1, <1>2 DEF TxInv, TxTypeOK
<1>5. txQueue' = [k \in 1 .. InFlight + 1 |->
                  IF k <= InFlight THEN buf[Ahead(write_back, k - 1)] ELSE p]
  BY <1>1, <1>2, <1>3, <1>4 DEF txQueue
<1>6. txQueue \in Seq(Packets) /\ Len(txQueue) = InFlight
  BY <1>1, AheadFacts DEF txQueue, TxInv, TxTypeOK
<1>7. txQueue' = Append(txQueue, p)
  <2>1. /\ Append(txQueue, p) \in Seq(Packets) /\ Len(Append(txQueue, p)) = InFlight + 1
        /\ \A k \in 1 .. InFlight + 1 :
             Append(txQueue, p)[k] = IF k <= InFlight THEN txQueue[k] ELSE p
    BY <1>1, <1>6 DEF Packets
  <2>2. txQueue' \in Seq(Packets) /\ Len(txQueue') = InFlight + 1
    BY <1>1, <1>5, AheadFacts DEF TxInv, TxTypeOK, Packets
  <2>3. \A k \in 1 .. InFlight + 1 : txQueue'[k] = Append(txQueue, p)[k]
    <3>1. \A k \in 1 .. InFlight : txQueue[k] = buf[Ahead(write_back, k - 1)]
      BY DEF txQueue
    <3> QED
      BY <1>1, <1>5, <2>1, <3>1
  <2> QED
    BY <2>1, <2>2, <2>3, SeqEqual
<1> QED
  BY <1>1, <1>2, <1>6, <1>7 DEF TxFifo!Put

\* The packet streamed is the oldest, and leaves the queue.
LEMMA TxGet ==
  ASSUME TxInv, Transmit
  PROVE  TxFifo!Get
<1>1. /\ InFlight \in 1..N /\ write_back \in Index
      /\ write_back' = NextSlot(write_back) /\ InFlight' = InFlight - 1
      /\ buf' = buf /\ sent' = buf[write_back]
  BY DEF Transmit, WriteBack, TxInv, RingInv, RingTypeOK, Pointers, InFlight
<1>2. txQueue \in Seq(Packets) /\ Len(txQueue) = InFlight
  BY <1>1, AheadFacts DEF txQueue, TxInv, TxTypeOK
<1>3. Head(txQueue) = buf[write_back]
  BY <1>1, <1>2, AheadFacts DEF txQueue
<1>4. txQueue' = [k \in 1 .. InFlight - 1 |-> buf[Ahead(write_back, k)]]
  BY <1>1, AheadFacts DEF txQueue
<1>5. Tail(txQueue) = [k \in 1 .. InFlight - 1 |-> buf[Ahead(write_back, k)]]
  BY <1>1, <1>2 DEF txQueue
<1> QED
  BY <1>1, <1>2, <1>3, <1>4, <1>5 DEF TxFifo!Get

\* Any other step leaves the queue as it is.
LEMMA TxQueueUnchanged ==
  ASSUME UNCHANGED <<write_back, buf, sent>>, InFlight' = InFlight
  PROVE  UNCHANGED <<txQueue, sent>>
BY DEF txQueue

\* The transmit ring implements the queue (the safety part of
\* TxImplementsFifo): every packet taken from tx_buffer_out is streamed exactly
\* once and in order, and never more than the ring holds are under way.
THEOREM TxImplementsFifoSafety == TxSpec => TxFifo!Spec
<1>1. TxInv /\ [TxNext]_txVars => [TxFifo!Next]_TxFifo!vars
  <2> SUFFICES ASSUME TxInv, [TxNext]_txVars PROVE [TxFifo!Next]_TxFifo!vars
    OBVIOUS
  <2>1. ASSUME NEW p \in Packet, FillBuffer(p) PROVE TxFifo!Next
    BY <2>1, TxPut DEF TxFifo!Next
  <2>2. CASE Transmit
    BY <2>2, TxGet DEF TxFifo!Next
  <2>3. CASE \/ (StartPoll \/ ReadCurrent \/ ReadStatus \/ Publish) /\ UNCHANGED <<buf, sent>>
             \/ NothingToSend
             \/ Fetch /\ UNCHANGED <<buf, sent>>
             \/ UNCHANGED txVars
    <3>1. published \in Nat /\ added \in Nat
      BY DEF TxInv, RingInv, RingTypeOK
    <3>2. UNCHANGED <<write_back, buf, sent>> /\ InFlight' = InFlight
      BY <2>3, <3>1 DEF StartPoll, ReadCurrent, ReadStatus, Publish, NothingToSend, Fetch,
         txVars, ringVars, engineVars, driverVars, InFlight
    <3> QED
      BY <3>2, TxQueueUnchanged DEF TxFifo!vars
  <2> QED
    BY <2>1, <2>2, <2>3 DEF TxNext, TxDriver, TxEngine
<1>2. TxSpec => []TxInv
  BY TxInitInv, TxStepInv, PTL DEF TxSpec
<1> QED
  BY <1>1, <1>2, TxFifoInit, PTL DEF TxSpec, TxFifo!Spec

-----------------------------------------------------------------------------
(***************************************************************************)
(* The receive ring: the invariant.                                        *)
(***************************************************************************)
\* The ring starts with every BD handed over.
LEMMA RxInitInv == RxInit => RxInv
<1> SUFFICES ASSUME RxInit PROVE RxInv
  OBVIOUS
<1>1. RingTypeOK /\ RxTypeOK
  BY DEF RxInit, RxTypeOK, RingTypeOK, Index, Packets
<1>2. Pointers /\ RestingNotFull /\ PollState
  BY DEF RxInit, Pointers, RestingNotFull, PollState, InFlight, NextSlot, Ahead
<1>3. Segment
  <2> SUFFICES ASSUME NEW i \in Index PROVE complete[i] <=> Distance(write_back, i) >= InFlight
    BY DEF Segment
  <2>1. ~complete[i] /\ InFlight = N /\ write_back \in Index
    BY DEF RxInit, InFlight, Index
  <2> QED
    BY <2>1, DistanceFacts
<1> QED
  BY <1>1, <1>2, <1>3 DEF RxInv, RingInv

\* Every step preserves the invariant.
LEMMA RxStepInv == RxInv /\ [RxNext]_rxVars => RxInv'
<1> SUFFICES ASSUME RxInv, [RxNext]_rxVars PROVE RxInv'
  OBVIOUS
<1>1. RingInv /\ buf \in [Index -> Packets] /\ taken \in Packets
  BY DEF RxInv, RxTypeOK
<1>2. CASE (StartPoll \/ ReadCurrent \/ ReadStatus \/ Publish) /\ UNCHANGED <<buf, taken>>
  BY <1>1, <1>2, StartPollInv, ReadCurrentInv, ReadStatusInv, PublishInv
     DEF RxInv, RxTypeOK, RingInv
<1>3. CASE UseBuffer
  <2>1. RingInv'
    BY <1>1, <1>3, AddBdInv DEF UseBuffer
  <2>2. buf' = buf /\ taken' \in Packets
    BY <1>1, <1>3 DEF UseBuffer, RingInv, RingTypeOK
  <2> QED
    BY <1>1, <2>1, <2>2 DEF RxInv, RxTypeOK, RingInv
<1>4. CASE EngineFetch
  BY <1>1, <1>4, FetchInv DEF EngineFetch, RxInv, RxTypeOK, RingInv
<1>5. ASSUME NEW p \in Packet, Receive(p) PROVE RxInv'
  <2>1. RingInv'
    BY <1>1, <1>5, WriteBackInv DEF Receive
  <2>2. buf' \in [Index -> Packets] /\ taken' \in Packets
    BY <1>1, <1>5 DEF Receive, Packets
  <2> QED
    BY <2>1, <2>2 DEF RxInv, RxTypeOK, RingInv
<1>6. CASE UNCHANGED rxVars
  BY <1>1, <1>6 DEF rxVars, ringVars, RxInv, RxTypeOK, RingInv, RingTypeOK, Pointers, Segment,
     RestingNotFull, PollState, InFlight
<1> QED
  BY <1>2, <1>3, <1>4, <1>5, <1>6 DEF RxNext, RxDriver

\* The inductive invariant of the receive ring holds in every behaviour.
THEOREM RxInvariant == RxSpec => []RxInv
BY RxInitInv, RxStepInv, PTL DEF RxSpec

\* The five pointers of the ring, the COMPLETE bits and the poll in progress
\* always agree: pacman_poll_rx and the S2MM channel.
THEOREM RxRingInvariant == RxSpec => []RingInv
<1>1. RxSpec => []RxInv
  BY RxInvariant
<1>2. RxInv => RingInv
  BY DEF RxInv
<1> QED
  BY <1>1, <1>2, PTL

\* Every variable keeps its type.
THEOREM RxTypeCorrect == RxSpec => []RxTypeOK
<1>1. RxSpec => []RxInv
  BY RxInvariant
<1>2. RxInv => RxTypeOK
  BY DEF RxInv
<1> QED
  BY <1>1, <1>2, PTL

-----------------------------------------------------------------------------
(***************************************************************************)
(* The receive ring: what follows from it.                                 *)
(***************************************************************************)
\* The receive engine is never left asleep over buffers handed to it.
THEOREM RxNeverStalled == RxSpec => []NeverStalled
BY RxRingInvariant, RingNeverStalls, PTL

\* The receive engine never fetches a BD that was not cleared.
THEOREM RxNoStaleFetch == RxSpec => NoStaleFetch
<1>1. RingInv /\ [RxNext]_rxVars => [fetched' > fetched => ~complete[curdesc']]_ringVars
  <2> SUFFICES ASSUME RingInv, [RxNext]_rxVars, fetched' > fetched
               PROVE  ~complete[curdesc']
    OBVIOUS
  <2>1. fetched \in 0..N
    BY DEF RingInv, RingTypeOK
  <2>2. Fetch
    BY <2>1 DEF RxNext, RxDriver, EngineFetch, StartPoll, ReadCurrent, ReadStatus, Publish,
       UseBuffer, AddBd, Receive, WriteBack, rxVars, ringVars, engineVars
  <2> QED
    BY <2>2, FetchIsFresh
<1> QED
  BY <1>1, RxRingInvariant, PTL DEF RxSpec, NoStaleFetch

\* The engine writes only into buffers whose BD is not complete, never into
\* the one pacman_poll_rx is copying from.
THEOREM RxEngineOwnsBuffer == RxSpec => EngineOwnsBufferItFills
<1> DEFINE Owns == \A i \in Index : buf'[i] # buf[i] =>
                     ~complete[i] /\ ~(pc = "use" /\ nxta = i)
<1>1. RxInv /\ [RxNext]_rxVars => [Owns]_rxVars
  <2> SUFFICES ASSUME RxInv, [RxNext]_rxVars, NEW i \in Index, buf'[i] # buf[i]
               PROVE  ~complete[i] /\ ~(pc = "use" /\ nxta = i)
    OBVIOUS
  <2>1. PICK p \in Packet : Receive(p)
    BY DEF RxNext, RxDriver, UseBuffer, EngineFetch, rxVars
  <2>2. i = write_back /\ fetched > 0
    BY <2>1 DEF Receive, WriteBack, RxInv, RxTypeOK
  <2>3. Distance(write_back, i) = 0
    BY <2>2 DEF Distance, RxInv, RingInv, RingTypeOK, Index
  <2>4. InFlight > 0
    BY <2>2 DEF RxInv, RingInv, RingTypeOK, Pointers, InFlight
  <2>5. ~complete[i]
    BY <2>3, <2>4 DEF RxInv, RingInv, RingTypeOK, Segment, InFlight
  <2> QED
    BY <2>5 DEF RxInv, RingInv, PollState
<1>2. RxSpec => []RxInv
  BY RxInitInv, RxStepInv, PTL DEF RxSpec
<1> QED
  BY <1>1, <1>2, PTL DEF RxSpec, EngineOwnsBufferItFills

-----------------------------------------------------------------------------
(***************************************************************************)
(* The receive ring implements the queue.                                  *)
(***************************************************************************)
\* The queue ends just before the BD the engine writes next.
LEMMA QueueEndsAtWriteBack ==
  ASSUME RingInv
  PROVE  /\ InFlight \in 0..N
         /\ InFlight >= 1 => Ahead(batch_tail, N - InFlight + 1) = write_back
         /\ \A k \in 1 .. N - InFlight : Ahead(batch_tail, k) \in Index
         /\ InFlight >= 1 => \A k \in 1 .. N - InFlight : Ahead(batch_tail, k) # write_back
<1>1. /\ InFlight \in 0..N /\ batch_tail \in Index /\ write_back \in Index
      /\ NextSlot(batch_tail) = Ahead(write_back, InFlight)
  BY DEF RingInv, RingTypeOK, Pointers, InFlight
<1> QED
  BY <1>1 DEF Ahead, NextSlot, Index

\* At the start the queue is empty.
LEMMA RxFifoInit == RxInit => RxFifo!Init
<1> SUFFICES ASSUME RxInit PROVE RxFifo!Init
  OBVIOUS
<1>1. N - InFlight = 0 /\ taken = Zero
  BY DEF RxInit, InFlight
<1>2. rxQueue = <<>>
  BY <1>1 DEF rxQueue
<1> QED
  BY <1>1, <1>2 DEF RxFifo!Init

\* A packet received joins the queue at its end.
LEMMA RxPut ==
  ASSUME RxInv, NEW p \in Packet, Receive(p)
  PROVE  RxFifo!Put(p)
<1> DEFINE len == N - InFlight
<1>1. /\ InFlight \in 1..N /\ write_back \in Index
      /\ Ahead(batch_tail, len + 1) = write_back
      /\ \A k \in 1 .. len : Ahead(batch_tail, k) \in Index \ {write_back}
  BY QueueEndsAtWriteBack DEF Receive, WriteBack, RxInv, RingInv, RingTypeOK, Pointers, InFlight
<1>2. /\ batch_tail' = batch_tail /\ InFlight' = InFlight - 1
      /\ buf' = [buf EXCEPT ![write_back] = p] /\ taken' = taken
  BY DEF Receive, WriteBack, InFlight, RxInv, RingInv, RingTypeOK
<1>3. \A k \in 1 .. len : buf'[Ahead(batch_tail, k)] = buf[Ahead(batch_tail, k)]
  BY <1>1, <1>2 DEF RxInv, RxTypeOK
<1>4. buf'[Ahead(batch_tail, len + 1)] = p
  BY <1>1, <1>2 DEF RxInv, RxTypeOK
<1>5. rxQueue' = [k \in 1 .. len + 1 |->
                  IF k <= len THEN buf[Ahead(batch_tail, k)] ELSE p]
  BY <1>1, <1>2, <1>3, <1>4 DEF rxQueue
<1>6. rxQueue \in Seq(Packets) /\ Len(rxQueue) = len
  BY <1>1 DEF rxQueue, RxInv, RxTypeOK
<1>7. rxQueue' = Append(rxQueue, p)
  <2>1. /\ Append(rxQueue, p) \in Seq(Packets) /\ Len(Append(rxQueue, p)) = len + 1
        /\ \A k \in 1 .. len + 1 :
             Append(rxQueue, p)[k] = IF k <= len THEN rxQueue[k] ELSE p
    BY <1>1, <1>6 DEF Packets
  <2>2. rxQueue' \in Seq(Packets) /\ Len(rxQueue') = len + 1
    BY <1>1, <1>5 DEF RxInv, RxTypeOK, Packets
  <2>3. \A k \in 1 .. len + 1 : rxQueue'[k] = Append(rxQueue, p)[k]
    <3>1. \A k \in 1 .. len : rxQueue[k] = buf[Ahead(batch_tail, k)]
      BY DEF rxQueue
    <3> QED
      BY <1>1, <1>5, <2>1, <3>1
  <2> QED
    BY <2>1, <2>2, <2>3, SeqEqual
<1> QED
  BY <1>1, <1>2, <1>6, <1>7 DEF RxFifo!Put

\* The packet handed to rx_buffer_in is the oldest, and leaves the queue.
LEMMA RxGet ==
  ASSUME RxInv, UseBuffer
  PROVE  RxFifo!Get
<1> DEFINE len == N - InFlight
<1>1. /\ InFlight \in 0..N-1 /\ batch_tail \in Index /\ nxta \in Index
      /\ nxta = NextSlot(batch_tail)
  BY RoomForBd DEF UseBuffer, AddBd, RxInv, RingInv, RingTypeOK, PollState
<1>2. /\ batch_tail' = nxta /\ InFlight' = InFlight + 1
      /\ buf' = buf /\ taken' = buf[nxta]
  BY DEF UseBuffer, AddBd, InFlight, RxInv, RingInv, RingTypeOK
<1>3. rxQueue \in Seq(Packets) /\ Len(rxQueue) = len
  BY <1>1, QueueEndsAtWriteBack DEF rxQueue, RxInv, RxTypeOK
<1>4. Head(rxQueue) = buf[nxta]
  <2>1. Ahead(batch_tail, 1) = nxta
    BY <1>1 DEF Ahead, NextSlot, Index
  <2> QED
    BY <1>1, <1>3, <2>1 DEF rxQueue
<1>5. rxQueue' = [k \in 1 .. len - 1 |-> buf[Ahead(batch_tail, k + 1)]]
  <2>1. \A k \in 1 .. len - 1 : Ahead(nxta, k) = Ahead(batch_tail, k + 1)
    BY <1>1, AheadFacts
  <2>2. rxQueue' = [k \in 1 .. len - 1 |-> buf[Ahead(nxta, k)]]
    BY <1>1, <1>2 DEF rxQueue
  <2> QED
    BY <2>1, <2>2
<1>6. Tail(rxQueue) = [k \in 1 .. len - 1 |-> buf[Ahead(batch_tail, k + 1)]]
  <2>1. \A k \in 1 .. len : rxQueue[k] = buf[Ahead(batch_tail, k)]
    BY DEF rxQueue
  <2>2. Tail(rxQueue) = [k \in 1 .. len - 1 |-> rxQueue[k + 1]]
    <3>1. rxQueue # <<>> /\ len \in Nat
      BY <1>1, <1>3
    <3>2. /\ Tail(rxQueue) \in [1 .. len - 1 -> Packets]
          /\ \A k \in 1 .. len - 1 : Tail(rxQueue)[k] = rxQueue[k + 1]
      BY <1>3, <3>1, HeadTailProperties, LenProperties
    <3> QED
      BY <3>2
  <2>3. \A k \in 1 .. len - 1 : rxQueue[k + 1] = buf[Ahead(batch_tail, k + 1)]
    BY <1>1, <2>1
  <2> QED
    BY <2>2, <2>3
<1> QED
  BY <1>1, <1>2, <1>3, <1>4, <1>5, <1>6 DEF RxFifo!Get

\* The receive ring implements the queue (the safety part of
\* RxImplementsFifo): every packet received is handed to rx_buffer_in exactly
\* once and in order.
THEOREM RxImplementsFifoSafety == RxSpec => RxFifo!Spec
<1>1. RxInv /\ [RxNext]_rxVars => [RxFifo!Next]_RxFifo!vars
  <2> SUFFICES ASSUME RxInv, [RxNext]_rxVars PROVE [RxFifo!Next]_RxFifo!vars
    OBVIOUS
  <2>1. ASSUME NEW p \in Packet, Receive(p) PROVE RxFifo!Next
    BY <2>1, RxPut DEF RxFifo!Next
  <2>2. CASE UseBuffer
    BY <2>2, RxGet DEF RxFifo!Next
  <2>3. CASE \/ (StartPoll \/ ReadCurrent \/ ReadStatus \/ Publish) /\ UNCHANGED <<buf, taken>>
             \/ EngineFetch
             \/ UNCHANGED rxVars
    <3>1. published \in Nat /\ added \in Nat
      BY DEF RxInv, RingInv, RingTypeOK
    <3>2. UNCHANGED <<batch_tail, buf, taken>> /\ InFlight' = InFlight
      BY <2>3, <3>1 DEF StartPoll, ReadCurrent, ReadStatus, Publish, EngineFetch, Fetch,
         rxVars, ringVars, engineVars, driverVars, InFlight
    <3> QED
      BY <3>2 DEF rxQueue, RxFifo!vars
  <2> QED
    BY <2>1, <2>2, <2>3 DEF RxNext, RxDriver
<1>2. RxSpec => []RxInv
  BY RxInitInv, RxStepInv, PTL DEF RxSpec
<1> QED
  BY <1>1, <1>2, RxFifoInit, PTL DEF RxSpec, RxFifo!Spec

=============================================================================
