------------------------------ MODULE DmaRing ------------------------------
(***************************************************************************)
(* A ring of buffer descriptors (BDs) shared by the driver of dma.c and    *)
(* one channel of the AXI DMA engine in scatter-gather mode.  The module   *)
(* declares the shared state, the driver's polling loop over               *)
(* dma_next_available_*_bd, dma_add_*_bd and dma_*_batch one register or   *)
(* memory access at a time, and the engine as the driver relies on it.     *)
(* DmaTx and DmaRx add what happens to the buffers.                        *)
(*                                                                         *)
(* A BD is its index in the ring.  published and added count the BDs       *)
(* handed over and not yet finished, and those still held in the batch:    *)
(* the code does not keep them, they only follow what it does.             *)
(***************************************************************************)
EXTENDS RingIndex, Sequences

CONSTANTS
  Batch,     \* BDs handed over by one poll at most
  Prefetch,  \* BDs the engine holds at a time at most
  Packet,    \* the packets tx_buffer_out can return, or the FPGA can send
  Zero       \* the contents of a cleared buffer

ASSUME BatchAssumption    == Batch \in Nat /\ Batch >= 1
ASSUME PrefetchAssumption == Prefetch \in Nat /\ Prefetch >= 1

VARIABLES
  complete,    \* the COMPLETE bit of each BD's status word
  batch_tail,  \* batch tail, a word of shared memory
  taildesc,    \* TAILDESC register
  curdesc,     \* CURDESC register: the BD last fetched
  write_back,  \* engine: the next BD whose status it writes
  fetched,     \* engine: BDs fetched and not yet written back
  published,   \* BDs up to taildesc not yet written back
  added,       \* BDs after taildesc up to batch_tail
  pc,          \* where the driver is in its poll
  batch_count, \* the poll's batch_count
  nxta,        \* the poll's nxta
  buf          \* the buffer of each BD

engineVars == <<curdesc, write_back, fetched>>
driverVars == <<pc, batch_count, nxta>>
ringVars == <<complete, batch_tail, taildesc, curdesc, write_back, fetched,
              published, added, pc, batch_count, nxta>>

Packets == Packet \cup {Zero}

RingTypeOK ==
  /\ complete \in [Index -> BOOLEAN]
  /\ batch_tail \in Index /\ taildesc \in Index
  /\ curdesc \in Index /\ write_back \in Index
  /\ fetched \in 0..N /\ published \in 0..N /\ added \in 0..N
  /\ pc \in {"idle", "current", "status", "use", "publish"}
  /\ batch_count \in 0..Batch
  /\ nxta \in Index

-----------------------------------------------------------------------------
(***************************************************************************)
(* The driver.                                                             *)
(***************************************************************************)
StartPoll ==
  /\ pc = "idle"
  /\ pc' = "current" /\ batch_count' = 0
  /\ UNCHANGED <<complete, batch_tail, taildesc, engineVars, published, added, nxta>>

\* A bug to test against: CURDESC is not looked at.
ReadCurrentIgnored ==
  /\ pc = "current"
  /\ IF batch_count < Batch
       THEN nxta' = NextSlot(batch_tail) /\ pc' = "status"
       ELSE pc' = "publish" /\ nxta' = nxta
  /\ UNCHANGED <<complete, batch_tail, taildesc, engineVars, published, added, batch_count>>

\* The loop's bound, then dma_next_available_*_bd up to the read of CURDESC.
ReadCurrent ==
  /\ pc = "current"
  /\ IF batch_count < Batch
       THEN /\ nxta' = NextSlot(batch_tail)
            /\ pc' = IF NextSlot(batch_tail) = curdesc THEN "publish" ELSE "status"
       ELSE pc' = "publish" /\ nxta' = nxta
  /\ UNCHANGED <<complete, batch_tail, taildesc, engineVars, published, added, batch_count>>

\* A bug to test against: the status is read and not looked at.
ReadStatusIgnored ==
  /\ pc = "status"
  /\ pc' = "use"
  /\ UNCHANGED <<complete, batch_tail, taildesc, engineVars, published, added,
                 batch_count, nxta>>

\* The read of the BD's status word.
ReadStatus ==
  /\ pc = "status"
  /\ pc' = IF complete[nxta] THEN "use" ELSE "publish"
  /\ UNCHANGED <<complete, batch_tail, taildesc, engineVars, published, added,
                 batch_count, nxta>>

\* A bug to test against: the status word is not cleared.
AddBdStale ==
  /\ pc = "use"
  /\ complete' = complete
  /\ batch_tail' = nxta
  /\ added' = added + 1
  /\ batch_count' = batch_count + 1
  /\ pc' = "current"
  /\ UNCHANGED <<taildesc, engineVars, published, nxta>>

\* dma_add_*_bd: nothing else writes this BD or the batch tail meanwhile.
AddBd ==
  /\ pc = "use"
  /\ complete' = [complete EXCEPT ![nxta] = FALSE]
  /\ batch_tail' = nxta
  /\ added' = added + 1
  /\ batch_count' = batch_count + 1
  /\ pc' = "current"
  /\ UNCHANGED <<taildesc, engineVars, published, nxta>>

\* A bug to test against: only a full batch is handed over.
PublishFullBatches ==
  /\ pc = "publish"
  /\ pc' = "idle"
  /\ IF batch_count = Batch
       THEN /\ taildesc' = batch_tail
            /\ published' = published + added /\ added' = 0
       ELSE UNCHANGED <<taildesc, published, added>>
  /\ UNCHANGED <<complete, batch_tail, engineVars, batch_count, nxta>>

\* The end of the poll: dma_*_batch if anything was added.
Publish ==
  /\ pc = "publish"
  /\ pc' = "idle"
  /\ IF batch_count > 0
       THEN /\ taildesc' = batch_tail
            /\ published' = published + added /\ added' = 0
       ELSE UNCHANGED <<taildesc, published, added>>
  /\ UNCHANGED <<complete, batch_tail, engineVars, batch_count, nxta>>

-----------------------------------------------------------------------------
(***************************************************************************)
(* The engine.  It fetches BDs up to and including TAILDESC and then rests *)
(* with CURDESC on the last one; it finishes BDs in order, some time after *)
(* it fetched them.  It compares CURDESC with TAILDESC and nothing else.   *)
(***************************************************************************)
Fetch ==
  /\ curdesc # taildesc
  /\ fetched < Prefetch
  /\ curdesc' = NextSlot(curdesc)
  /\ fetched' = fetched + 1
  /\ UNCHANGED <<complete, batch_tail, taildesc, write_back, published, added, driverVars>>

WriteBack ==
  /\ fetched > 0
  /\ complete' = [complete EXCEPT ![write_back] = TRUE]
  /\ write_back' = NextSlot(write_back)
  /\ fetched' = fetched - 1
  /\ published' = published - 1
  /\ UNCHANGED <<batch_tail, taildesc, curdesc, added, driverVars>>

-----------------------------------------------------------------------------
(***************************************************************************)
(* The inductive invariant, in named parts.                                *)
(***************************************************************************)
InFlight == published + added

\* Where the five pointers stand with respect to each other.
Pointers ==
  /\ fetched <= published /\ InFlight <= N
  /\ NextSlot(curdesc) = Ahead(write_back, fetched)
  /\ NextSlot(taildesc) = Ahead(write_back, published)
  /\ NextSlot(batch_tail) = Ahead(write_back, InFlight)

\* The BDs that are not complete are those from write_back to batch_tail.
Segment ==
  \A i \in Index : complete[i] <=> Distance(write_back, i) >= InFlight

\* An engine that rests never sees the whole ring handed over: TAILDESC would
\* be its CURDESC again and it would take the full ring for an empty one.
RestingNotFull == fetched = 0 => InFlight < N

\* What the poll has read stays true until it acts on it.
PollState ==
  /\ pc # "idle" => batch_count = added
  /\ pc = "idle" => added = 0
  /\ pc \in {"status", "use"} =>
       /\ nxta = NextSlot(batch_tail) /\ nxta # curdesc /\ batch_count < Batch
  /\ pc = "use" => complete[nxta]

RingInv == RingTypeOK /\ Pointers /\ Segment /\ RestingNotFull /\ PollState

-----------------------------------------------------------------------------
(***************************************************************************)
(* Properties of both rings.                                               *)
(***************************************************************************)

\* The engine never fetches a BD that still carries COMPLETE, which it would
\* take for a stale descriptor and halt: dma_add_*_bd clears the status
\* before dma_*_batch moves the tail over the BD.
NoStaleFetch == [][fetched' > fetched => ~complete[curdesc']]_ringVars

\* An engine with BDs handed over is never at rest on TAILDESC: the driver's
\* look at CURDESC keeps a full ring from reading as an empty one
\* (dma_next_available_*_bd).
NeverStalled == published > 0 => fetched > 0 \/ curdesc # taildesc

=============================================================================
