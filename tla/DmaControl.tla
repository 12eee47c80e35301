----------------------------- MODULE DmaControl -----------------------------
(***************************************************************************)
(* The registers of both channels of the AXI DMA engine, the rings of      *)
(* buffer descriptors (BDs) in the memory that every process maps, and the *)
(* functions of dma.c that handle them: reset, run, the descriptor         *)
(* pointers, the flags and the batch.  DmaTx and DmaRx follow one poll of  *)
(* one ring access by access; here a step is a function, and the question  *)
(* is what a sequence of them, by several programs, leaves behind.         *)
(*                                                                         *)
(* A BD is its index in its ring; the ring starts at index 0.              *)
(***************************************************************************)
EXTENDS RingIndex, Sequences, SequencesExt

VARIABLES
  reg,         \* registers and state of each channel of the engine
  complete,    \* the COMPLETE bit of each BD
  data,        \* what each BD's buffer holds
  batch_tail   \* G_BATCH_*_TAILDESC_ADDR points here: two words of shared memory

dmaVars == <<reg, complete, data, batch_tail>>

Chan == {"tx", "rx"}
Base == 0
Null == N      \* the address 0 of a register that was reset: no BD
Empty == <<>>  \* a cleared buffer

\* cur is CURDESC and tail TAILDESC.  fresh: cur is not fetched yet; busy: it is
\* fetched and not written back; armed: a tail was written that the engine has
\* not reached.  halted, run, reset and ioc are bits of DMASR and DMACR, error
\* stands for DMASR's error bits.
AfterReset ==
  [run |-> FALSE, halted |-> TRUE, reset |-> FALSE, ioc |-> FALSE, error |-> FALSE,
   cur |-> Null, tail |-> Null, fresh |-> TRUE, busy |-> FALSE, armed |-> FALSE]

\* After the power is on: no program has written to the memory yet.
DmaInit ==
  /\ reg = [c \in Chan |-> AfterReset]
  /\ complete = [c \in Chan |-> [i \in Index |-> FALSE]]
  /\ data = [c \in Chan |-> [i \in Index |-> Empty]]
  /\ batch_tail = [c \in Chan |-> Null]

DmaTypeOK ==
  /\ \A c \in Chan :
       /\ reg[c].cur \in Index \cup {Null} /\ reg[c].tail \in Index \cup {Null}
       /\ \A f \in {"run", "halted", "reset", "ioc", "error", "fresh", "busy", "armed"} :
            reg[c][f] \in BOOLEAN
  /\ complete \in [Chan -> [Index -> BOOLEAN]]
  /\ batch_tail \in [Chan -> Index \cup {Null}]

-----------------------------------------------------------------------------
(***************************************************************************)
(* What the functions of dma.c do to the registers of channel c.           *)
(***************************************************************************)
\* The core has one reset: "reset of S2MM halts MM2S".
dma_reset(c) ==
  [d \in Chan |-> [AfterReset EXCEPT !.reset = (d = c)]]

dma_run(c) == [reg EXCEPT ![c].run = TRUE]
dma_clear_ioc(c) == [reg EXCEPT ![c].ioc = FALSE]

\* Refused unless the channel is halted.
dma_write_curdesc(c, i) ==
  IF reg[c].halted THEN [reg EXCEPT ![c].cur = i, ![c].fresh = TRUE] ELSE reg

\* A write to a running channel sets it going, unless it rests there.
dma_write_taildesc(c, i) ==
  [reg EXCEPT ![c].tail = i,
              ![c].armed = reg[c].run /\ ~reg[c].halted /\ (reg[c].fresh \/ i # reg[c].cur)]

RunReached(c) == reg[c].run /\ ~reg[c].halted
ResetDone(c) == ~reg[c].reset
Idle(c) == ~reg[c].halted /\ ~reg[c].armed /\ ~reg[c].busy

\* The engine will do nothing more by itself.
AtRest(c) == reg[c].run # reg[c].halted /\ (reg[c].halted \/ Idle(c)) /\ ~reg[c].reset

-----------------------------------------------------------------------------
(***************************************************************************)
(* The rings.                                                              *)
(***************************************************************************)
\* dma_init_bd_ring, with dma_init_bd for every BD.
dma_init_bd_ring(c, status) ==
  /\ complete' = [complete EXCEPT ![c] = [i \in Index |-> status]]
  /\ data' = [data EXCEPT ![c] = [i \in Index |-> Empty]]

\* dma_get_next_bd_addr: of no BD it reads through a null pointer.
dma_get_next_bd(i) == IF i = Null THEN Null ELSE NextSlot(i)

\* dma_next_available_*_bd.
Available(c) ==
  LET nxta == dma_get_next_bd(batch_tail[c])
  IN nxta # reg[c].cur /\ complete[c][nxta]

Nxta(c) == dma_get_next_bd(batch_tail[c])

\* The program writes buf in the next BD and calls dma_add_*_bd.
AddBd(c, buf) ==
  /\ data' = [data EXCEPT ![c][Nxta(c)] = buf]
  /\ complete' = [complete EXCEPT ![c][Nxta(c)] = FALSE]
  /\ batch_tail' = [batch_tail EXCEPT ![c] = Nxta(c)]
  /\ reg' = reg

-----------------------------------------------------------------------------
(***************************************************************************)
(* The engine, as the driver relies on it.                                 *)
(***************************************************************************)
\* The reset ends, the channel starts, or it stops once nothing is under way.
Control(c) ==
  /\ \/ /\ reg[c].reset
        /\ reg' = [reg EXCEPT ![c].reset = FALSE]
     \/ /\ reg[c].run /\ reg[c].halted /\ ~reg[c].error /\ ~reg[c].reset
        /\ reg' = [reg EXCEPT ![c].halted = FALSE]
  /\ UNCHANGED <<complete, data, batch_tail>>

NextFetched(c) == IF reg[c].fresh THEN reg[c].cur ELSE dma_get_next_bd(reg[c].cur)

\* It takes the next BD up to the tail, and halts on one that says COMPLETE or if
\* there is none at that address.
Fetch(c) ==
  /\ reg[c].armed /\ ~reg[c].busy
  /\ LET i == NextFetched(c) IN
     reg' = [reg EXCEPT ![c] =
               IF i = Null \/ complete[c][i]
                 THEN [@ EXCEPT !.run = FALSE, !.halted = TRUE, !.error = TRUE, !.armed = FALSE]
                 ELSE [@ EXCEPT !.cur = i, !.fresh = FALSE, !.busy = TRUE,
                                !.armed = i # reg[c].tail]]
  /\ UNCHANGED <<complete, data, batch_tail>>

\* The BD is finished: its buffer is sent, or filled with buf.
Finish(c, buf) ==
  /\ reg[c].busy
  /\ reg' = [reg EXCEPT ![c].busy = FALSE, ![c].ioc = TRUE]
  /\ complete' = [complete EXCEPT ![c][reg[c].cur] = TRUE]
  /\ data' = [data EXCEPT ![c][reg[c].cur] = buf]
  /\ batch_tail' = batch_tail

-----------------------------------------------------------------------------
(***************************************************************************)
(* Who owns which BD.                                                      *)
(***************************************************************************)
\* The BD that the engine finishes next, and the BDs from there that it was
\* given and that only wait for the batch to be handed over.
NextFinished(c) == IF reg[c].busy THEN reg[c].cur ELSE NextFetched(c)
Given(c) ==
  (IF reg[c].armed \/ reg[c].busy THEN Distance(NextFinished(c), reg[c].tail) + 1 ELSE 0)
    + Distance(reg[c].tail, batch_tail[c])

\* The BDs that are not complete are those the engine was given, in its order,
\* and those in the batch: the program waits for the BD the engine comes to.
RingShared(c) ==
  /\ ~reg[c].error
  /\ Given(c) <= N
  /\ \A i \in Index : complete[c][i] <=> Distance(NextFinished(c), i) >= Given(c)
=============================================================================
