---------------------------- MODULE CanTxProofs ----------------------------
(***************************************************************************)
(* Theorems about CanTx, for every number of buffers and mailboxes and     *)
(* every width of CANtxCount.  All of them assume that the backlog stays   *)
(* below the width: the run cantx_wrap shows what happens when it does not.*)
(***************************************************************************)
EXTENDS CanTx, FiniteSetTheorems, TLAPS

(* The bound on the backlog, carried along so that the count cannot wrap.  *)
BelowBacklog == count <= Backlog

(* The inductive invariant.  NoStall needs NoFrameLostInIsr: an interrupt  *)
(* that takes a frame leaves a busy mailbox behind only because the frame  *)
(* found one free.                                                         *)
IInv ==
  /\ TypeOK
  /\ BelowBacklog
  /\ CountCoversFull
  /\ NoStall
  /\ NoFrameLostInIsr

(* The constants' types, one by one. *)
LEMMA ConstTypes ==
  /\ TxSize \in Nat
  /\ Mailboxes \in Nat /\ Mailboxes > 0
  /\ CountMod \in Nat /\ CountMod > 0
  /\ Backlog \in Nat /\ Backlog > 0
BY CanTxAssumption

(* The buffers are finitely many, and so is every set of full ones. *)
LEMMA FullIsFinite ==
  ASSUME NEW S \in SUBSET Buffers
  PROVE  IsFiniteSet(S) /\ Cardinality(S) \in Nat
<1>1. IsFiniteSet(Buffers)
  BY CanTxAssumption, FS_Interval DEF Buffers
<1>2. IsFiniteSet(S)
  BY <1>1, FS_Subset
<1>3. QED
  BY <1>2, FS_CardinalityType

(* One more full buffer raises the number of full buffers by at most one.  *)
LEMMA FillCard ==
  ASSUME NEW S \in SUBSET Buffers, NEW b \in Buffers
  PROVE  Cardinality(S \cup {b}) <= Cardinality(S) + 1
<1>1. IsFiniteSet(S) /\ Cardinality(S) \in Nat
  BY FullIsFinite
<1>2. CASE b \in S
  <2>1. S \cup {b} = S
    BY <1>2
  <2>2. Cardinality(S \cup {b}) = Cardinality(S)
    BY <2>1, Zenon
  <2>3. QED
    BY <1>1, <2>2
<1>3. CASE b \notin S
  <2>1. Cardinality(S \cup {b}) = Cardinality(S) + 1
    BY <1>1, <1>3, FS_AddElement, Zenon
  <2>2. QED
    BY <1>1, <2>1
<1>4. QED
  BY <1>2, <1>3

(* Initially nothing is queued. *)
LEMMA InitIInv ==
  ASSUME 0 < CountMod
  PROVE  Init => IInv
<1>1. Cardinality({}) = 0
  BY FS_EmptySet
<1>2. Init => TypeOK
  <2>1. 0 \in 0 .. CountMod - 1 /\ 0 \in 0 .. Mailboxes
    BY ConstTypes
  <2>2. QED
    BY <2>1, Zenon DEF Init, TypeOK
<1>3. Init => BelowBacklog
  BY ConstTypes DEF Init, BelowBacklog
<1>4. Init => CountCoversFull
  BY <1>1 DEF Init, CountCoversFull
<1>5. Init => NoStall /\ NoFrameLostInIsr
  BY DEF Init, NoStall, NoFrameLostInIsr
<1>6. QED
  BY <1>2, <1>3, <1>4, <1>5 DEF IInv

(* A thread that sends keeps the invariant: if it queues, either frames    *)
(* were queued before (and were on their way) or every mailbox is busy.    *)
LEMMA SendIInv ==
  ASSUME Backlog < CountMod, IInv, NEW b \in Buffers, Send(b)
  PROVE  IInv'
<1> USE ConstTypes
<1>1. PICK done \in 0 .. busy :
        /\ irq' = (done > 0)
        /\ \/ /\ ~MustQueue(done)
              /\ busy' = busy - done + 1
              /\ inhibit' = (b \in Sync)
              /\ UNCHANGED <<full, count>>
           \/ /\ MustQueue(done)
              /\ count < Backlog
              /\ full' = full \cup {b}
              /\ count' = CountQueued
              /\ busy' = busy - done
              /\ UNCHANGED inhibit
  BY DEF Send
<1>2. ~irq
  BY DEF Send
<1>3. CASE ~MustQueue(done)
  <2>1. /\ count = 0
        /\ busy' = busy - done + 1
        /\ busy - done # Mailboxes
        /\ inhibit' = (b \in Sync)
        /\ UNCHANGED <<full, count>>
    BY <1>1, <1>3 DEF MustQueue, IInv, TypeOK
  <2>2. TypeOK'
    BY <1>1, <2>1 DEF IInv, TypeOK
  <2>3. CountCoversFull' /\ BelowBacklog'
    BY <2>1 DEF IInv, CountCoversFull, BelowBacklog
  <2>4. NoStall' /\ NoFrameLostInIsr'
    BY <2>1 DEF NoStall, NoFrameLostInIsr
  <2>5. QED
    BY <2>2, <2>3, <2>4 DEF IInv
<1>4. CASE MustQueue(done)
  <2>1. /\ count < Backlog
        /\ full' = full \cup {b}
        /\ count' = (count + 1) % CountMod
        /\ busy' = busy - done
        /\ UNCHANGED inhibit
    BY <1>1, <1>4 DEF CountQueued
  <2>2. count' = count + 1
    BY <2>1 DEF IInv, TypeOK
  <2>3. TypeOK'
    BY <1>1, <2>1, <2>2 DEF IInv, TypeOK
  <2>4. BelowBacklog'
    BY <2>1, <2>2 DEF IInv, TypeOK, BelowBacklog
  <2>5. CountCoversFull'
    <3>1. Cardinality(full') <= Cardinality(full) + 1
      BY <2>1, FillCard DEF IInv, TypeOK
    <3>2. Cardinality(full) \in Nat /\ Cardinality(full') \in Nat
      BY <2>3, FullIsFinite DEF IInv, TypeOK
    <3>3. QED
      BY <2>2, <3>1, <3>2 DEF IInv, TypeOK, CountCoversFull
  <2>6. NoStall'
    <3>1. CASE done > 0
      <4>1. irq'
        BY <1>1, <3>1, Zenon
      <4>2. QED
        BY <4>1, Zenon DEF NoStall
    <3>2. CASE done = 0
      <4>1. busy' = busy
        BY <2>1, <3>2 DEF IInv, TypeOK
      <4>2. count > 0 => busy > 0
        BY <1>2, Zenon DEF IInv, NoStall
      <4>3. busy' > 0
        BY <1>4, <3>2, <4>1, <4>2 DEF IInv, TypeOK, MustQueue
      <4>4. QED
        BY <4>3, Zenon DEF NoStall
    <3>3. QED
      BY <3>1, <3>2
  <2>7. NoFrameLostInIsr'
    <3>1. irq' => done > 0
      BY <1>1, Zenon
    <3>2. done > 0 => busy' < Mailboxes
      BY <2>1 DEF IInv, TypeOK
    <3>3. QED
      BY <3>1, <3>2, Zenon DEF NoFrameLostInIsr
  <2>8. QED
    BY <2>3, <2>4, <2>5, <2>6, <2>7 DEF IInv
<1>5. QED
  BY <1>3, <1>4

(* Dropping the queued synchronous frames lowers the count by their        *)
(* number: it stays above the number of the frames that remain.            *)
LEMMA ClearIInv ==
  ASSUME Backlog < CountMod, IInv, ClearPendingSyncPDOs
  PROVE  IInv'
<1> USE ConstTypes
<1>1. CASE count = 0
  BY <1>1
     DEF ClearPendingSyncPDOs, IInv, TypeOK, BelowBacklog, CountCoversFull,
         NoStall, NoFrameLostInIsr
<1>2. CASE count # 0
  <2> DEFINE gone == full \cap Sync
  <2>1. /\ full' = full \ Sync
        /\ count' = (count - Cardinality(gone)) % CountMod
        /\ inhibit' = FALSE
        /\ UNCHANGED <<busy, irq>>
        /\ ~irq
    BY <1>2 DEF ClearPendingSyncPDOs
  <2>2. Cardinality(full) = Cardinality(full \ Sync) + Cardinality(gone)
    <3>1. IsFiniteSet(full)
      BY FullIsFinite DEF IInv, TypeOK
    <3>2. Cardinality(full \ Sync) = Cardinality(full) - Cardinality(gone)
      BY <3>1, FS_Difference
    <3>3. full \ Sync \in SUBSET Buffers /\ gone \in SUBSET Buffers
      BY DEF IInv, TypeOK
    <3>4. QED
      BY <3>2, <3>3, FullIsFinite DEF IInv, TypeOK
  <2>3. /\ Cardinality(full) \in Nat
        /\ Cardinality(full \ Sync) \in Nat
        /\ Cardinality(gone) \in Nat
    BY FullIsFinite DEF IInv, TypeOK
  <2> HIDE DEF gone
  <2>4. count - Cardinality(gone) \in 0 .. count
    BY <2>2, <2>3 DEF IInv, TypeOK, CountCoversFull
  <2>5. count' = count - Cardinality(gone)
    BY <2>1, <2>3, <2>4 DEF IInv, TypeOK
  <2>6. TypeOK' /\ BelowBacklog'
    <3>1. count' \in 0 .. CountMod - 1 /\ count' <= Backlog
      BY <2>4, <2>5 DEF IInv, TypeOK, BelowBacklog
    <3>2. full' \subseteq Buffers /\ busy' \in 0 .. Mailboxes
      BY <2>1 DEF IInv, TypeOK
    <3>3. irq' \in BOOLEAN /\ inhibit' \in BOOLEAN
      BY <2>1, Zenon DEF IInv, TypeOK
    <3>4. QED
      BY <3>1, <3>2, <3>3 DEF TypeOK, BelowBacklog
  <2>7. CountCoversFull'
    BY <2>1, <2>2, <2>3, <2>5 DEF IInv, TypeOK, CountCoversFull
  <2>8. NoStall' /\ NoFrameLostInIsr'
    BY <1>2, <2>1, <2>4, <2>5 DEF IInv, TypeOK, NoStall, NoFrameLostInIsr
  <2>9. QED
    BY <2>6, <2>7, <2>8 DEF IInv
<1>3. QED
  BY <1>1, <1>2

(* Emptying a buffer behind the count's back leaves the count too high,    *)
(* which is the safe side.                                                 *)
LEMMA TxBufferInitIInv ==
  ASSUME IInv, NEW b \in Reinit, TxBufferInit(b)
  PROVE  IInv'
<1>1. full' = full \ {b} /\ UNCHANGED <<count, busy, irq, inhibit>>
  BY DEF TxBufferInit
<1>2. TypeOK'
  BY <1>1 DEF IInv, TypeOK
<1>3. CountCoversFull'
  <2>1. Cardinality(full \ {b}) <= Cardinality(full)
    BY FullIsFinite, FS_Subset DEF IInv, TypeOK
  <2>2. /\ Cardinality(full) \in Nat
        /\ Cardinality(full \ {b}) \in Nat
    BY FullIsFinite DEF IInv, TypeOK
  <2>3. QED
    BY <1>1, <2>1, <2>2, CanTxAssumption DEF IInv, TypeOK, CountCoversFull
<1>4. QED
  BY <1>1, <1>2, <1>3 DEF IInv, BelowBacklog, NoStall, NoFrameLostInIsr

(* A completed mailbox is free, and its interrupt is on its way.           *)
LEMMA MailboxDoneIInv ==
  ASSUME IInv, MailboxDone
  PROVE  IInv'
BY CanTxAssumption
   DEF MailboxDone, IInv, TypeOK, BelowBacklog, CountCoversFull, NoStall, NoFrameLostInIsr

(* The interrupt takes one buffer and one off the count; the mailbox it    *)
(* fills brings the next interrupt.                                        *)
LEMMA TxIsrIInv ==
  ASSUME IInv, TxIsr
  PROVE  IInv'
<1> USE ConstTypes
<1>1. CASE count = 0
  <2>1. UNCHANGED <<full, count, busy>> /\ inhibit' = FALSE /\ irq' = FALSE
    BY <1>1 DEF TxIsr
  <2>2. TypeOK' /\ BelowBacklog' /\ CountCoversFull'
    BY <2>1 DEF IInv, TypeOK, BelowBacklog, CountCoversFull
  <2>3. NoStall' /\ NoFrameLostInIsr'
    BY <1>1, <2>1 DEF NoStall, NoFrameLostInIsr
  <2>4. QED
    BY <2>2, <2>3 DEF IInv
<1>2. CASE count > 0 /\ full = {}
  <2>1. Cardinality({}) = 0
    BY FS_EmptySet
  <2>2. full' = {} /\ count' = 0 /\ inhibit' = FALSE /\ UNCHANGED busy /\ irq' = FALSE
    BY <1>2 DEF TxIsr, CountNoneFound, IInv, TypeOK
  <2>3. TypeOK' /\ BelowBacklog'
    <3>1. 0 \in 0 .. CountMod - 1 /\ 0 <= Backlog
      OBVIOUS
    <3>2. QED
      BY <2>2, <3>1, Zenon DEF IInv, TypeOK, BelowBacklog
  <2>4. CountCoversFull'
    BY <2>1, <2>2 DEF CountCoversFull
  <2>5. NoStall' /\ NoFrameLostInIsr'
    BY <2>2 DEF NoStall, NoFrameLostInIsr
  <2>6. QED
    BY <2>3, <2>4, <2>5 DEF IInv
<1>3. CASE count > 0 /\ full # {}
  <2>1. PICK b \in full :
          /\ full' = full \ {b}
          /\ count' = count - 1
          /\ inhibit' = (b \in Sync)
          /\ busy' = IF busy < Mailboxes THEN busy + 1 ELSE busy
    BY <1>3 DEF TxIsr, IInv, TypeOK
  <2>2. irq /\ irq' = FALSE
    BY DEF TxIsr
  <2>3. busy < Mailboxes
    BY <1>3, <2>2 DEF IInv, NoFrameLostInIsr
  <2>4. Cardinality(full \ {b}) = Cardinality(full) - 1
    BY <2>1, FullIsFinite, FS_RemoveElement DEF IInv, TypeOK
  <2>5. TypeOK' /\ BelowBacklog'
    <3>1. busy' = busy + 1
      BY <2>1, <2>3, Zenon
    <3>2. count' \in 0 .. CountMod - 1 /\ count' <= Backlog
      BY <1>3, <2>1 DEF IInv, TypeOK, BelowBacklog
    <3>3. busy' \in 0 .. Mailboxes
      BY <2>3, <3>1 DEF IInv, TypeOK
    <3>4. full' \subseteq Buffers
      BY <2>1 DEF IInv, TypeOK
    <3>5. irq' \in BOOLEAN /\ inhibit' \in BOOLEAN
      <4>1. inhibit' = (b \in Sync)
        BY <2>1, Zenon
      <4>2. inhibit' \in BOOLEAN
        BY <4>1, SMT
      <4>3. irq' \in BOOLEAN
        BY <2>2, Zenon
      <4>4. QED
        BY <4>2, <4>3, Zenon
    <3>6. QED
      BY <3>2, <3>3, <3>4, <3>5 DEF TypeOK, BelowBacklog
  <2>6. CountCoversFull'
    <3>1. Cardinality(full) \in Nat
      BY FullIsFinite DEF IInv, TypeOK
    <3>2. QED
      BY <2>1, <2>4, <3>1 DEF IInv, TypeOK, CountCoversFull
  <2>7. NoStall' /\ NoFrameLostInIsr'
    BY <2>1, <2>2, <2>3 DEF IInv, TypeOK, NoStall, NoFrameLostInIsr
  <2>8. QED
    BY <2>5, <2>6, <2>7 DEF IInv
<1>4. QED
  BY <1>1, <1>2, <1>3 DEF TxIsr

(* Every step keeps the invariant. *)
LEMMA StepIInv ==
  ASSUME Backlog < CountMod, IInv, [Next]_vars
  PROVE  IInv'
<1>1. ASSUME NEW b \in Buffers, Send(b) PROVE IInv'
  BY <1>1, SendIInv
<1>2. CASE ClearPendingSyncPDOs
  BY <1>2, ClearIInv
<1>3. ASSUME NEW b \in Reinit, TxBufferInit(b) PROVE IInv'
  BY <1>3, TxBufferInitIInv
<1>4. CASE MailboxDone
  BY <1>4, MailboxDoneIInv
<1>5. CASE TxIsr
  BY <1>5, TxIsrIInv
<1>6. CASE UNCHANGED vars
  BY <1>6
     DEF vars, IInv, TypeOK, BelowBacklog, CountCoversFull, NoStall, NoFrameLostInIsr
<1>7. QED
  BY <1>1, <1>2, <1>3, <1>4, <1>5, <1>6 DEF Next

(* The inductive invariant holds in every reachable state. *)
THEOREM CanTxInvariant ==
  ASSUME Backlog < CountMod
  PROVE  Spec => []IInv
<1>1. Init => IInv
  BY InitIInv, CanTxAssumption
<1>2. IInv /\ [Next]_vars => IInv'
  BY StepIInv
<1>3. QED
  BY <1>1, <1>2, PTL DEF Spec

(* Types, for every instance. *)
THEOREM CanTxTypeCorrect ==
  ASSUME Backlog < CountMod
  PROVE  Spec => []TypeOK
BY CanTxInvariant, PTL DEF IInv

(* CANtxCount never understates the frames that wait, so the interrupt     *)
(* never stops looking while one is left.                                  *)
THEOREM CountCoversFullAlways ==
  ASSUME Backlog < CountMod
  PROVE  Spec => []CountCoversFull
BY CanTxInvariant, PTL DEF IInv

(* A driver that queues always has an interrupt coming: transmission       *)
(* cannot stop for good.                                                   *)
THEOREM NeverStalls ==
  ASSUME Backlog < CountMod
  PROVE  Spec => []NoStall
BY CanTxInvariant, PTL DEF IInv

(* The interrupt never takes a frame that the hardware then refuses.       *)
THEOREM IsrLosesNothing ==
  ASSUME Backlog < CountMod
  PROVE  Spec => []NoFrameLostInIsr
BY CanTxInvariant, PTL DEF IInv
============================================================================
