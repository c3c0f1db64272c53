---------------------------- MODULE MutexQueueProofs ----------------------------
(***************************************************************************)
(* The default event queue is a FIFO for every number of producers and     *)
(* every capacity: the results MCMutexQueue checks on a small instance.    *)
(***************************************************************************)
EXTENDS MutexQueue, SequenceTheorems, TLAPS

\* The mutex is held exactly between lock and unlock.
HoldsMutex == \A p \in Producer : pc[p] \in Locked <=> mutex = p

\* What a producer has established by the time it is at each step.
PushProgress ==
    \A p \in Producer :
        /\ pc[p] # "idle" => arg[p] \in Value
        /\ pc[p] \in {"fill_param", "publish"} => buffer[write].name = arg[p]
        /\ pc[p] = "publish" => buffer[write].param = arg[p]

\* The consumer goes on only when it has seen an entry, and only it pops.
UsesWaiting == consumer = "using" => read # write

(***************************************************************************)
(* Type correctness and mutual exclusion come first; the facts about the   *)
(* indexes need no more than these.                                        *)
(***************************************************************************)
IndexInv == TypeOK /\ HoldsMutex /\ FillsFreeSlot /\ UsesWaiting

IInv == IndexInv /\ PushProgress /\ ContentsWhole
--------------------------------------------------------------------------------
LEMMA IncIndexSlot ==
    ASSUME NEW i \in Slot
    PROVE  /\ IncIndex(i) \in Slot
           /\ IncIndex(i) = IF i = Capacity THEN 0 ELSE i + 1
  BY CapacityAssumption DEF IncIndex, Slot, Size

(***************************************************************************)
(* The positions of the waiting events are slots, distinct from the slot   *)
(* at the write index, and the first is the slot at the read index.        *)
(***************************************************************************)
LEMMA WaitingSlots ==
    ASSUME read \in Slot, write \in Slot
    PROVE  /\ Count \in 0 .. Capacity
           /\ Count = 0 <=> read = write
           /\ Count = Capacity <=> IncIndex(write) = read
           /\ \A i \in 1 .. Count : Index(i) \in Slot /\ Index(i) # write
           /\ Count # 0 => Index(1) = read
  BY CapacityAssumption DEF Count, Index, Slot, Size, IncIndex

\* The three shapes a step can have for the indexes.
LEMMA PublishIndexes ==
    ASSUME read \in Slot, write \in Slot, IncIndex(write) # read,
           read' = read, write' = IncIndex(write)
    PROVE  /\ Count' = Count + 1
           /\ \A i \in 1 .. Count : Index(i)' = Index(i)
           /\ Index(Count)' = write
  BY CapacityAssumption DEF Count, Index, Slot, Size, IncIndex

LEMMA PopIndexes ==
    ASSUME read \in Slot, write \in Slot, read # write,
           read' = IncIndex(read), write' = write
    PROVE  /\ Count \in Nat \ {0}
           /\ Count' = Count - 1
           /\ \A i \in 1 .. Count - 1 : Index(i)' = Index(i + 1)
  BY CapacityAssumption DEF Count, Index, Slot, Size, IncIndex

LEMMA SameIndexes ==
    ASSUME read' = read, write' = write
    PROVE  Count' = Count /\ \A i : Index(i)' = Index(i)
  BY DEF Count, Index, Size
--------------------------------------------------------------------------------
LEMMA IndexInvInit == Init => IndexInv
  BY CapacityAssumption, NoProducerAssumption
  DEF Init, IndexInv, TypeOK, HoldsMutex, FillsFreeSlot, UsesWaiting, Slot,
      Locked, Filling

LEMMA TypeStep == TypeOK /\ [Next]_vars => TypeOK'
<1> SUFFICES ASSUME TypeOK, [Next]_vars PROVE TypeOK'
  OBVIOUS
<1> USE DEF TypeOK, Goto
<1>1. ASSUME NEW p \in Producer, NEW v \in Value, CallPush(p, v) PROVE TypeOK'
  BY <1>1 DEF CallPush
<1>2. ASSUME NEW p \in Producer, Lock(p) \/ RefuseFull(p) \/ FindRoom(p)
      PROVE TypeOK'
  BY <1>2 DEF Lock, RefuseFull, FindRoom, Full, MutexFree, Locked
<1>3. ASSUME NEW p \in Producer, FillName(p) PROVE TypeOK'
  BY <1>3 DEF FillName, Locked
<1>4. ASSUME NEW p \in Producer, FillParam(p) PROVE TypeOK'
  BY <1>4 DEF FillParam, Locked
<1>5. ASSUME NEW p \in Producer, Publish(p) PROVE TypeOK'
  BY <1>5, IncIndexSlot DEF Publish, Locked
<1>6. ASSUME NEW p \in Producer, Unlock(p) PROVE TypeOK'
  BY <1>6 DEF Unlock
<1>7. CASE SeeNonEmpty
  BY <1>7 DEF SeeNonEmpty, NotEmpty, MutexFree
<1>8. CASE Pop
  BY <1>8, IncIndexSlot DEF Pop, MutexFree
<1>9. CASE UNCHANGED vars
  BY <1>9 DEF vars
<1> QED
  BY <1>1, <1>2, <1>3, <1>4, <1>5, <1>6, <1>7, <1>8, <1>9 DEF Next, Push

(***************************************************************************)
(* Every value a variable takes is of its kind: the indexes stay in the    *)
(* buffer although inc_index wraps by comparison, not by modulus.          *)
(***************************************************************************)
THEOREM TypeCorrect == Spec => []TypeOK
<1>1. Init => TypeOK
  BY IndexInvInit DEF IndexInv
<1> QED
  BY <1>1, TypeStep, PTL DEF Spec

LEMMA IndexInvStep == IndexInv /\ [Next]_vars => IndexInv'
<1> SUFFICES ASSUME IndexInv, [Next]_vars PROVE IndexInv'
  OBVIOUS
<1>t. TypeOK /\ TypeOK'
  BY TypeStep DEF IndexInv
<1> USE <1>t, NoProducerAssumption
    DEF IndexInv, TypeOK, HoldsMutex, FillsFreeSlot, UsesWaiting, Goto,
        Locked, Filling
<1>1. ASSUME NEW p \in Producer, NEW v \in Value, CallPush(p, v) PROVE IndexInv'
  BY <1>1 DEF CallPush, IncIndex
<1>2. ASSUME NEW p \in Producer, Lock(p) PROVE IndexInv'
  BY <1>2 DEF Lock, MutexFree, IncIndex
<1>3. ASSUME NEW p \in Producer, RefuseFull(p) \/ FindRoom(p) PROVE IndexInv'
  BY <1>3 DEF RefuseFull, FindRoom, Full, IncIndex
<1>4. ASSUME NEW p \in Producer, FillName(p) \/ FillParam(p) PROVE IndexInv'
  BY <1>4 DEF FillName, FillParam, IncIndex
<1>5. ASSUME NEW p \in Producer, Publish(p) PROVE IndexInv'
  <2>1. HoldsMutex'
    BY <1>5 DEF Publish
  <2>2. mutex = p /\ mutex' = p
    BY <1>5 DEF Publish
  <2>3. FillsFreeSlot'
    BY <1>5, <2>1, <2>2 DEF Publish
  <2>4. UsesWaiting'
    BY <1>5 DEF Publish
  <2> QED
    BY <2>1, <2>3, <2>4
<1>6. ASSUME NEW p \in Producer, Unlock(p) PROVE IndexInv'
  BY <1>6 DEF Unlock, IncIndex
<1>7. CASE SeeNonEmpty
  BY <1>7 DEF SeeNonEmpty, NotEmpty, MutexFree, IncIndex
<1>8. CASE Pop
  <2>1. \A p \in Producer : pc[p] \notin Filling
    BY <1>8 DEF Pop, MutexFree
  <2> QED
    BY <1>8, <2>1 DEF Pop, MutexFree
<1>9. CASE UNCHANGED vars
  BY <1>9 DEF vars, IncIndex
<1> QED
  BY <1>1, <1>2, <1>3, <1>4, <1>5, <1>6, <1>7, <1>8, <1>9 DEF Next, Push
THEOREM FillsFreeSlotAlways == Spec => []FillsFreeSlot
<1>1. IndexInv => FillsFreeSlot
  BY DEF IndexInv
<1> QED
  BY <1>1, IndexInvInit, IndexInvStep, PTL DEF Spec

(***************************************************************************)
(* The consumer's entry is stable: a producer fills the slot at the write  *)
(* index, which is not the slot at the read index while the consumer uses  *)
(* an entry, and the mutex keeps the check and the fill together.          *)
(***************************************************************************)
THEOREM FrontIsStable == Spec => FrontStable
<1>1. ASSUME IndexInv, [Next]_vars
      PROVE  [consumer = "using" => buffer'[read] = buffer[read]]_vars
  <2> USE <1>1 DEF IndexInv, UsesWaiting, TypeOK
  <2>1. ASSUME NEW p \in Producer, FillName(p) \/ FillParam(p)
        PROVE  consumer = "using" => buffer'[read] = buffer[read]
    BY <2>1 DEF FillName, FillParam
  <2>2. ASSUME buffer' = buffer
        PROVE  consumer = "using" => buffer'[read] = buffer[read]
    BY <2>2
  <2> QED
    BY <2>1, <2>2 DEF Next, Push, CallPush, Lock, RefuseFull, FindRoom, Full, MutexFree, Publish,
                      Unlock, SeeNonEmpty, Pop, vars
<1> QED
  BY <1>1, IndexInvInit, IndexInvStep, PTL DEF Spec, FrontStable

(***************************************************************************)
(* A push is refused only when Capacity events wait: no slot is lost when  *)
(* the indexes wrap.                                                       *)
(***************************************************************************)
THEOREM RefusalsAreJustified == Spec => RefusesOnlyWhenFull
<1>1. ASSUME TypeOK, [Next]_vars
      PROVE  [\A p \in Producer : RefuseFull(p) => Count = Capacity]_vars
  BY <1>1, WaitingSlots DEF TypeOK, RefuseFull, Full
<1> QED
  BY <1>1, TypeCorrect, PTL DEF Spec, RefusesOnlyWhenFull
--------------------------------------------------------------------------------
(* What the slots hold *)

LEMMA IInvInit == Init => IInv
<1> SUFFICES ASSUME Init PROVE PushProgress /\ ContentsWhole
  BY IndexInvInit DEF IInv
<1>1. PushProgress
  BY DEF Init, PushProgress
<1>2. Count = 0
  BY DEF Init, Count
<1> QED
  BY <1>1, <1>2 DEF ContentsWhole

\* Only the producer that holds the mutex moves, and the others are outside.
LEMMA PushProgressStep == IInv /\ [Next]_vars => PushProgress'
<1> SUFFICES ASSUME IInv, [Next]_vars PROVE PushProgress'
  OBVIOUS
<1> USE DEF IInv, IndexInv, TypeOK, HoldsMutex, PushProgress, Goto, Locked
<1>1. ASSUME NEW p \in Producer, NEW v \in Value, CallPush(p, v)
      PROVE  PushProgress'
  BY <1>1 DEF CallPush
<1>2. ASSUME NEW p \in Producer,
             Lock(p) \/ RefuseFull(p) \/ FindRoom(p) \/ Unlock(p)
      PROVE  PushProgress'
  BY <1>2 DEF Lock, RefuseFull, FindRoom, Full, MutexFree, Unlock
<1>3. ASSUME NEW p \in Producer, FillName(p) PROVE PushProgress'
  <2>1. buffer'[write].name = arg[p] /\ buffer'[write].param = buffer[write].param
    BY <1>3 DEF FillName
  <2> QED
    BY <1>3, <2>1 DEF FillName
<1>4. ASSUME NEW p \in Producer, FillParam(p) PROVE PushProgress'
  <2>1. buffer'[write].param = arg[p] /\ buffer'[write].name = buffer[write].name
    BY <1>4 DEF FillParam
  <2> QED
    BY <1>4, <2>1 DEF FillParam
<1>5. ASSUME NEW p \in Producer, Publish(p) PROVE PushProgress'
  BY <1>5 DEF Publish
<1>6. CASE SeeNonEmpty
  BY <1>6 DEF SeeNonEmpty, NotEmpty, MutexFree
<1>7. CASE Pop
  BY <1>7 DEF Pop, MutexFree
<1>8. CASE UNCHANGED vars
  BY <1>8 DEF vars
<1> QED
  BY <1>1, <1>2, <1>3, <1>4, <1>5, <1>6, <1>7, <1>8 DEF Next, Push

(***************************************************************************)
(* How a step changes the waiting events: it appends, removes or leaves    *)
(* them as they are.                                                       *)
(***************************************************************************)
LEMMA FillKeepsContents ==
    ASSUME TypeOK, read' = read, write' = write,
           \A i \in Slot \ {write} : buffer'[i] = buffer[i]
    PROVE  Contents' = Contents
<1>1. \A i \in 1 .. Count : buffer'[Index(i)'] = buffer[Index(i)]
  BY WaitingSlots, SameIndexes DEF TypeOK
<1> QED
  BY <1>1, SameIndexes DEF Contents

LEMMA ContentsIsSeq ==
    ASSUME TypeOK
    PROVE  /\ Contents \in Seq([name : Value \cup {NoValue},
                                param : Value \cup {NoValue}])
           /\ Len(Contents) = Count
           /\ \A i \in 1 .. Count : Contents[i] = buffer[Index(i)]
<1>1. Count \in Nat /\ \A i \in 1 .. Count : Index(i) \in Slot
  BY WaitingSlots DEF TypeOK
<1> QED
  BY <1>1 DEF Contents, TypeOK

LEMMA PublishAppends ==
    ASSUME IInv, NEW p \in Producer, Publish(p)
    PROVE  /\ Len(Contents) < Capacity
           /\ arg[p] \in Value
           /\ Contents' = Append(Contents, [name |-> arg[p], param |-> arg[p]])
<1> DEFINE Entry == [name : Value \cup {NoValue}, param : Value \cup {NoValue}]
           entry == [name |-> arg[p], param |-> arg[p]]
           after == Append(Contents, entry)
<1>1. IncIndex(write) # read /\ read \in Slot /\ write \in Slot
  BY DEF IInv, IndexInv, TypeOK, Publish, FillsFreeSlot, Filling
<1>2. Count \in Nat /\ Count < Capacity
  BY <1>1, WaitingSlots, CapacityAssumption
<1>3. /\ Contents \in Seq(Entry)
      /\ Len(Contents) = Count
      /\ \A i \in 1 .. Count : Contents[i] = buffer[Index(i)]
  BY ContentsIsSeq DEF IInv, IndexInv
<1>4. arg[p] \in Value /\ buffer[write] = entry
  BY <1>1 DEF Publish, PushProgress, IInv, IndexInv, TypeOK
<1>5. /\ Count' = Count + 1
      /\ \A i \in 1 .. Count : Index(i)' = Index(i)
      /\ Index(Count)' = write
  BY <1>1, PublishIndexes DEF Publish
<1>6. buffer' = buffer
  BY DEF Publish
<1>7. /\ after \in Seq(Entry)
      /\ Len(after) = Count + 1
      /\ \A i \in 1 .. Count : after[i] = Contents[i]
      /\ after[Count + 1] = entry
  BY <1>3, <1>4, AppendProperties
<1>8. Contents' = [i \in 1 .. Count + 1 |-> buffer[Index(i)']]
  BY <1>5, <1>6 DEF Contents
<1>9. \A i \in 1 .. Count + 1 : buffer[Index(i)'] = after[i]
  <2> TAKE i \in 1 .. Count + 1
  <2>1. CASE i \in 1 .. Count
    BY <2>1, <1>3, <1>5, <1>7
  <2>2. CASE i = Count + 1
    BY <2>2, <1>4, <1>5, <1>7
  <2>3. i \in 1 .. Count \/ i = Count + 1
    BY <1>2
  <2> QED
    BY <2>1, <2>2, <2>3
<1>10. after = [i \in 1 .. Count + 1 |-> after[i]]
  BY <1>7, <1>2
<1>11. Contents' = after
  BY <1>8, <1>9, <1>10
<1> QED
  BY <1>2, <1>3, <1>4, <1>11

LEMMA PopRemoves ==
    ASSUME IInv, Pop
    PROVE  /\ Contents # <<>>
           /\ Contents' = Tail(Contents)
<1> DEFINE Entry == [name : Value \cup {NoValue}, param : Value \cup {NoValue}]
           after == Tail(Contents)
<1>1. read \in Slot /\ write \in Slot /\ read # write
  BY DEF IInv, IndexInv, TypeOK, UsesWaiting, Pop
<1>2. /\ Contents \in Seq(Entry)
      /\ Len(Contents) = Count
      /\ \A i \in 1 .. Count : Contents[i] = buffer[Index(i)]
  BY ContentsIsSeq DEF IInv, IndexInv
<1>3. /\ Count \in Nat \ {0}
      /\ Count' = Count - 1
      /\ \A i \in 1 .. Count - 1 : Index(i)' = Index(i + 1)
  BY <1>1, PopIndexes DEF Pop, MutexFree
<1>4. Contents # <<>>
  BY <1>2, <1>3
<1>5. /\ after \in Seq(Entry)
      /\ Len(after) = Count - 1
      /\ \A i \in 1 .. Count - 1 : after[i] = Contents[i + 1]
  BY <1>2, <1>3, <1>4, HeadTailProperties
<1>6. Contents' = [i \in 1 .. Count - 1 |-> buffer[Index(i)']]
  BY <1>3 DEF Contents, Pop
<1>7. \A i \in 1 .. Count - 1 : buffer[Index(i)'] = after[i]
  BY <1>2, <1>3, <1>5
<1>8. after = [i \in 1 .. Count - 1 |-> after[i]]
  <2> HIDE DEF after
  <2> QED
    BY <1>5, LenProperties
<1> QED
  BY <1>4, <1>6, <1>7, <1>8

\* The other steps leave the waiting events alone.
LEMMA OthersKeepContents ==
    ASSUME IInv,
           \/ UNCHANGED vars
           \/ SeeNonEmpty
           \/ \E p \in Producer :
                 \/ Lock(p) \/ RefuseFull(p) \/ FindRoom(p) \/ Unlock(p)
                 \/ FillName(p) \/ FillParam(p)
                 \/ \E v \in Value : CallPush(p, v)
    PROVE  Contents' = Contents
<1>1. /\ read' = read /\ write' = write
      /\ \A i \in Slot \ {write} : buffer'[i] = buffer[i]
  BY DEF vars, SeeNonEmpty, Lock, RefuseFull, FindRoom, Full, MutexFree, Unlock, FillName,
         FillParam, CallPush, IInv, IndexInv, TypeOK
<1> QED
  BY <1>1, FillKeepsContents DEF IInv, IndexInv

(***************************************************************************)
(* Every step of the ring buffer is a step of the bounded FIFO.            *)
(***************************************************************************)
LEMMA FifoStep == IInv /\ [Next]_vars => [Fifo!Next]_Contents
<1> SUFFICES ASSUME IInv, [Next]_vars PROVE [Fifo!Next]_Contents
  OBVIOUS
<1>1. ASSUME NEW p \in Producer, Publish(p) PROVE Fifo!Next
  <2>1. [name |-> arg[p], param |-> arg[p]] \in [name : Value, param : Value]
    BY <1>1, PublishAppends
  <2> QED
    BY <1>1, <2>1, PublishAppends DEF Fifo!Next, Fifo!Accept
<1>2. CASE Pop
  BY <1>2, PopRemoves DEF Fifo!Next, Fifo!Remove
<1> QED
  BY <1>1, <1>2, OthersKeepContents DEF Next, Push

LEMMA ContentsWholeStep == IInv /\ [Next]_vars => ContentsWhole'
<1> SUFFICES ASSUME IInv, [Next]_vars PROVE ContentsWhole'
  OBVIOUS
<1> DEFINE Entry == [name : Value \cup {NoValue}, param : Value \cup {NoValue}]
           Whole(e) == e.name = e.param /\ e.name \in Value
<1>0. /\ Contents \in Seq(Entry)
      /\ Len(Contents) = Count
      /\ Count \in Nat
      /\ \A i \in 1 .. Count : Whole(Contents[i])
  BY ContentsIsSeq, WaitingSlots
  DEF IInv, IndexInv, TypeOK, ContentsWhole
<1>1. ASSUME NEW p \in Producer, Publish(p) PROVE ContentsWhole'
  <2> DEFINE entry == [name |-> arg[p], param |-> arg[p]]
  <2>1. Contents' = Append(Contents, entry) /\ arg[p] \in Value
    BY <1>1, PublishAppends
  <2>2. Count' = Count + 1
    BY <1>1, PublishIndexes
    DEF Publish, IInv, IndexInv, TypeOK, FillsFreeSlot, Filling
  <2>3. /\ \A i \in 1 .. Count : Append(Contents, entry)[i] = Contents[i]
        /\ Append(Contents, entry)[Count + 1] = entry
    BY <1>0, <2>1, AppendProperties
  <2>4. \A i \in 1 .. Count + 1 : i \in 1 .. Count \/ i = Count + 1
    BY <1>0
  <2>5. \A i \in 1 .. Count + 1 : Whole(Append(Contents, entry)[i])
    BY <1>0, <2>1, <2>3, <2>4
  <2> QED
    BY <2>1, <2>2, <2>5 DEF ContentsWhole
<1>2. CASE Pop
  <2>1. Contents' = Tail(Contents) /\ Contents # <<>>
    BY <1>2, PopRemoves
  <2>2. Count' = Count - 1 /\ Count # 0
    BY <1>2, PopIndexes DEF Pop, MutexFree, IInv, IndexInv, TypeOK, UsesWaiting
  <2>3. \A i \in 1 .. Count - 1 : Tail(Contents)[i] = Contents[i + 1]
    BY <1>0, <2>1, HeadTailProperties
  <2>4. \A i \in 1 .. Count - 1 : Whole(Tail(Contents)[i])
    BY <1>0, <2>3
  <2> QED
    BY <2>1, <2>2, <2>4 DEF ContentsWhole
<1>3. ASSUME Contents' = Contents, Count' = Count PROVE ContentsWhole'
  BY <1>0, <1>3 DEF ContentsWhole
<1>4. ASSUME \/ UNCHANGED vars
             \/ SeeNonEmpty
             \/ \E p \in Producer :
                   \/ Lock(p) \/ RefuseFull(p) \/ FindRoom(p) \/ Unlock(p)
                   \/ FillName(p) \/ FillParam(p)
                   \/ \E v \in Value : CallPush(p, v)
      PROVE  ContentsWhole'
  <2>1. read' = read /\ write' = write
    BY <1>4 DEF vars, SeeNonEmpty, Lock, RefuseFull, FindRoom, Full, MutexFree, Unlock, FillName,
                FillParam, CallPush
  <2> QED
    BY <1>3, <1>4, <2>1, OthersKeepContents, SameIndexes
<1> QED
  BY <1>1, <1>2, <1>4 DEF Next, Push

LEMMA IInvStep == IInv /\ [Next]_vars => IInv'
  BY IndexInvStep, PushProgressStep, ContentsWholeStep DEF IInv

(***************************************************************************)
(* Both fields of a waiting entry come from one push, whatever the order   *)
(* in which producers take the mutex.                                      *)
(***************************************************************************)
THEOREM ContentsWholeAlways == Spec => []ContentsWhole
<1>1. IInv => ContentsWhole
  BY DEF IInv
<1> QED
  BY <1>1, IInvInit, IInvStep, PTL DEF Spec

(***************************************************************************)
(* The ring buffer implements the bounded FIFO, for every capacity and     *)
(* every set of producers.                                                 *)
(***************************************************************************)
THEOREM QueueIsFifo == Spec => ImplementsFifo
<1>1. Init => Fifo!Init
  <2> SUFFICES ASSUME Init PROVE Contents = <<>>
    BY DEF Fifo!Init
  <2>1. Count = 0
    BY DEF Init, Count
  <2> QED
    BY <2>1 DEF Contents
<1> QED
  BY <1>1, IInvInit, IInvStep, FifoStep, PTL
  DEF Spec, ImplementsFifo, Fifo!Spec
================================================================================
