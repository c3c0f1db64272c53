--------------------------- MODULE LockfreeQueueProofs ---------------------------
(***************************************************************************)
(* The lock-free queue for every number of producers and every capacity:   *)
(* as long as no producer sleeps through a whole turn of the buffer        *)
(* (TimelySpec), it implements the bounded FIFO, keeps the entry of the    *)
(* consumer as it is and strands no event; and the loop that is fed by it  *)
(* (LockfreeLoop) misses none.  These are the results MCLockfreeQueue and  *)
(* MCEventLoop check on small instances.                                   *)
(***************************************************************************)
EXTENDS LockfreeLoop, SequenceTheorems, TLAPS

(* Where the indexes stand *)

\* How far an index is ahead of the read index, around the buffer.
Ahead(i) == IF i >= read THEN i - read ELSE i + Size - read

\* The write index is between the read and the pending index.
Order == Ahead(write) <= Ahead(pending)

\* The producers that own the entry they claimed: they fill it, or mark it ready.
Owning == {"fill_name", "fill_param", "set_ready"}

\* Unless the others have moved on, a producer's index is the one it loaded.
Loaded ==
    \A p \in Producer \ passed :
        /\ pc[p] \in HoldsPending => index[p] = pending
        /\ pc[p] = "claim" => IncIndex(pending) # read
        /\ pc[p] = "advance" => index[p] = write

(***************************************************************************)
(* An entry that is claimed and not yet published has one owner, or its    *)
(* ready flag is set, or it is the one being published: never two of these *)
(* and never none.  No other entry has an owner or a ready flag.           *)
(***************************************************************************)
Owned ==
    \A p \in Producer : pc[p] \in Owning =>
        /\ index[p] \in Unpublished
        /\ ~ready[index[p]]
        /\ \A q \in Producer \ {p} : pc[q] \in Owning => index[q] # index[p]
Published ==
    \A p \in Producer : pc[p] = "publish" =>
        /\ index[p] = write
        /\ write # pending
        /\ ~ready[write]
        /\ \A q \in Producer \ {p} :
              pc[q] # "publish" /\ (pc[q] \in Owning => index[q] # write)
ReadyClaimed == \A i \in Slot : ready[i] => i \in Unpublished
Covered ==
    \A i \in Unpublished :
        \/ ready[i]
        \/ \E p \in Producer : pc[p] \in Owning \cup {"publish"} /\ index[p] = i

\* An entry that is ready to be published next is about to be seen by a producer.
Attended ==
    ready[write] =>
        \E p \in Producer : \/ pc[p] = "load_write"
                            \/ pc[p] = "advance" /\ index[p] = write

\* The consumer goes on only when it has seen an entry, and only it pops.
UsesWaiting == consumer = "using" => read # write

Entries == Order /\ Loaded /\ Owned /\ Published /\ ReadyClaimed /\ Covered /\ Attended

IndexInv == TypeOK /\ TimelyClaim /\ TimelyPublish /\ UsesWaiting /\ Entries

Whole(e) == e.name \in Value /\ e.param = e.name

\* What a producer has established by the time it is at each step.
PushProgress ==
    \A p \in Producer :
        /\ pc[p] \in HoldsPending \cup Owning \cup {"load"} => arg[p] \in Value
        /\ pc[p] \in {"fill_param", "set_ready"} => buffer[index[p]].name = arg[p]
        /\ pc[p] = "set_ready" => buffer[index[p]].param = arg[p]
        /\ pc[p] = "publish" => Whole(buffer[write])
ReadyWhole == \A i \in Slot : ready[i] => Whole(buffer[i])

IInv == IndexInv /\ PushProgress /\ ReadyWhole
--------------------------------------------------------------------------------
(* The arithmetic of the indexes *)

LEMMA IncIndexSlot ==
    ASSUME NEW i \in Slot
    PROVE  /\ IncIndex(i) \in Slot
           /\ IncIndex(i) # i <=> Capacity # 0
           /\ IncIndex(i) = IF i = Capacity THEN 0 ELSE i + 1
  BY CapacityAssumption DEF IncIndex, Slot, Size

LEMMA UnpublishedSlots ==
    ASSUME pending \in Slot, write \in Slot
    PROVE  /\ Unpublished \subseteq Slot
           /\ pending \notin Unpublished
           /\ write \in Unpublished <=> write # pending
  BY CapacityAssumption DEF Unpublished, Slot

\* Unpublished depends on two indexes only.
LEMMA SameUnpublished ==
    ASSUME pending' = pending, write' = write
    PROVE  Unpublished' = Unpublished
  BY DEF Unpublished

\* A claim adds the entry at the pending index, if the queue has room for it.
LEMMA ClaimIndexes ==
    ASSUME read \in Slot, pending \in Slot, write \in Slot, Order,
           IncIndex(pending) # read,
           read' = read, write' = write, pending' = IncIndex(pending)
    PROVE  /\ Order'
           /\ Unpublished' = Unpublished \cup {pending}
           /\ write # pending'
  BY CapacityAssumption DEF Order, Ahead, Unpublished, Slot, Size, IncIndex

\* A publication takes the entry at the write index away from them.
LEMMA PublishIndexes ==
    ASSUME read \in Slot, pending \in Slot, write \in Slot, Order,
           write # pending,
           read' = read, pending' = pending, write' = IncIndex(write)
    PROVE  /\ Order'
           /\ write' # read
           /\ Unpublished' = Unpublished \ {write}
  BY CapacityAssumption DEF Order, Ahead, Unpublished, Slot, Size, IncIndex

\* A pop makes room; it does not fill the queue.
LEMMA PopIndexes ==
    ASSUME read \in Slot, pending \in Slot, write \in Slot, Order,
           read # write,
           read' = IncIndex(read), pending' = pending, write' = write
    PROVE  /\ Order'
           /\ IncIndex(pending) # read'
  BY CapacityAssumption DEF Order, Ahead, Slot, Size, IncIndex
--------------------------------------------------------------------------------
LEMMA IndexInvInit == Init => IndexInv
<1> SUFFICES ASSUME Init PROVE IndexInv
  OBVIOUS
<1>1. Unpublished = {}
  BY DEF Init, Unpublished
<1>2. TypeOK
  BY CapacityAssumption DEF Init, TypeOK, Slot, HoldsPending, HoldsWrite
<1>3. 0 \in Slot
  BY CapacityAssumption DEF Slot
<1>4. TimelyClaim /\ TimelyPublish /\ Order /\ Loaded /\ UsesWaiting /\ Covered
  BY <1>1 DEF Init, TimelyClaim, TimelyPublish, Order, Ahead, Loaded, UsesWaiting,
              Covered, HoldsPending
<1>5. Owned /\ Published /\ ReadyClaimed /\ Attended
  BY <1>3 DEF Init, Owned, Published, ReadyClaimed, Attended, Owning
<1> QED
  BY <1>2, <1>4, <1>5 DEF IndexInv, Entries

LEMMA TypeStep == TypeOK /\ [Next]_vars => TypeOK'
<1> SUFFICES ASSUME TypeOK, [Next]_vars PROVE TypeOK'
  OBVIOUS
<1> USE DEF TypeOK, shared, Goto, HoldsPending, HoldsWrite
<1>1. ASSUME NEW p \in Producer, NEW v \in Value, CallPush(p, v) PROVE TypeOK'
  BY <1>1 DEF CallPush
<1>2. ASSUME NEW p \in Producer, LoadPending(p) \/ LoadWrite(p) PROVE TypeOK'
  BY <1>2 DEF LoadPending, LoadWrite, Reload
<1>3. ASSUME NEW p \in Producer, RefuseFull(p) \/ NothingReady(p) PROVE TypeOK'
  <2>1. 0 \in Slot
    BY CapacityAssumption DEF Slot
  <2>2. Return(p) /\ UNCHANGED <<shared, consumer>>
    BY <1>3 DEF RefuseFull, NothingReady
  <2> QED
    BY <2>1, <2>2 DEF Return, Reload
<1>4. ASSUME NEW p \in Producer, FindRoom(p) \/ ClaimFails(p) PROVE TypeOK'
  BY <1>4 DEF FindRoom, ClaimFails
<1>5. ASSUME NEW p \in Producer, Claim(p) PROVE TypeOK'
  BY <1>5, IncIndexSlot DEF Claim, Pass, AfterClaim
<1>6. ASSUME NEW p \in Producer, FillName(p) PROVE TypeOK'
  BY <1>6 DEF FillName
<1>7. ASSUME NEW p \in Producer, FillParam(p) PROVE TypeOK'
  BY <1>7 DEF FillParam
<1>8. ASSUME NEW p \in Producer, SetReady(p) \/ TakeReady(p) PROVE TypeOK'
  BY <1>8 DEF SetReady, TakeReady
<1>9. ASSUME NEW p \in Producer, Publish(p) PROVE TypeOK'
  BY <1>9, IncIndexSlot DEF Publish, Pass, AfterPublish
<1>10. CASE SeeNonEmpty
  BY <1>10 DEF SeeNonEmpty
<1>11. CASE Pop
  BY <1>11, IncIndexSlot DEF Pop
<1>12. CASE UNCHANGED vars
  BY <1>12 DEF vars
<1> QED
  BY <1>1, <1>2, <1>3, <1>4, <1>5, <1>6, <1>7, <1>8, <1>9, <1>10, <1>11, <1>12
  DEF Next, Push

(***************************************************************************)
(* Every value a variable takes is of its kind, whatever the producers do  *)
(* and however long one of them sleeps: the indexes stay in the buffer.    *)
(***************************************************************************)
THEOREM TypeCorrect == Spec => []TypeOK
<1>1. Init => TypeOK
  BY IndexInvInit DEF IndexInv
<1> QED
  BY <1>1, TypeStep, PTL DEF Spec
--------------------------------------------------------------------------------
(* The invariant of the indexes, action by action *)

\* What a producer does before it has an entry, or after its last look.
LEMMA LookingKeepsEntries ==
    ASSUME IndexInv, NEW p \in Producer,
           \/ \E v \in Value : CallPush(p, v)
           \/ LoadPending(p) \/ RefuseFull(p) \/ FindRoom(p) \/ ClaimFails(p)
           \/ LoadWrite(p) \/ NothingReady(p)
    PROVE  UsesWaiting' /\ Entries'
<1> USE DEF IndexInv, TypeOK, shared, HoldsPending, HoldsWrite, Owning, Goto
<1>1. /\ UNCHANGED <<ready, read, pending, write, consumer>>
      /\ \A q \in Producer \ {p} : pc'[q] = pc[q] /\ index'[q] = index[q]
      /\ \A q \in Producer \ {p} : q \in passed' <=> q \in passed
      /\ pc[p] \notin Owning \cup {"publish"} /\ pc'[p] \notin Owning \cup {"publish"}
  BY DEF CallPush, LoadPending, RefuseFull, FindRoom, ClaimFails, LoadWrite, NothingReady,
         Return, Reload
<1>2. Unpublished' = Unpublished
  BY <1>1, SameUnpublished
<1>3. UsesWaiting'
  BY <1>1 DEF UsesWaiting
<1>4. Order'
  BY <1>1 DEF Entries, Order, Ahead
<1>5. Owned' /\ Published' /\ ReadyClaimed' /\ Covered'
  BY <1>1, <1>2 DEF Entries, Owned, Published, ReadyClaimed, Covered
<1>6. Loaded'
  BY <1>1 DEF Entries, Loaded, CallPush, LoadPending, RefuseFull, FindRoom, ClaimFails, Full,
              LoadWrite, NothingReady, Return, Reload, IncIndex
<1>7. Attended'
  <2> SUFFICES ASSUME ready[write]
               PROVE  \E q \in Producer : \/ pc'[q] = "load_write"
                                          \/ pc'[q] = "advance" /\ index'[q] = write
    BY <1>1 DEF Attended
  <2>1. PICK q \in Producer : \/ pc[q] = "load_write"
                              \/ pc[q] = "advance" /\ index[q] = write
    BY DEF Entries, Attended
  <2>2. CASE q # p
    BY <1>1, <2>1, <2>2
  <2>3. CASE q = p
    <3>1. LoadWrite(p)
      BY <2>1, <2>3 DEF CallPush, LoadPending, RefuseFull, FindRoom, ClaimFails, NothingReady
    <3> QED
      BY <3>1 DEF LoadWrite
  <2> QED
    BY <2>2, <2>3
<1> QED
  BY <1>3, <1>4, <1>5, <1>6, <1>7 DEF Entries

\* The claim succeeds only for the producer whose index is the pending index still.
LEMMA ClaimKeepsEntries ==
    ASSUME IndexInv, NEW p \in Producer, Claim(p)
    PROVE  UsesWaiting' /\ Entries'
<1> USE DEF IndexInv, TypeOK, Entries, Goto, AfterClaim
<1>1. /\ pc[p] = "claim" /\ index[p] = pending /\ IncIndex(pending) # read
      /\ index' = index /\ pc' = [pc EXCEPT ![p] = "fill_name"]
      /\ pending' = IncIndex(pending)
      /\ UNCHANGED <<ready, read, write, consumer>>
  <2>1. pc[p] = "claim" /\ index[p] = pending
    BY DEF Claim
  <2>2. p \notin passed
    BY <2>1 DEF TimelyClaim, HoldsPending
  <2> QED
    BY <2>1, <2>2 DEF Claim, Loaded
<1>2. Order' /\ Unpublished' = Unpublished \cup {pending} /\ write # pending'
  BY <1>1, ClaimIndexes
<1>3. Unpublished \subseteq Slot /\ pending \notin Unpublished
  BY UnpublishedSlots
<1>4. UsesWaiting'
  BY <1>1 DEF UsesWaiting
<1>5. Loaded'
  BY <1>1 DEF Loaded, Claim, Pass, HoldsPending
<1>6. Owned'
  BY <1>1, <1>2, <1>3 DEF Owned, ReadyClaimed, Owning
<1>7. Published'
  <2>1. \A q \in Producer : pc'[q] = "publish" => pc[q] = "publish" /\ q # p
    BY <1>1
  <2>2. (\E q \in Producer : pc[q] = "publish") => write \in Unpublished
    BY UnpublishedSlots DEF Published
  <2> QED
    BY <1>1, <1>2, <1>3, <2>1, <2>2 DEF Published, Owning
<1>8. ReadyClaimed' /\ Covered'
  BY <1>1, <1>2, <1>3 DEF ReadyClaimed, Covered, Owning
<1>9. Attended'
  BY <1>1 DEF Attended
<1> QED
  BY <1>2, <1>4, <1>5, <1>6, <1>7, <1>8, <1>9

LEMMA FillKeepsEntries ==
    ASSUME IndexInv, NEW p \in Producer, FillName(p) \/ FillParam(p)
    PROVE  UsesWaiting' /\ Entries'
<1> USE DEF IndexInv, TypeOK, Goto, Owning
<1>1. /\ UNCHANGED <<ready, read, pending, write, consumer, index, passed>>
      /\ \A q \in Producer \ {p} : pc'[q] = pc[q]
      /\ pc[p] \in Owning /\ pc'[p] \in Owning
  BY DEF FillName, FillParam
<1>2. Unpublished' = Unpublished
  BY <1>1, SameUnpublished
<1>3. UsesWaiting' /\ Order'
  BY <1>1 DEF UsesWaiting, Entries, Order, Ahead
<1>4. Loaded' /\ Attended'
  BY <1>1 DEF Entries, Loaded, Attended, HoldsPending, IncIndex
<1>5. Owned' /\ Published' /\ ReadyClaimed' /\ Covered'
  BY <1>1, <1>2 DEF Entries, Owned, Published, ReadyClaimed, Covered
<1> QED
  BY <1>3, <1>4, <1>5 DEF Entries

LEMMA SetReadyKeepsEntries ==
    ASSUME IndexInv, NEW p \in Producer, SetReady(p)
    PROVE  UsesWaiting' /\ Entries'
<1> USE DEF IndexInv, TypeOK, Entries, Goto
<1>1. /\ pc[p] = "set_ready" /\ pc' = [pc EXCEPT ![p] = "load_write"]
      /\ ready' = [ready EXCEPT ![index[p]] = TRUE]
      /\ UNCHANGED <<read, pending, write, consumer, index, passed>>
  BY DEF SetReady
<1>2. Unpublished' = Unpublished
  BY <1>1, SameUnpublished
<1>3. index[p] \in Unpublished /\ index[p] \in Slot
  BY <1>1 DEF Owned, Owning
<1>4. UsesWaiting' /\ Order'
  BY <1>1 DEF UsesWaiting, Order, Ahead
<1>5. Loaded' /\ Attended'
  BY <1>1 DEF Loaded, Attended, HoldsPending, IncIndex
<1>6. Owned' /\ ReadyClaimed'
  BY <1>1, <1>2, <1>3 DEF Owned, ReadyClaimed, Owning
<1>7. Published'
  BY <1>1 DEF Published, Owning
<1>8. Covered'
  BY <1>1, <1>2, <1>3 DEF Covered, Owning
<1> QED
  BY <1>4, <1>5, <1>6, <1>7, <1>8

(***************************************************************************)
(* The flag that is taken is the one of the next entry to be published: a  *)
(* stale write index, of a producer the others have moved on from, points  *)
(* to no claimed entry (TimelyPublish), and no other has its flag set.     *)
(***************************************************************************)
LEMMA TakeReadyIsNext ==
    ASSUME IndexInv, NEW p \in Producer, TakeReady(p)
    PROVE  index[p] = write /\ write \in Unpublished /\ write # pending
<1>1. pc[p] = "advance" /\ ready[index[p]] /\ index[p] \in Slot
  BY DEF TakeReady, IndexInv, TypeOK
<1>2. index[p] \in Unpublished
  BY <1>1 DEF IndexInv, Entries, ReadyClaimed
<1>3. p \notin passed
  BY <1>1, <1>2 DEF IndexInv, TimelyPublish, HoldsWrite
<1>4. index[p] = write
  BY <1>1, <1>3 DEF IndexInv, Entries, Loaded
<1> QED
  BY <1>2, <1>4, UnpublishedSlots DEF IndexInv, TypeOK

LEMMA TakeReadyKeepsEntries ==
    ASSUME IndexInv, NEW p \in Producer, TakeReady(p)
    PROVE  UsesWaiting' /\ Entries'
<1> USE DEF IndexInv, TypeOK, Entries, Goto
<1>1. /\ pc[p] = "advance" /\ pc' = [pc EXCEPT ![p] = "publish"]
      /\ index[p] = write /\ write \in Unpublished /\ write # pending
      /\ ready[write] /\ ready' = [ready EXCEPT ![write] = FALSE]
      /\ UNCHANGED <<read, pending, write, consumer, index, passed>>
  BY TakeReadyIsNext DEF TakeReady
<1>2. Unpublished' = Unpublished
  BY <1>1, SameUnpublished
<1>3. UsesWaiting' /\ Order'
  BY <1>1 DEF UsesWaiting, Order, Ahead
<1>4. Loaded' /\ Attended'
  BY <1>1 DEF Loaded, Attended, HoldsPending, IncIndex
<1>5. Owned' /\ ReadyClaimed'
  BY <1>1, <1>2 DEF Owned, ReadyClaimed, Owning
<1>6. Published'
  BY <1>1 DEF Owned, Published, Owning
<1>7. Covered'
  BY <1>1, <1>2 DEF Covered, Owning
<1> QED
  BY <1>3, <1>4, <1>5, <1>6, <1>7

LEMMA PublishKeepsEntries ==
    ASSUME IndexInv, NEW p \in Producer, Publish(p)
    PROVE  UsesWaiting' /\ Entries'
<1> USE DEF IndexInv, TypeOK, Entries, Goto
<1>1. /\ pc[p] = "publish" /\ pc' = [pc EXCEPT ![p] = "advance"]
      /\ index[p] = write /\ index' = [index EXCEPT ![p] = IncIndex(write)]
      /\ write # pending /\ ~ready[write] /\ write' = IncIndex(write)
      /\ UNCHANGED <<ready, read, pending, consumer>>
  BY DEF Publish, Published, AfterPublish
<1>2. Order' /\ write' # read /\ Unpublished' = Unpublished \ {write}
  BY <1>1, PublishIndexes
<1>3. UsesWaiting'
  BY <1>1, <1>2 DEF UsesWaiting
<1>4. Loaded'
  BY <1>1 DEF Loaded, Publish, Pass, HoldsPending, HoldsWrite, IncIndex
<1>5. Owned'
  BY <1>1, <1>2 DEF Owned, Published, Owning
<1>6. Published'
  BY <1>1 DEF Published
<1>7. ReadyClaimed' /\ Covered'
  BY <1>1, <1>2 DEF ReadyClaimed, Covered, Published, Owning
<1>8. Attended'
  BY <1>1, IncIndexSlot DEF Attended
<1> QED
  BY <1>2, <1>3, <1>4, <1>5, <1>6, <1>7, <1>8

LEMMA ConsumerKeepsEntries ==
    ASSUME IndexInv, SeeNonEmpty \/ Pop
    PROVE  UsesWaiting' /\ Entries'
<1> USE DEF IndexInv, TypeOK, Entries
<1>1. UNCHANGED <<ready, pending, write, pc, index, passed>>
  BY DEF SeeNonEmpty, Pop, shared
<1>2. Unpublished' = Unpublished
  BY <1>1, SameUnpublished
<1>3. Owned' /\ Published' /\ ReadyClaimed' /\ Covered' /\ Attended'
  BY <1>1, <1>2 DEF Owned, Published, ReadyClaimed, Covered, Attended
<1>4. CASE SeeNonEmpty
  BY <1>1, <1>3, <1>4 DEF SeeNonEmpty, shared, UsesWaiting, Order, Ahead, Loaded, IncIndex
<1>5. CASE Pop
  <2>1. Order' /\ IncIndex(pending) # read'
    BY <1>1, <1>5, PopIndexes DEF Pop, UsesWaiting
  <2>2. UsesWaiting' /\ Loaded'
    BY <1>1, <1>5, <2>1 DEF Pop, UsesWaiting, Loaded, IncIndex
  <2> QED
    BY <1>3, <2>1, <2>2
<1> QED
  BY <1>4, <1>5

\* The steps of TimelySpec.
TimelyNext == Next /\ TimelyClaim' /\ TimelyPublish'

LEMMA IndexInvStep == IndexInv /\ [TimelyNext]_vars => IndexInv'
<1> SUFFICES ASSUME IndexInv, [TimelyNext]_vars PROVE IndexInv'
  OBVIOUS
<1>1. CASE TimelyNext
  <2>1. TypeOK' /\ TimelyClaim' /\ TimelyPublish'
    BY <1>1, TypeStep DEF IndexInv, TimelyNext
  <2>2. UsesWaiting' /\ Entries'
    BY <1>1, LookingKeepsEntries, ClaimKeepsEntries, FillKeepsEntries,
       SetReadyKeepsEntries, TakeReadyKeepsEntries, PublishKeepsEntries,
       ConsumerKeepsEntries
    DEF TimelyNext, Next, Push
  <2> QED
    BY <2>1, <2>2 DEF IndexInv
<1>2. CASE UNCHANGED vars
  <2>1. TypeOK'
    BY <1>2, TypeStep DEF IndexInv
  <2>2. Unpublished' = Unpublished
    BY <1>2, SameUnpublished DEF vars, shared
  <2> QED
    BY <1>2, <2>1, <2>2
    DEF vars, shared, IndexInv, TimelyClaim, TimelyPublish, UsesWaiting, Entries, Order,
        Ahead, Loaded, Owned, Published, ReadyClaimed, Covered, Attended, IncIndex
<1> QED
  BY <1>1, <1>2

LEMMA IndexInvStrandsNone == IndexInv => NoneStranded
<1> SUFFICES ASSUME IndexInv, \A p \in Producer : pc[p] \in {"idle", "load"}
             PROVE  write = pending /\ \A i \in Slot : ~ready[i]
  BY DEF NoneStranded
<1>1. ~ready[write]
  BY DEF IndexInv, Entries, Attended
<1>2. write \notin Unpublished
  BY <1>1 DEF IndexInv, Entries, Covered, Owning
<1>3. write = pending
  BY <1>2, UnpublishedSlots DEF IndexInv, TypeOK
<1>4. Unpublished = {}
  BY <1>3, CapacityAssumption DEF Unpublished, IndexInv, TypeOK, Slot
<1> QED
  BY <1>3, <1>4 DEF IndexInv, Entries, ReadyClaimed

(***************************************************************************)
(* No event is stranded: a ready entry at the write index has a producer   *)
(* that is about to look at it, so that with no push under way there is no *)
(* such entry; and then no entry after it is claimed either, since the one *)
(* at the write index would have neither an owner nor its flag set.        *)
(***************************************************************************)
THEOREM NoneIsStranded == TimelySpec => []NoneStranded
BY IndexInvStrandsNone, IndexInvInit, IndexInvStep, PTL DEF TimelySpec, TimelyNext

(***************************************************************************)
(* The write index moves by one entry at a time: as long as no producer    *)
(* sleeps through a turn of the buffer, none stores a stale index.         *)
(***************************************************************************)
THEOREM WriteMovesByOne == TimelySpec => WriteAdvances
<1>1. ASSUME IndexInv, [TimelyNext]_vars
      PROVE  [write' # write => write' = IncIndex(write)]_vars
  <2>1. ASSUME NEW p \in Producer, Publish(p) PROVE write' = IncIndex(write)
    BY <1>1, <2>1 DEF Publish, IndexInv, Entries, Published
  <2> QED
    BY <1>1, <2>1
    DEF TimelyNext, Next, Push, CallPush, LoadPending, RefuseFull, FindRoom, Claim,
        ClaimFails, FillName, FillParam, SetReady, LoadWrite, TakeReady, NothingReady,
        SeeNonEmpty, Pop, shared, vars
<1> QED
  BY <1>1, IndexInvInit, IndexInvStep, PTL DEF TimelySpec, TimelyNext, WriteAdvances
--------------------------------------------------------------------------------
(* What the entries hold *)

LEMMA WaitingSlots ==
    ASSUME read \in Slot, pending \in Slot, write \in Slot, Order
    PROVE  /\ Count \in 0 .. Capacity
           /\ Count = 0 <=> read = write
           /\ write # pending => Count < Capacity
           /\ \A i \in 1 .. Count :
                 Index(i) \in Slot /\ Index(i) # write /\ Index(i) \notin Unpublished
           /\ Count # 0 => Index(1) = read
  BY CapacityAssumption DEF Order, Ahead, Unpublished, Count, Index, Slot, Size

\* An entry that is filled is neither waiting, nor ready, nor being published.
LEMMA FillsOwn ==
    ASSUME IndexInv, NEW p \in Producer, FillName(p) \/ FillParam(p)
    PROVE  /\ index[p] \in Slot /\ index[p] \in Unpublished /\ ~ready[index[p]]
           /\ \A q \in Producer \ {p} : pc[q] \in Owning => index[q] # index[p]
           /\ \A q \in Producer : pc[q] = "publish" => index[p] # write
           /\ \A i \in Slot \ {index[p]} : buffer'[i] = buffer[i]
           /\ \/ /\ FillName(p)
                 /\ buffer'[index[p]].name = arg[p]
              \/ /\ FillParam(p)
                 /\ buffer'[index[p]].param = arg[p]
                 /\ buffer'[index[p]].name = buffer[index[p]].name
<1> USE DEF IndexInv, TypeOK
<1>1. pc[p] \in Owning
  BY DEF FillName, FillParam, Owning
<1>2. /\ index[p] \in Slot /\ index[p] \in Unpublished /\ ~ready[index[p]]
      /\ \A q \in Producer \ {p} : pc[q] \in Owning => index[q] # index[p]
  BY <1>1 DEF Entries, Owned
<1>3. \A q \in Producer : pc[q] = "publish" => index[p] # write
  BY <1>1 DEF Entries, Published, Owning
<1>4. \A i \in Slot \ {index[p]} : buffer'[i] = buffer[i]
  BY <1>2 DEF FillName, FillParam
<1>5. CASE FillName(p)
  BY <1>2, <1>3, <1>4, <1>5 DEF FillName
<1>6. CASE FillParam(p)
  BY <1>2, <1>3, <1>4, <1>6 DEF FillParam
<1> QED
  BY <1>5, <1>6

LEMMA DataStep ==
    ASSUME IInv, Next
    PROVE  PushProgress' /\ ReadyWhole'
<1> USE DEF IInv, IndexInv, TypeOK, PushProgress, ReadyWhole, Goto, shared, HoldsPending,
            Owning, Whole
<1>1. ASSUME NEW p \in Producer, NEW v \in Value, CallPush(p, v)
      PROVE  PushProgress' /\ ReadyWhole'
  BY <1>1 DEF CallPush
<1>2. ASSUME NEW p \in Producer,
             LoadPending(p) \/ RefuseFull(p) \/ FindRoom(p) \/ ClaimFails(p)
      PROVE  PushProgress' /\ ReadyWhole'
  BY <1>2 DEF LoadPending, RefuseFull, FindRoom, ClaimFails, Return
<1>3. ASSUME NEW p \in Producer, Claim(p) PROVE PushProgress' /\ ReadyWhole'
  BY <1>3 DEF Claim, AfterClaim
<1>4. ASSUME NEW p \in Producer, FillName(p) PROVE PushProgress' /\ ReadyWhole'
  <2>1. /\ pc[p] = "fill_name" /\ pc' = [pc EXCEPT ![p] = "fill_param"]
        /\ UNCHANGED <<ready, write, index, arg>>
    BY <1>4 DEF FillName
  <2>2. /\ index[p] \in Slot /\ ~ready[index[p]]
        /\ \A q \in Producer \ {p} : pc[q] \in Owning => index[q] # index[p]
        /\ \A q \in Producer : pc[q] = "publish" => index[p] # write
        /\ \A i \in Slot \ {index[p]} : buffer'[i] = buffer[i]
        /\ buffer'[index[p]].name = arg[p]
    BY <1>4, <2>1, FillsOwn DEF FillParam
  <2>3. ReadyWhole'
    BY <2>1, <2>2
  <2>4. PushProgress'
    BY <2>1, <2>2
  <2> QED
    BY <2>3, <2>4
<1>5. ASSUME NEW p \in Producer, FillParam(p) PROVE PushProgress' /\ ReadyWhole'
  <2>1. /\ pc[p] = "fill_param" /\ pc' = [pc EXCEPT ![p] = "set_ready"]
        /\ UNCHANGED <<ready, write, index, arg>>
    BY <1>5 DEF FillParam
  <2>2. /\ index[p] \in Slot /\ ~ready[index[p]]
        /\ \A q \in Producer \ {p} : pc[q] \in Owning => index[q] # index[p]
        /\ \A q \in Producer : pc[q] = "publish" => index[p] # write
        /\ \A i \in Slot \ {index[p]} : buffer'[i] = buffer[i]
        /\ buffer'[index[p]].param = arg[p] /\ buffer'[index[p]].name = buffer[index[p]].name
    BY <1>5, <2>1, FillsOwn DEF FillName
  <2>3. ReadyWhole'
    BY <2>1, <2>2
  <2>4. PushProgress'
    BY <2>1, <2>2
  <2> QED
    BY <2>3, <2>4
<1>6. ASSUME NEW p \in Producer, SetReady(p) PROVE PushProgress' /\ ReadyWhole'
  BY <1>6 DEF SetReady
<1>7. ASSUME NEW p \in Producer, LoadWrite(p) \/ NothingReady(p)
      PROVE  PushProgress' /\ ReadyWhole'
  BY <1>7 DEF LoadWrite, NothingReady, Return
<1>8. ASSUME NEW p \in Producer, TakeReady(p) PROVE PushProgress' /\ ReadyWhole'
  BY <1>8, TakeReadyIsNext DEF TakeReady
<1>9. ASSUME NEW p \in Producer, Publish(p) PROVE PushProgress' /\ ReadyWhole'
  BY <1>9 DEF Publish, AfterPublish, Entries, Published
<1>10. CASE SeeNonEmpty \/ Pop
  BY <1>10 DEF SeeNonEmpty, Pop
<1> QED
  BY <1>1, <1>2, <1>3, <1>4, <1>5, <1>6, <1>7, <1>8, <1>9, <1>10 DEF Next, Push

LEMMA IInvInit == Init => IInv
<1> SUFFICES ASSUME Init PROVE PushProgress /\ ReadyWhole
  BY IndexInvInit DEF IInv
<1> QED
  BY DEF Init, PushProgress, ReadyWhole, HoldsPending, Owning

LEMMA IInvStep == IInv /\ [TimelyNext]_vars => IInv'
<1> SUFFICES ASSUME IInv, [TimelyNext]_vars PROVE PushProgress' /\ ReadyWhole'
  BY IndexInvStep DEF IInv
<1>1. CASE UNCHANGED vars
  BY <1>1 DEF IInv, vars, shared, PushProgress, ReadyWhole, Whole
<1> QED
  BY <1>1, DataStep DEF TimelyNext

(***************************************************************************)
(* The consumer's entry is stable without a lock: it lies between the read *)
(* and the write index, and producers fill entries from the write index on.*)
(***************************************************************************)
THEOREM FrontIsStable == TimelySpec => FrontStable
<1>1. ASSUME IndexInv, [TimelyNext]_vars
      PROVE  [consumer = "using" => buffer'[read] = buffer[read]]_vars
  <2>1. ASSUME NEW p \in Producer, FillName(p) \/ FillParam(p), consumer = "using"
        PROVE  buffer'[read] = buffer[read]
    <3>1. read \notin Unpublished /\ read \in Slot
      BY <1>1, <2>1, WaitingSlots DEF IndexInv, TypeOK, UsesWaiting, Entries
    <3> QED
      BY <1>1, <2>1, <3>1, FillsOwn
  <2> QED
    BY <1>1, <2>1
    DEF TimelyNext, Next, Push, CallPush, LoadPending, RefuseFull, FindRoom, Claim,
        ClaimFails, SetReady, LoadWrite, TakeReady, NothingReady, Publish,
        SeeNonEmpty, Pop, shared, vars
<1> QED
  BY <1>1, IndexInvInit, IndexInvStep, PTL DEF TimelySpec, TimelyNext, FrontStable
--------------------------------------------------------------------------------
(* The bounded FIFO *)

Entry == [name : Value \cup {NoValue}, param : Value \cup {NoValue}]

\* How a publication and a pop move the positions of the waiting events.
LEMMA PublishPositions ==
    ASSUME read \in Slot, pending \in Slot, write \in Slot, Order, write # pending,
           read' = read, write' = IncIndex(write)
    PROVE  /\ Count' = Count + 1
           /\ \A i \in 1 .. Count : Index(i)' = Index(i)
           /\ Index(Count)' = write
  BY CapacityAssumption DEF Order, Ahead, Count, Index, Slot, Size, IncIndex

LEMMA PopPositions ==
    ASSUME read \in Slot, write \in Slot, read # write,
           read' = IncIndex(read), write' = write
    PROVE  /\ Count \in Nat \ {0}
           /\ Count' = Count - 1
           /\ \A i \in 1 .. Count - 1 : Index(i)' = Index(i + 1)
  BY CapacityAssumption DEF Count, Index, Slot, Size, IncIndex

LEMMA SamePositions ==
    ASSUME read' = read, write' = write
    PROVE  Count' = Count /\ \A i : Index(i)' = Index(i)
  BY DEF Count, Index, Size

LEMMA ContentsIsSeq ==
    ASSUME IndexInv
    PROVE  /\ Contents \in Seq(Entry)
           /\ Len(Contents) = Count
           /\ \A i \in 1 .. Count : Contents[i] = buffer[Index(i)]
<1>1. Count \in Nat /\ \A i \in 1 .. Count : Index(i) \in Slot
  BY WaitingSlots DEF IndexInv, TypeOK, Entries
<1> QED
  BY <1>1 DEF Contents, IndexInv, TypeOK, Entry

LEMMA PublishAppends ==
    ASSUME IInv, NEW p \in Producer, Publish(p)
    PROVE  /\ Len(Contents) < Capacity
           /\ buffer[write] \in [name : Value, param : Value]
           /\ Contents' = Append(Contents, buffer[write])
<1> DEFINE after == Append(Contents, buffer[write])
<1>1. /\ read \in Slot /\ pending \in Slot /\ write \in Slot
      /\ Order /\ write # pending /\ write' = IncIndex(write)
      /\ UNCHANGED <<buffer, read>>
  BY DEF IInv, IndexInv, TypeOK, Entries, Published, Publish
<1>2. Count \in Nat /\ Count < Capacity
  BY <1>1, WaitingSlots
<1>3. /\ Contents \in Seq(Entry)
      /\ Len(Contents) = Count
      /\ \A i \in 1 .. Count : Contents[i] = buffer[Index(i)]
  BY ContentsIsSeq DEF IInv
<1>4. buffer[write] \in Entry /\ Whole(buffer[write])
  BY <1>1 DEF IInv, IndexInv, TypeOK, PushProgress, Publish, Entry
<1>5. buffer[write] \in [name : Value, param : Value]
  BY <1>4 DEF Entry, Whole
<1>6. /\ Count' = Count + 1
      /\ \A i \in 1 .. Count : Index(i)' = Index(i)
      /\ Index(Count)' = write
  BY <1>1, PublishPositions
<1>7. /\ after \in Seq(Entry)
      /\ Len(after) = Count + 1
      /\ \A i \in 1 .. Count : after[i] = Contents[i]
      /\ after[Count + 1] = buffer[write]
  BY <1>3, <1>4, AppendProperties
<1>8. Contents' = [i \in 1 .. Count + 1 |-> buffer[Index(i)']]
  BY <1>1, <1>6 DEF Contents
<1>9. \A i \in 1 .. Count + 1 : buffer[Index(i)'] = after[i]
  <2>1. \A i \in 1 .. Count + 1 : i \in 1 .. Count \/ i = Count + 1
    BY <1>2
  <2> QED
    BY <1>3, <1>6, <1>7, <2>1
<1>10. after = [i \in 1 .. Count + 1 |-> after[i]]
  BY <1>7, <1>2
<1>11. Contents' = after
  BY <1>8, <1>9, <1>10
<1> QED
  BY <1>2, <1>3, <1>5, <1>11

LEMMA PopRemoves ==
    ASSUME IInv, Pop
    PROVE  Contents # <<>> /\ Contents' = Tail(Contents)
<1> DEFINE after == Tail(Contents)
<1>1. /\ read \in Slot /\ write \in Slot /\ read # write
      /\ read' = IncIndex(read) /\ UNCHANGED <<buffer, write>>
  BY DEF IInv, IndexInv, TypeOK, UsesWaiting, Pop
<1>2. /\ Contents \in Seq(Entry)
      /\ Len(Contents) = Count
      /\ \A i \in 1 .. Count : Contents[i] = buffer[Index(i)]
  BY ContentsIsSeq DEF IInv
<1>3. /\ Count \in Nat \ {0}
      /\ Count' = Count - 1
      /\ \A i \in 1 .. Count - 1 : Index(i)' = Index(i + 1)
  BY <1>1, PopPositions
<1>4. Contents # <<>>
  BY <1>2, <1>3
<1>5. /\ after \in Seq(Entry)
      /\ Len(after) = Count - 1
      /\ \A i \in 1 .. Count - 1 : after[i] = Contents[i + 1]
  BY <1>2, <1>3, <1>4, HeadTailProperties
<1>6. Contents' = [i \in 1 .. Count - 1 |-> buffer[Index(i)']]
  BY <1>1, <1>3 DEF Contents
<1>7. \A i \in 1 .. Count - 1 : buffer[Index(i)'] = after[i]
  BY <1>2, <1>3, <1>5
<1>8. after = [i \in 1 .. Count - 1 |-> after[i]]
  <2> HIDE DEF after
  <2> QED
    BY <1>5, LenProperties
<1> QED
  BY <1>4, <1>6, <1>7, <1>8

\* What is filled is not among the waiting events.
LEMMA FillKeepsContents ==
    ASSUME IndexInv, NEW p \in Producer, FillName(p) \/ FillParam(p)
    PROVE  Contents' = Contents
<1>1. read' = read /\ write' = write
  BY DEF FillName, FillParam
<1>2. \A i \in 1 .. Count : Index(i) \in Slot \ {index[p]}
  BY FillsOwn, WaitingSlots DEF IndexInv, TypeOK, Entries
<1>3. \A i \in 1 .. Count : buffer'[Index(i)'] = buffer[Index(i)]
  BY <1>1, <1>2, FillsOwn, SamePositions
<1> QED
  BY <1>1, <1>3, SamePositions DEF Contents

(***************************************************************************)
(* Every step of the lock-free buffer is a step of the bounded FIFO: the   *)
(* publication accepts an event, the pop removes one.                      *)
(***************************************************************************)
LEMMA FifoStep == IInv /\ [TimelyNext]_vars => [Fifo!Next]_Contents
<1> SUFFICES ASSUME IInv, [TimelyNext]_vars PROVE [Fifo!Next]_Contents
  OBVIOUS
<1>1. ASSUME NEW p \in Producer, Publish(p) PROVE Fifo!Next
  BY <1>1, PublishAppends DEF Fifo!Next, Fifo!Accept
<1>2. CASE Pop
  BY <1>2, PopRemoves DEF Fifo!Next, Fifo!Remove
<1>3. ASSUME NEW p \in Producer, FillName(p) \/ FillParam(p)
      PROVE  Contents' = Contents
  BY <1>3, FillKeepsContents DEF IInv
<1>4. ASSUME UNCHANGED <<buffer, read, write>>
      PROVE  Contents' = Contents
  BY <1>4, SamePositions DEF Contents
<1> QED
  BY <1>1, <1>2, <1>3, <1>4
  DEF TimelyNext, Next, Push, CallPush, LoadPending, RefuseFull, FindRoom, Claim,
      ClaimFails, SetReady, LoadWrite, TakeReady, NothingReady, SeeNonEmpty, shared, vars

(***************************************************************************)
(* The lock-free queue implements the bounded FIFO: events come out whole  *)
(* and in the order in which their entries were claimed, whichever thread  *)
(* published them, for every capacity and every set of producers.          *)
(***************************************************************************)
THEOREM QueueIsFifo == TimelySpec => ImplementsFifo
<1>1. Init => Fifo!Init
  <2> SUFFICES ASSUME Init PROVE Contents = <<>>
    BY DEF Fifo!Init
  <2>1. Count = 0
    BY DEF Init, Count
  <2> QED
    BY <2>1 DEF Contents
<1> QED
  BY <1>1, IInvInit, IInvStep, FifoStep, PTL
  DEF TimelySpec, TimelyNext, ImplementsFifo, Fifo!Spec
--------------------------------------------------------------------------------
(* The queue and the loop that empties it *)

TheMachine == "machine"
LoopPlaces == {"poll", "visit", "clear", "callback", "enter", "take", "walk", "more"}

LoopTypeOK ==
    /\ init \in [Single -> BOOLEAN]
    /\ trig \in [Single -> BOOLEAN]
    /\ signal \in BOOLEAN
    /\ post \in [Producer -> {L!None, L!ToSignal, L!ToSet(TheMachine)}]
    /\ at \in LoopPlaces
    /\ pos \in {1, 2}
    /\ at \notin {"poll", "visit"} => pos = 1

\* A thread triggers when it has pushed, the loop's thread while it runs state code.
OneCall ==
    /\ \A p \in Producer : pc[p] # "idle" => post[p] = L!None
    /\ pc[Loop] # "idle" => at \in {"enter", "walk"}

\* The consumer of the queue is the walk of the loop.
UsingIsWalk == consumer = "using" <=> at = "walk"

Attending == at \in LoopPlaces \ {"poll", "visit"}

\* What is published is followed by a trigger, also when the thread that published it
\* did so for another, or for itself and found nothing more.
EventsFollowed ==
    read # write =>
        \/ trig[TheMachine] \/ Attending
        \/ \E p \in Producer : post[p] = L!ToSet(TheMachine) \/ pc[p] \in HoldsWrite
InitFollowed == init[TheMachine] => trig[TheMachine] \/ at \in {"clear", "callback"}
TriggersFollowed ==
    trig[TheMachine] =>
        \/ signal
        \/ at \in {"visit", "clear"} /\ pos = 1
        \/ \E p \in Producer : post[p] = L!ToSignal

LoopInv ==
    LoopTypeOK /\ OneCall /\ UsingIsWalk /\ EventsFollowed /\ InitFollowed /\ TriggersFollowed

AllInv == IndexInv /\ LoopInv

LEMMA OneMachine ==
    /\ TheMachine \in Single /\ \A m \in Single : m = TheMachine
    /\ Len(<<"machine">>) = 1 /\ <<"machine">>[1] = TheMachine
BY DEF Single, TheMachine

\* The three kinds of posts
LEMMA PostKinds ==
    /\ L!None.step = "none" /\ L!ToSignal.step = "signal" /\ L!ToSet(TheMachine).step = "set"
    /\ L!ToSet(TheMachine).machine = TheMachine
    /\ L!None # L!ToSignal /\ L!None # L!ToSet(TheMachine) /\ L!ToSignal # L!ToSet(TheMachine)
BY DEF L!None, L!ToSignal, L!ToSet

\* Nothing is waiting for the loop when the indexes agree.
LEMMA CountIsZero ==
    ASSUME TypeOK
    PROVE  /\ Count \in Nat
           /\ Count = 0 <=> read = write
BY CapacityAssumption DEF TypeOK, Count, Slot, Size

LEMMA AllInitially == ASSUME Loop \in Producer, AllInit PROVE AllInv
<1>1. IndexInv
  BY IndexInvInit DEF AllInit
<1>2. /\ init = [m \in Single |-> TRUE] /\ trig = [m \in Single |-> TRUE] /\ signal = TRUE
      /\ post = [t \in Producer |-> L!None] /\ at = "poll" /\ pos = 1
  BY DEF AllInit, L!Init, L!Thread
<1>3. read = write /\ consumer = "idle" /\ \A p \in Producer : pc[p] = "idle"
  BY DEF AllInit, Init
<1> QED
  BY <1>1, <1>2, <1>3, OneMachine
     DEF AllInv, LoopInv, LoopTypeOK, OneCall, UsingIsWalk, EventsFollowed, InitFollowed, TriggersFollowed,
         LoopPlaces, Attending
--------------------------------------------------------------------------------
(* What each step does to the loop *)

\* Each step is one of the queue, or leaves it alone.
LEMMA QueueSteps == ASSUME AllNext PROVE [TimelyNext]_vars
<1>1. Timely
  BY DEF AllNext
<1>2. CASE HandleEvent
  BY <1>1, <1>2 DEF HandleEvent, Handles, Takes, Pops, TimelyNext, Timely, Next
<1>3. ASSUME NEW p \in Producer, Call(p) \/ Steps(p) \/ Triggers(p) PROVE [TimelyNext]_vars
  BY <1>1, <1>3 DEF Call, Steps, Returns, Pushes, Triggers, TimelyNext, Timely, Next, Push
<1> QED
  BY <1>2, <1>3 DEF AllNext

\* Where a push stands that does not return
LEMMA PushMoves ==
    ASSUME TypeOK, NEW p \in Producer, Call(p) \/ Pushes(p)
    PROVE  /\ UNCHANGED loop
           /\ \A q \in Producer : q # p => pc'[q] = pc[q]
           /\ pc[p] # "idle" \/ L!MayPost(p)
           /\ consumer' = consumer /\ read' = read
           /\ write' # write => pc'[p] = "advance"
           /\ pc[p] \in HoldsWrite => pc'[p] \in HoldsWrite
<1>1. pc \in [Producer -> HoldsPending \cup HoldsWrite \cup
                 {"idle", "load", "fill_name", "fill_param", "set_ready", "load_write"}]
  BY DEF TypeOK
<1> DEFINE Moves == /\ \A q \in Producer : q # p => pc'[q] = pc[q]
                    /\ consumer' = consumer /\ read' = read
                    /\ write' # write => pc'[p] = "advance"
                    /\ pc[p] \in HoldsWrite => pc'[p] \in HoldsWrite
<1>2. CASE Call(p)
  BY <1>1, <1>2 DEF Call, CallPush, Goto, shared, HoldsWrite
<1>3. ASSUME LoadPending(p) \/ RefuseFull(p) \/ FindRoom(p) \/ Claim(p) \/ ClaimFails(p)
      PROVE  Moves /\ pc[p] # "idle"
  BY <1>1, <1>3 DEF LoadPending, RefuseFull, FindRoom, Claim, ClaimFails, Return, Goto, shared, HoldsWrite
<1>4. ASSUME FillName(p) \/ FillParam(p) \/ SetReady(p) \/ LoadWrite(p) \/ TakeReady(p) \/ Publish(p)
      PROVE  Moves /\ pc[p] # "idle"
  BY <1>1, <1>4 DEF FillName, FillParam, SetReady, LoadWrite, TakeReady, Publish, Goto, shared, HoldsWrite, AfterPublish
<1>5. CASE Pushes(p)
  BY <1>3, <1>4, <1>5 DEF Pushes
<1> QED
  BY <1>2, <1>5

LEMMA PushReturns ==
    ASSUME TypeOK, NEW p \in Producer, Returns(p)
    PROVE  /\ UNCHANGED <<init, trig, signal, at, pos>>
           /\ post' = [post EXCEPT ![p] = L!ToSet(TheMachine)]
           /\ pc[p] = "advance" /\ pc' = [pc EXCEPT ![p] = "idle"]
           /\ consumer' = consumer /\ read' = read /\ write' = write
BY DEF Returns, Pushed, NothingReady, Return, Goto, shared, TheMachine

\* A push does not disturb what the loop relies on.
LEMMA PushKeeps ==
    ASSUME TypeOK, LoopInv, Loop \in Producer, NEW p \in Producer, Call(p) \/ Pushes(p)
    PROVE  LoopInv'
<1>1. /\ UNCHANGED <<init, trig, signal, post, at, pos>>
      /\ \A q \in Producer : q # p => pc'[q] = pc[q]
      /\ pc[p] # "idle" \/ L!MayPost(p)
      /\ consumer' = consumer /\ read' = read
      /\ write' # write => pc'[p] = "advance"
      /\ pc[p] \in HoldsWrite => pc'[p] \in HoldsWrite
  BY PushMoves DEF loop
<1>2. LoopTypeOK'
  BY <1>1 DEF LoopInv, LoopTypeOK
<1>3. OneCall'
  BY <1>1 DEF LoopInv, OneCall, L!MayPost
<1>4. UsingIsWalk' /\ InitFollowed' /\ TriggersFollowed'
  BY <1>1 DEF LoopInv, UsingIsWalk, InitFollowed, TriggersFollowed
<1>5. EventsFollowed'
  <2>1. \A q \in Producer : pc[q] \in HoldsWrite => pc'[q] \in HoldsWrite
    BY <1>1
  <2>2. CASE write' = write
    BY <1>1, <2>1, <2>2 DEF LoopInv, EventsFollowed, Attending
  <2>3. CASE write' # write
    BY <1>1, <2>3 DEF EventsFollowed, HoldsWrite
  <2> QED
    BY <2>2, <2>3
<1> QED
  BY <1>2, <1>3, <1>4, <1>5 DEF LoopInv

\* Whoever returns triggers.
LEMMA ReturnKeeps ==
    ASSUME TypeOK, LoopInv, NEW p \in Producer, Returns(p)
    PROVE  LoopInv'
<1>1. /\ UNCHANGED <<init, trig, signal, at, pos>>
      /\ post' = [post EXCEPT ![p] = L!ToSet(TheMachine)]
      /\ pc[p] = "advance" /\ pc' = [pc EXCEPT ![p] = "idle"]
      /\ consumer' = consumer /\ read' = read /\ write' = write
  BY PushReturns
<1>2. /\ post \in [Producer -> {L!None, L!ToSignal, L!ToSet(TheMachine)}]
      /\ DOMAIN pc = Producer /\ post[p] = L!None
  BY <1>1 DEF TypeOK, LoopInv, LoopTypeOK, OneCall
<1>3. LoopTypeOK'
  BY <1>1, <1>2 DEF LoopInv, LoopTypeOK
<1>4. OneCall'
  BY <1>1, <1>2 DEF LoopInv, OneCall
<1>5. UsingIsWalk' /\ InitFollowed'
  BY <1>1 DEF LoopInv, UsingIsWalk, InitFollowed
<1>6. TriggersFollowed'
  BY <1>1, <1>2, PostKinds DEF LoopInv, TriggersFollowed
<1>7. EventsFollowed'
  BY <1>1, <1>2 DEF EventsFollowed
<1> QED
  BY <1>3, <1>4, <1>5, <1>6, <1>7 DEF LoopInv

LEMMA TriggersKeep ==
    ASSUME TypeOK, LoopInv, NEW p \in Producer, Triggers(p)
    PROVE  LoopInv'
<1>1. UNCHANGED <<read, write, pc, consumer, init, at, pos>>
  BY DEF Triggers, L!Trigger, L!SetTrig, L!Signal, vars, shared
<1>2. /\ post \in [Producer -> {L!None, L!ToSignal, L!ToSet(TheMachine)}]
      /\ trig \in [Single -> BOOLEAN]
  BY DEF LoopInv, LoopTypeOK
<1>3. \/ /\ post[p] = L!ToSet(TheMachine) /\ trig' = [trig EXCEPT ![TheMachine] = TRUE]
         /\ post' = [post EXCEPT ![p] = L!ToSignal] /\ signal' = signal
      \/ /\ post[p] = L!ToSignal /\ signal' = TRUE /\ trig' = trig
         /\ post' = [post EXCEPT ![p] = L!None]
  BY <1>2, PostKinds DEF Triggers, L!Trigger, L!SetTrig, L!Signal, L!AfterSet
<1>4. LoopTypeOK'
  BY <1>1, <1>2, <1>3 DEF LoopInv, LoopTypeOK
<1>5. pc[p] = "idle"
  BY <1>3, PostKinds DEF LoopInv, OneCall
<1>6. OneCall'
  BY <1>1, <1>2, <1>3, <1>5 DEF LoopInv, OneCall
<1>7. UsingIsWalk'
  BY <1>1 DEF LoopInv, UsingIsWalk
<1>8. EventsFollowed' /\ InitFollowed'
  <2>1. trig[TheMachine] => trig'[TheMachine]
    BY <1>2, <1>3, OneMachine
  <2>2. post[p] = L!ToSet(TheMachine) => trig'[TheMachine]
    BY <1>2, <1>3, PostKinds, OneMachine
  <2>3. \A q \in Producer : q # p => post'[q] = post[q]
    BY <1>2, <1>3
  <2> QED
    BY <1>1, <2>1, <2>2, <2>3 DEF LoopInv, EventsFollowed, InitFollowed, Attending
<1>9. TriggersFollowed'
  BY <1>1, <1>2, <1>3 DEF LoopInv, TriggersFollowed
<1> QED
  BY <1>4, <1>6, <1>7, <1>8, <1>9 DEF LoopInv

\* handle_event up to the callback
LEMMA HandlesKeep ==
    ASSUME TypeOK, LoopInv, Loop \in Producer, Handles
    PROVE  LoopInv'
<1>0. /\ UNCHANGED <<read, write, pc, consumer>> /\ pc[Loop] = "idle"
  BY DEF Handles, vars, shared, Free
<1>t. /\ post \in [Producer -> {L!None, L!ToSignal, L!ToSet(TheMachine)}]
      /\ init \in [Single -> BOOLEAN] /\ trig \in [Single -> BOOLEAN] /\ signal \in BOOLEAN
      /\ pos \in {1, 2}
  BY DEF LoopInv, LoopTypeOK
<1>o. OneCall' <=> /\ \A p \in Producer : pc[p] # "idle" => post'[p] = L!None
  BY <1>0 DEF OneCall
<1>1. CASE L!Wake
  <2>1. /\ at = "poll" /\ at' = "visit" /\ pos' = 1 /\ UNCHANGED <<init, trig, post>> /\ signal' = FALSE
    BY <1>1 DEF L!Wake, L!LoopAt
  <2> QED
    BY <1>0, <1>t, <1>o, <2>1 DEF LoopInv, LoopTypeOK, OneCall, UsingIsWalk, EventsFollowed, InitFollowed,
         TriggersFollowed, Attending, LoopPlaces
<1>2. CASE L!Visit
  <2>1. /\ at = "visit" /\ pos = 1 /\ L!Current = TheMachine /\ UNCHANGED <<init, trig, signal, post>>
    BY <1>2, <1>t, OneMachine DEF L!Visit, L!LoopAt, L!Current
  <2>2. \/ trig[TheMachine] /\ at' = "clear" /\ pos' = 1
        \/ ~trig[TheMachine] /\ at' = "visit" /\ pos' = 2
    BY <1>2, <2>1 DEF L!Visit, L!Goto, L!NextEvent
  <2> QED
    BY <1>0, <1>t, <1>o, <2>1, <2>2 DEF LoopInv, LoopTypeOK, OneCall, UsingIsWalk, EventsFollowed, InitFollowed,
         TriggersFollowed, Attending, LoopPlaces
<1>3. CASE L!EndOfList
  <2>1. /\ at = "visit" /\ pos = 2 /\ at' = "poll" /\ UNCHANGED <<init, trig, signal, post, pos>>
    BY <1>3, <1>t, OneMachine DEF L!EndOfList, L!LoopAt, L!Goto
  <2> QED
    BY <1>0, <1>t, <1>o, <2>1 DEF LoopInv, LoopTypeOK, OneCall, UsingIsWalk, EventsFollowed, InitFollowed,
         TriggersFollowed, Attending, LoopPlaces
<1>4. CASE L!ClearTrig
  <2>1. /\ at = "clear" /\ at' = "callback" /\ pos = 1 /\ UNCHANGED <<init, signal, post, pos>>
    BY <1>4 DEF L!ClearTrig, L!LoopAt, L!Goto, LoopInv, LoopTypeOK
  <2>2. trig' = [trig EXCEPT ![TheMachine] = FALSE]
    BY <1>4, <2>1, OneMachine DEF L!ClearTrig, L!Current
  <2>3. ~trig'[TheMachine] /\ trig' \in [Single -> BOOLEAN]
    BY <1>t, <2>2, OneMachine
  <2> QED
    BY <1>0, <1>t, <1>o, <2>1, <2>3 DEF LoopInv, LoopTypeOK, OneCall, UsingIsWalk, EventsFollowed, InitFollowed,
         TriggersFollowed, Attending, LoopPlaces
<1>5. CASE L!Callback
  <2>1. /\ at = "callback" /\ at' \in {"enter", "take"} /\ pos = 1 /\ UNCHANGED <<trig, signal, post, pos>>
    BY <1>5 DEF L!Callback, L!LoopAt, L!Goto, LoopInv, LoopTypeOK
  <2>2. init' = [init EXCEPT ![TheMachine] = FALSE]
    BY <1>5, <2>1, OneMachine DEF L!Callback, L!Current
  <2>3. ~init'[TheMachine] /\ init' \in [Single -> BOOLEAN]
    BY <1>t, <2>2, OneMachine
  <2> QED
    BY <1>0, <1>t, <1>o, <2>1, <2>3 DEF LoopInv, LoopTypeOK, OneCall, UsingIsWalk, EventsFollowed, InitFollowed,
         TriggersFollowed, Attending, LoopPlaces
<1>6. CASE L!Entered
  <2>1. /\ at = "enter" /\ at' = "take" /\ pos = 1 /\ UNCHANGED <<init, trig, signal, post, pos>>
    BY <1>6 DEF L!Entered, L!LoopAt, L!Goto, LoopInv, LoopTypeOK
  <2> QED
    BY <1>0, <1>t, <1>o, <2>1 DEF LoopInv, LoopTypeOK, OneCall, UsingIsWalk, EventsFollowed, InitFollowed,
         TriggersFollowed, Attending, LoopPlaces
<1>7. CASE L!TriggerAgain
  <2>1. /\ at = "more" /\ at' = "visit" /\ pos = 1 /\ pos' = 2 /\ post[Loop] = L!None
        /\ UNCHANGED <<init, trig, signal>>
    BY <1>7 DEF L!TriggerAgain, L!LoopAt, L!NextEvent, LoopInv, LoopTypeOK
  <2>2. L!More(TheMachine) <=> read # write
    BY CountIsZero, OneMachine DEF L!More
  <2>3. post' = IF read # write THEN [post EXCEPT ![Loop] = L!ToSet(TheMachine)] ELSE post
    BY <1>7, <2>1, <2>2, OneMachine DEF L!TriggerAgain, L!Current
  <2>4. LoopTypeOK'
    BY <1>t, <2>1, <2>3 DEF LoopInv, LoopTypeOK, LoopPlaces
  <2>5. OneCall'
    BY <1>0, <1>t, <1>o, <2>3 DEF LoopInv, OneCall
  <2>6. EventsFollowed'
    BY <1>0, <1>t, <2>3 DEF EventsFollowed
  <2>7. TriggersFollowed'
    BY <1>t, <2>1, <2>3, PostKinds DEF LoopInv, TriggersFollowed
  <2>8. UsingIsWalk' /\ InitFollowed'
    BY <1>0, <2>1 DEF LoopInv, UsingIsWalk, InitFollowed
  <2> QED
    BY <2>4, <2>5, <2>6, <2>7, <2>8 DEF LoopInv
<1> QED
  BY <1>1, <1>2, <1>3, <1>4, <1>5, <1>6, <1>7 DEF Handles

\* The loop looks into the queue, and goes to the next machine if it finds nothing.
LEMMA TakesKeep ==
    ASSUME TypeOK, LoopInv, Loop \in Producer, Takes
    PROVE  LoopInv'
<1>1. /\ at = "take" /\ pos = 1 /\ pc[Loop] = "idle" /\ UNCHANGED <<read, write, pc, init, trig, signal, post>>
  BY DEF Takes, L!Take, L!LoopAt, SeeNonEmpty, vars, shared, Free, LoopInv, LoopTypeOK
<1>2. L!Empty(TheMachine) <=> read = write
  BY CountIsZero, OneMachine DEF L!Empty
<1>3. L!Current = TheMachine
  BY <1>1, OneMachine DEF L!Current
<1>4. \/ read = write /\ at' = "visit" /\ pos' = 2 /\ consumer' = consumer
      \/ read # write /\ at' = "walk" /\ pos' = 1 /\ consumer' = "using"
  BY <1>1, <1>2, <1>3 DEF Takes, L!Take, L!Goto, L!NextEvent, SeeNonEmpty, vars
<1> QED
  BY <1>1, <1>4 DEF LoopInv, LoopTypeOK, OneCall, UsingIsWalk, EventsFollowed, InitFollowed,
       TriggersFollowed, Attending, LoopPlaces

LEMMA PopsKeep ==
    ASSUME TypeOK, LoopInv, Loop \in Producer, Pops
    PROVE  LoopInv'
<1>1. /\ at = "walk" /\ at' = "more" /\ pos = 1 /\ UNCHANGED <<write, pc, init, trig, signal, post, pos>>
      /\ consumer' = "idle" /\ pc[Loop] = "idle"
  BY DEF Pops, Pop, L!Pop, L!LoopAt, L!Goto, Free, LoopInv, LoopTypeOK
<1> QED
  BY <1>1 DEF LoopInv, LoopTypeOK, OneCall, UsingIsWalk, EventsFollowed, InitFollowed,
       TriggersFollowed, Attending, LoopPlaces

LEMMA AllPreserved ==
    ASSUME Loop \in Producer, AllInv, [AllNext]_<<vars, loop>>
    PROVE  AllInv'
<1>1. CASE AllNext
  <2>1. IndexInv'
    BY <1>1, QueueSteps, IndexInvStep DEF AllInv
  <2>2. LoopInv'
    BY <1>1, PushKeeps, ReturnKeeps, TriggersKeep, HandlesKeep, TakesKeep, PopsKeep
       DEF AllNext, HandleEvent, Steps, AllInv, IndexInv
  <2> QED
    BY <2>1, <2>2 DEF AllInv
<1>2. CASE UNCHANGED <<vars, loop>>
  <2>1. IndexInv'
    BY <1>2, IndexInvStep DEF AllInv
  <2>2. LoopInv'
    BY <1>2 DEF AllInv, LoopInv, LoopTypeOK, OneCall, UsingIsWalk, EventsFollowed, InitFollowed,
         TriggersFollowed, Attending, vars, shared, loop
  <2> QED
    BY <2>1, <2>2 DEF AllInv
<1> QED
  BY <1>1, <1>2
--------------------------------------------------------------------------------
(***************************************************************************)
(* The loop sleeps only when nothing is left that was ever claimed, with   *)
(* any number of threads and places: whichever of them published an event, *)
(* one has triggered the loop after it, and what nobody has published has  *)
(* a push under way (vivid_queue_push, vivid_queue_event, handle_event).   *)
(***************************************************************************)
THEOREM LockfreeSleepsOnlyIdle ==
    ASSUME Loop \in Producer
    PROVE  AllSpec => []SleepsOnlyIdle
<1>1. AllInv => SleepsOnlyIdle
  <2> SUFFICES ASSUME AllInv, L!Asleep, \A p \in Producer : pc[p] = "idle"
               PROVE  ~trig["machine"] /\ ~init["machine"] /\ read = pending
    BY DEF SleepsOnlyIdle
  <2>1. at = "poll" /\ ~signal /\ \A p \in Producer : post[p] = L!None
    BY DEF L!Asleep, L!Thread
  <2>2. ~trig[TheMachine]
    BY <2>1, PostKinds DEF AllInv, LoopInv, TriggersFollowed
  <2>3. ~init[TheMachine]
    BY <2>1, <2>2 DEF AllInv, LoopInv, InitFollowed
  <2>4. read = write
    BY <2>1, <2>2, PostKinds DEF AllInv, LoopInv, EventsFollowed, Attending, HoldsWrite
  <2>5. write = pending
    BY IndexInvStrandsNone DEF AllInv, NoneStranded
  <2> QED
    BY <2>2, <2>3, <2>4, <2>5 DEF TheMachine
<1>2. AllSpec => []AllInv
  BY AllInitially, AllPreserved, PTL DEF AllSpec
<1> QED
  BY <1>1, <1>2, PTL

\* The events claimed and not yet popped
LEMMA ClaimedCounts ==
    ASSUME IndexInv
    PROVE  /\ Claimed \in Nat
           /\ \A p \in Producer : Claim(p) => Claimed < Capacity /\ Claimed' = Claimed + 1
           /\ Pop => Claimed > 0 /\ Claimed' = Claimed - 1
<1>1. read \in Slot /\ pending \in Slot /\ write \in Slot /\ Order
  BY DEF IndexInv, TypeOK, Entries
<1>2. Claimed \in Nat
  BY <1>1, CapacityAssumption DEF Claimed, Slot, Size
<1>3. ASSUME NEW p \in Producer, Claim(p) PROVE Claimed < Capacity /\ Claimed' = Claimed + 1
  <2>1. pending = index[p] /\ pc[p] = "claim" /\ pending' = IncIndex(pending) /\ read' = read
    BY <1>3 DEF Claim
  <2>2. IncIndex(pending) # read
    BY <2>1 DEF IndexInv, TimelyClaim, HoldsPending, Entries, Loaded
  <2> QED
    BY <1>1, <2>1, <2>2, CapacityAssumption DEF Claimed, Slot, Size, IncIndex
<1>4. ASSUME Pop PROVE Claimed > 0 /\ Claimed' = Claimed - 1
  <2>1. read # write /\ read' = IncIndex(read) /\ pending' = pending
    BY <1>4 DEF Pop, IndexInv, UsesWaiting
  <2>2. read # pending
    BY <1>1, <2>1, CapacityAssumption DEF Order, Ahead, Slot, Size
  <2> QED
    BY <1>1, <2>1, <2>2, CapacityAssumption DEF Claimed, Slot, Size, IncIndex
<1> QED
  BY <1>2, <1>3, <1>4

(***************************************************************************)
(* The safety half of what the loop promises, for the queue without a      *)
(* lock: an event waits from its claim to its pop, there are never more of *)
(* them than places, and the loop serves only what waits.                  *)
(***************************************************************************)
THEOREM LockfreeLoopIsService ==
    ASSUME Loop \in Producer
    PROVE  AllSpec => Service!Safety
<1> DEFINE served == [m \in Single |-> Claimed]
<1>1. AllInit => Service!Init
  <2> SUFFICES ASSUME AllInit PROVE Claimed = 0
    BY DEF Service!Init
  <2> QED
    BY DEF AllInit, Init, Claimed
<1>2. ASSUME AllInv, [AllNext]_<<vars, loop>> PROVE [Service!Next]_served
  <2>1. CASE UNCHANGED <<read, pending>>
    BY <2>1 DEF Claimed
  <2>2. ASSUME NEW p \in Producer, Claim(p) PROVE Service!Next
    <3>1. Claimed < Capacity /\ Claimed' = Claimed + 1
      BY <2>2, ClaimedCounts, <1>2 DEF AllInv
    <3>2. Service!Post(TheMachine)
      BY <3>1, OneMachine DEF Service!Post
    <3> QED
      BY <3>2, OneMachine DEF Service!Next
  <2>3. ASSUME Pop PROVE Service!Next
    <3>1. Claimed > 0 /\ Claimed' = Claimed - 1
      BY <2>3, ClaimedCounts, <1>2 DEF AllInv
    <3>2. Service!Serve(TheMachine)
      BY <3>1, OneMachine DEF Service!Serve
    <3> QED
      BY <3>2, OneMachine DEF Service!Next
  <2>4. [TimelyNext]_vars
    BY <1>2, QueueSteps DEF vars
  <2>5. \/ UNCHANGED <<read, pending>> \/ Pop \/ \E p \in Producer : Claim(p)
    BY <2>4 DEF TimelyNext, Next, Push, CallPush, LoadPending, RefuseFull, FindRoom, ClaimFails, FillName,
         FillParam, SetReady, LoadWrite, TakeReady, NothingReady, Publish, Return, SeeNonEmpty, vars, shared
  <2> QED
    BY <2>1, <2>2, <2>3, <2>5
<1>3. AllSpec => []AllInv
  BY AllInitially, AllPreserved, PTL DEF AllSpec
<1> QED
  BY <1>1, <1>2, <1>3, PTL DEF AllSpec, Service!Safety
================================================================================
