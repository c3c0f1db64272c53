------------------------------ MODULE StorageProofs ------------------------------
(***************************************************************************)
(* Proofs about what is stored and found again.  The parameters of events: *)
(* for any events, threads, blocks and any size of the queue, a clause     *)
(* reads the parameter of its own event and every block has one owner.     *)
(* The map: for any keys, however the tree is turned, it is a search tree, *)
(* balanced when fixup returns, and does what a dictionary does.           *)
(***************************************************************************)
EXTENDS EventParam, VividMap, TLAPS

Walk == {"create", "init", "rest", "jump", "gone"}
ParamTypeOK ==
    /\ dynamic \in BOOLEAN /\ jump \in BOOLEAN /\ destroyed \in BOOLEAN
    /\ clausesSeen \in 0..Len(EventClauses) /\ maxParamSize \in Nat
    /\ heap \in [Block -> Param \cup {None}]
    /\ raising \in [Producer -> Block \cup {None}]
    /\ names \in [Place -> Event \cup {Plain, None}]
    /\ params \in [Place -> IF dynamic THEN Block \cup {None} ELSE Param \cup {Garbage}]
    /\ sent \in [Place -> Param \cup {None}]
    /\ read \in Place /\ write \in Place
    /\ walk \in Walk
    /\ leaked \in SUBSET Block

\* An entry of the queue holds what its event was raised with.
EntryHolds(i) ==
    /\ names[i] \in Event \cup {Plain}
    /\ names[i] \in Event =>
          /\ sent[i] \in Param /\ sent[i].event = names[i]
          /\ dynamic => params[i] \in Block /\ heap[params[i]] = sent[i]
          /\ ~dynamic => params[i] = sent[i]
    /\ names[i] = Plain /\ dynamic => params[i] = None
EntriesHold == \A i \in InQueue : EntryHolds(i)

\* The widths that the clauses seen so far ask for
WidthsKept ==
    /\ ~dynamic => \A k \in 1..clausesSeen : Asks(EventClauses[k]) <= maxParamSize
    /\ walk # "create" => clausesSeen = Len(EventClauses)

Busy == walk = "jump" => read # write

\* One owner for each block, said block by block
InHand(b) == \E p \in Producer : raising[p] = b
Enqueued(b) == \E i \in InQueue : params[i] = b
OneOwner ==
    /\ \A b \in Block : heap[b] # None <=> InHand(b) \/ Enqueued(b) \/ b \in leaked
    /\ \A b \in Block : InHand(b) => ~Enqueued(b) /\ b \notin leaked
    /\ \A b \in Block : Enqueued(b) => b \notin leaked
    /\ \A i, j \in InQueue : i # j /\ params[i] \in Block => params[i] # params[j]
    /\ \A p, q \in Producer : p # q /\ raising[p] # None => raising[p] # raising[q]

StaticHasNoBlock == ~dynamic => \A p \in Producer : raising[p] = None

ParamInvariant ==
    ParamTypeOK /\ StaticHasNoBlock /\ EntriesHold /\ WidthsKept /\ Busy /\ OneOwner /\ ReadsOwn
--------------------------------------------------------------------------------
(* The places between read and write *)

\* What is in the queue depends on the two indices only.
Between(r, w) == {i \in Place : IF r <= w THEN r <= i /\ i < w ELSE r <= i \/ i < w}

\* Advancing the index of the next free place takes that place, and no other.
LEMMA PlaceTaken ==
    ASSUME NEW r \in Place, NEW w \in Place, IncIndex(w) # r
    PROVE  /\ IncIndex(w) \in Place
           /\ w \notin Between(r, w)
           /\ \A i \in Place : i \in Between(r, IncIndex(w)) <=> i \in Between(r, w) \/ i = w
BY ParamAssumption, SMT DEF Place, Between, IncIndex

\* Advancing the index of the front gives up that place, and no other.
LEMMA PlaceGivenUp ==
    ASSUME NEW r \in Place, NEW w \in Place, r # w
    PROVE  /\ IncIndex(r) \in Place
           /\ r \in Between(r, w)
           /\ \A i \in Place : i \in Between(IncIndex(r), w) <=> i \in Between(r, w) /\ i # r
BY ParamAssumption, SMT DEF Place, Between, IncIndex

LEMMA InQueueIsBetween == InQueue = Between(read, write)
BY DEF InQueue, Between

\* A place is at least as many bytes before the next one as its parameter has.
LEMMA FitsItsPlace ==
    ASSUME NEW k \in Nat, k > 0, NEW m \in Nat, NEW s \in Nat, s <= m
    PROVE  ~(s > k * m)
<1>1. PICK j \in Nat : k = j + 1
  BY SMT
<1>2. j * m \in Nat /\ k * m = j * m + m
  BY <1>1, SMT
<1> QED
  BY <1>2, SMT

\* What is None is nothing else.
LEMMA NothingElse ==
    /\ None \notin Param /\ None \notin Block /\ None # Plain /\ None # Garbage
    /\ Plain \notin Event
    /\ \A b \in Block : b \notin Param /\ b # Garbage
    /\ \A param \in Param : param.event \in Event /\ param # Garbage
BY ParamAssumption DEF Param

LEMMA WhatIsAsked ==
    /\ Len(EventClauses) \in Nat
    /\ \A k \in 1..Len(EventClauses) : Asks(EventClauses[k]) \in Nat
    /\ \A c \in ToSet(EventClauses) : c.event \in Event /\ \E k \in 1..Len(EventClauses) : c = EventClauses[k]
    /\ \A e \in Event : SizeOf[e] \in Nat
<1>1. /\ Len(EventClauses) \in Nat
      /\ \A k \in 1..Len(EventClauses) : EventClauses[k] \in [event : Event, param : BOOLEAN]
      /\ \A e \in Event : SizeOf[e] \in Nat
  <2>1. PICK clauses : clauses = [event : Event, param : BOOLEAN]
    OBVIOUS
  <2>2. EventClauses \in Seq(clauses) /\ SizeOf \in [Event -> Nat]
    BY <2>1, ParamAssumption
  <2>3. Len(EventClauses) \in Nat /\ \A k \in 1..Len(EventClauses) : EventClauses[k] \in clauses
    BY <2>2
  <2> QED
    BY <2>1, <2>2, <2>3
<1>2. \A c \in ToSet(EventClauses) : \E k \in 1..Len(EventClauses) : c = EventClauses[k]
  BY <1>1 DEF ToSet
<1>3. \A k \in 1..Len(EventClauses) : Asks(EventClauses[k]) \in Nat /\ EventClauses[k].event \in Event
  BY <1>1 DEF Asks
<1> QED
  BY <1>1, <1>2, <1>3
--------------------------------------------------------------------------------
(* The queue is given an event, or refuses it *)

\* What the three functions that raise an event leave alone
Others == LoopWaits /\ UNCHANGED dynamic

LEMMA PushTypes ==
    ASSUME ParamTypeOK, ~Full, Others,
           NEW name \in Event \cup {Plain}, NEW param, NEW says \in Param \cup {None},
           Push(name, param, says),
           dynamic => param \in Block \cup {None},
           ~dynamic /\ name # Plain => param \in Param
    PROVE  /\ names' \in [Place -> Event \cup {Plain, None}]
           /\ params' \in [Place -> IF dynamic THEN Block \cup {None} ELSE Param \cup {Garbage}]
           /\ sent' \in [Place -> Param \cup {None}]
           /\ write' \in Place
<1>1. names' \in [Place -> Event \cup {Plain, None}]
  BY DEF Push, ParamTypeOK
<1>2. sent' \in [Place -> Param \cup {None}]
  BY DEF Push, ParamTypeOK
<1>3. write' \in Place
  BY PlaceTaken DEF Push, ParamTypeOK, Full
<1>4. params' \in [Place -> IF dynamic THEN Block \cup {None} ELSE Param \cup {Garbage}]
  <2>1. CASE dynamic
    BY <2>1 DEF Push, ParamTypeOK
  <2>2. CASE ~dynamic /\ name = Plain
    BY <2>2 DEF Push, ParamTypeOK
  <2>3. CASE ~dynamic /\ name # Plain
    BY <2>3 DEF Push, ParamTypeOK, Copied
  <2> QED
    BY <2>1, <2>2, <2>3
<1> QED
  BY <1>1, <1>2, <1>3, <1>4

LEMMA PushPlaces ==
    ASSUME ParamTypeOK, ~Full, Others, NEW name, NEW param, NEW says, Push(name, param, says)
    PROVE  /\ write \notin InQueue
           /\ \A i \in Place : i \in InQueue' <=> i \in InQueue \/ i = write
<1>1. read' = read /\ write' = IncIndex(write)
  BY DEF Others, LoopWaits, Push
<1>2. InQueue' = Between(read', write')
  BY DEF InQueue, Between
<1> QED
  BY <1>1, <1>2, PlaceTaken, InQueueIsBetween DEF ParamTypeOK, Full

\* Every place of the queue keeps what it has, the one that is taken holds the new event.
LEMMA PushHolds ==
    ASSUME ParamTypeOK, ~Full, Others, EntriesHold,
           NEW name \in Event \cup {Plain}, NEW param, NEW says \in Param \cup {None},
           Push(name, param, says), ~TooLarge(name), UNCHANGED heap,
           dynamic => param \in Block \cup {None},
           name \in Event => says \in Param /\ says.event = name,
           name \in Event /\ dynamic => param \in Block /\ heap[param] = says,
           name \in Event /\ ~dynamic => param = says,
           name = Plain => param = None
    PROVE  EntriesHold'
<1> SUFFICES ASSUME NEW i \in Place, i \in InQueue'
             PROVE  EntryHolds(i)'
  BY DEF EntriesHold, InQueue
<1>1. i \in InQueue \/ i = write
  BY PushPlaces
<1>2. write \in Place /\ dynamic' = dynamic /\ heap' = heap
  BY DEF ParamTypeOK, Others
<1>3. names'[i] = (IF i = write THEN name ELSE names[i])
      /\ sent'[i] = (IF i = write THEN says ELSE sent[i])
  BY <1>2 DEF Push, ParamTypeOK
<1>4. dynamic => params'[i] = (IF i = write THEN param ELSE params[i])
  BY <1>2 DEF Push, ParamTypeOK
<1>5. ASSUME ~dynamic, name \in Event
      PROVE  params'[i] = (IF i = write THEN says ELSE params[i])
  <2>1. name # Plain /\ param = says /\ param \in Param /\ param.event = name
    BY <1>5, NothingElse
  <2>2. SizeOf[name] \in Nat /\ maxParamSize \in Nat /\ SizeOf[name] <= maxParamSize
    BY <1>5, <2>1, WhatIsAsked, SMT DEF TooLarge, ParamTypeOK
  <2>3. ~(i > write /\ SizeOf[param.event] > (i - write) * maxParamSize)
    <3> SUFFICES ASSUME i > write PROVE ~(SizeOf[param.event] > (i - write) * maxParamSize)
      OBVIOUS
    <3>1. i - write \in Nat /\ i - write > 0
      BY <1>2, ParamAssumption, SMT DEF Place
    <3> QED
      BY <2>1, <2>2, <3>1, FitsItsPlace
  <2>4. params' = Copied(write, param)
    BY <1>5, <2>1 DEF Push
  <2> QED
    BY <1>2, <2>1, <2>3, <2>4 DEF Copied
<1>6. ASSUME ~dynamic, name = Plain
      PROVE  params'[i] = params[i]
  BY <1>6 DEF Push
<1>7. CASE i = write
  <2>1. CASE name \in Event
    BY <1>2, <1>3, <1>4, <1>5, <1>7, <2>1, NothingElse DEF EntryHolds
  <2>2. CASE name = Plain
    BY <1>2, <1>3, <1>4, <1>7, <2>2, NothingElse DEF EntryHolds
  <2> QED
    BY <2>1, <2>2
<1>8. CASE i # write
  <2>1. EntryHolds(i)
    BY <1>1, <1>8 DEF EntriesHold
  <2>2. names'[i] = names[i] /\ sent'[i] = sent[i] /\ params'[i] = params[i]
    BY <1>3, <1>4, <1>5, <1>6, <1>8
  <2> QED
    BY <1>2, <2>1, <2>2 DEF EntryHolds
<1> QED
  BY <1>7, <1>8

\* A refusal changes nothing of the entries.
LEMMA RefuseHolds ==
    ASSUME Others, EntriesHold, UNCHANGED heap, NEW name, NEW param, NEW cause,
           Refuse(name, param, cause)
    PROVE  EntriesHold' /\ InQueue' = InQueue
<1>1. InQueue' = InQueue
  BY DEF Others, LoopWaits, Refuse, InQueue
<1>2. ASSUME NEW i \in InQueue'
      PROVE  EntryHolds(i)'
  <2>1. EntryHolds(i)
    BY <1>1, <1>2 DEF EntriesHold
  <2> QED
    BY <2>1 DEF EntryHolds, Others, Refuse
<1> QED
  BY <1>1, <1>2 DEF EntriesHold

\* What is refused for its size is larger than what every clause asks for.
LEMMA RefusedFits ==
    ASSUME ParamTypeOK, WidthsKept, walk # "create", Others,
           NEW name \in Event \cup {Plain}, NEW param, NEW says, ReadsOwn,
           QueueEvent(name, param, says)
    PROVE  ReadsOwn'
<1>1. given' = given
  BY DEF Others, LoopWaits
<1>2. AwaitedFits'
  <2>1. CASE TooLarge(name) /\ Refuse(name, param, "size")
    <3>1. SizeOf[name] \in Nat /\ maxParamSize \in Nat /\ SizeOf[name] > maxParamSize /\ ~dynamic
      BY <2>1, WhatIsAsked DEF TooLarge, ParamTypeOK
    <3>2. ASSUME NEW c \in ToSet(EventClauses) PROVE Asks(c) < SizeOf[name]
      <4>1. PICK k \in 1..Len(EventClauses) : c = EventClauses[k]
        BY WhatIsAsked
      <4>2. Asks(c) \in Nat /\ Asks(c) <= maxParamSize
        BY <3>1, <4>1, WhatIsAsked DEF WidthsKept
      <4> QED
        BY <3>1, <4>2, SMT
    <3>3. refused'.event = name
      BY <2>1 DEF Refuse
    <3> QED
      BY <3>2, <3>3 DEF AwaitedFits
  <2>2. CASE Refuse(name, param, "lock") \/ Refuse(name, param, "full")
    BY <2>2 DEF Refuse, AwaitedFits
  <2>3. CASE Push(name, param, says)
    BY <2>3 DEF Push, AwaitedFits
  <2> QED
    BY <2>1, <2>2, <2>3 DEF QueueEvent
<1> QED
  BY <1>1, <1>2 DEF ReadsOwn
--------------------------------------------------------------------------------
(* Each of the functions that raise an event *)

\* In a build with static parameters no place holds a block.
LEMMA StaticPlaces ==
    ASSUME ParamTypeOK, ~dynamic
    PROVE  \A b \in Block : ~Enqueued(b)
<1> SUFFICES ASSUME NEW b \in Block, NEW i \in InQueue, params[i] = b PROVE FALSE
  BY DEF Enqueued
<1>1. i \in Place
  BY DEF InQueue
<1>2. params[i] \in Param \cup {Garbage}
  BY <1>1 DEF ParamTypeOK
<1> QED
  BY <1>2, NothingElse

LEMMA StaticOwners ==
    ASSUME OneOwner, ParamTypeOK, ParamTypeOK', ~dynamic, UNCHANGED <<dynamic, heap, raising, leaked>>
    PROVE  OneOwner'
<1>1. \A b \in Block : ~Enqueued(b) /\ ~Enqueued(b)'
  <2>1. \A i \in InQueue' : params'[i] \in Param \cup {Garbage}
    BY DEF ParamTypeOK, InQueue
  <2>2. \A b \in Block : ~Enqueued(b)'
    BY <2>1, NothingElse DEF Enqueued
  <2> QED
    BY <2>2, StaticPlaces
<1>2. \A b \in Block : (InHand(b)' <=> InHand(b)) /\ ((b \in leaked') <=> (b \in leaked)) /\ heap'[b] = heap[b]
  BY DEF InHand
<1>3. \A i, j \in InQueue' : i # j /\ params'[i] \in Block => params'[i] # params'[j]
  BY <1>1 DEF Enqueued
<1>4. \A p, q \in Producer : p # q /\ raising'[p] # None => raising'[p] # raising'[q]
  BY DEF OneOwner
<1> QED
  BY <1>1, <1>2, <1>3, <1>4 DEF OneOwner

\* The types of what a refusal or an entry into the queue changes
LEMMA QueueEventTypes ==
    ASSUME ParamTypeOK, Others,
           NEW name \in Event \cup {Plain}, NEW param, NEW says \in Param \cup {None},
           QueueEvent(name, param, says),
           dynamic => param \in Block \cup {None},
           ~dynamic /\ name # Plain => param \in Param
    PROVE  /\ names' \in [Place -> Event \cup {Plain, None}]
           /\ params' \in [Place -> IF dynamic THEN Block \cup {None} ELSE Param \cup {Garbage}]
           /\ sent' \in [Place -> Param \cup {None}]
           /\ write' \in Place
           /\ leaked' \in SUBSET Block
<1>1. CASE ~Full /\ Push(name, param, says)
  <2>1. leaked' = leaked
    BY <1>1 DEF Push
  <2> QED
    BY <1>1, <2>1, PushTypes DEF ParamTypeOK
<1>2. ASSUME NEW cause, Refuse(name, param, cause)
      PROVE  /\ leaked' \in SUBSET Block
             /\ UNCHANGED <<names, params, sent, write>>
  BY <1>2 DEF Refuse, ParamTypeOK
<1> QED
  BY <1>1, <1>2 DEF QueueEvent, ParamTypeOK

\* ... and the rest of the invariant, without the owners
LEMMA QueueEventKeeps ==
    ASSUME ParamInvariant, Others, walk # "create", UNCHANGED heap,
           NEW name \in Event \cup {Plain}, NEW param, NEW says \in Param \cup {None},
           QueueEvent(name, param, says),
           dynamic => param \in Block \cup {None},
           name \in Event => says \in Param /\ says.event = name,
           name \in Event /\ dynamic => param \in Block /\ heap[param] = says,
           name \in Event /\ ~dynamic => param = says,
           name = Plain => param = None,
           raising' \in [Producer -> Block \cup {None}],
           ~dynamic => raising' = raising
    PROVE  /\ ParamTypeOK' /\ StaticHasNoBlock' /\ EntriesHold' /\ WidthsKept' /\ Busy' /\ ReadsOwn'
<1>1. ParamTypeOK'
  <2>1. ~dynamic /\ name # Plain => param \in Param
    BY DEF ParamInvariant
  <2>2. /\ names' \in [Place -> Event \cup {Plain, None}]
        /\ params' \in [Place -> IF dynamic THEN Block \cup {None} ELSE Param \cup {Garbage}]
        /\ sent' \in [Place -> Param \cup {None}]
        /\ write' \in Place
        /\ leaked' \in SUBSET Block
    BY <2>1, QueueEventTypes DEF ParamInvariant
  <2> QED
    BY <2>2 DEF ParamTypeOK, ParamInvariant, Others, LoopWaits, creation
<1>2. StaticHasNoBlock'
  BY DEF ParamInvariant, StaticHasNoBlock, Others
<1>3. EntriesHold'
  <2>1. ASSUME NEW cause, Refuse(name, param, cause) PROVE EntriesHold'
    BY <2>1, RefuseHolds DEF ParamInvariant
  <2>2. ASSUME ~Full, ~TooLarge(name), Push(name, param, says) PROVE EntriesHold'
    BY <2>2, PushHolds DEF ParamInvariant
  <2> QED
    BY <2>1, <2>2 DEF QueueEvent
<1>4. WidthsKept'
  BY DEF ParamInvariant, WidthsKept, Others, LoopWaits, creation
<1>5. Busy'
  <2>1. ASSUME NEW cause, Refuse(name, param, cause) PROVE Busy'
    BY <2>1 DEF Refuse, Others, LoopWaits, Busy, ParamInvariant
  <2>2. ASSUME ~Full, Push(name, param, says) PROVE Busy'
    BY <2>2 DEF Push, Others, LoopWaits, Busy, Full
  <2> QED
    BY <2>1, <2>2 DEF QueueEvent
<1>6. ReadsOwn'
  BY RefusedFits DEF ParamInvariant
<1> QED
  BY <1>1, <1>2, <1>3, <1>4, <1>5, <1>6

LEMMA RaiseStaticKeeps ==
    ASSUME ParamInvariant, NEW p \in Producer, walk # "create", RaiseStatic(p), UNCHANGED dynamic
    PROVE  ParamInvariant'
<1>1. PICK param \in Param : QueueEvent(param.event, param, param)
  BY DEF RaiseStatic
<1>2. Others /\ ~dynamic /\ UNCHANGED <<heap, raising>> /\ param.event \in Event /\ param.event # Plain
  BY NothingElse DEF RaiseStatic, Others
<1>3. raising' \in [Producer -> Block \cup {None}]
  BY <1>2 DEF ParamInvariant, ParamTypeOK
<1>4. /\ ParamTypeOK' /\ StaticHasNoBlock' /\ EntriesHold' /\ WidthsKept' /\ Busy' /\ ReadsOwn'
  BY <1>1, <1>2, <1>3, QueueEventKeeps
<1>5. leaked' = leaked
  BY <1>1, <1>2 DEF QueueEvent, Refuse, Push
<1>6. OneOwner'
  BY <1>2, <1>4, <1>5, StaticOwners DEF ParamInvariant
<1> QED
  BY <1>4, <1>6 DEF ParamInvariant

LEMMA RaiseDynamicKeeps ==
    ASSUME ParamInvariant, NEW p \in Producer, RaiseDynamic(p), UNCHANGED dynamic
    PROVE  ParamInvariant'
<1>1. PICK b \in Block, param \in Param :
          heap[b] = None /\ heap' = [heap EXCEPT ![b] = param] /\ raising' = [raising EXCEPT ![p] = b]
  BY DEF RaiseDynamic
<1>2. UNCHANGED <<names, params, sent, write, refused, leaked, creation, read, walk, jump, given, destroyed>>
      /\ dynamic /\ raising[p] = None
  BY DEF RaiseDynamic, LoopWaits
<1>3. ParamTypeOK'
  BY <1>1, <1>2 DEF ParamInvariant, ParamTypeOK, creation
<1>4. InQueue' = InQueue
  BY <1>2 DEF InQueue
<1>5. ~InHand(b) /\ ~Enqueued(b) /\ b \notin leaked
  BY <1>1 DEF ParamInvariant, OneOwner
<1>6. EntriesHold'
  <2> SUFFICES ASSUME NEW i \in InQueue' PROVE EntryHolds(i)'
    BY DEF EntriesHold
  <2>1. EntryHolds(i)
    BY <1>4 DEF ParamInvariant, EntriesHold
  <2>2. params[i] \in Block => params[i] # b /\ heap'[params[i]] = heap[params[i]]
    BY <1>1, <1>4, <1>5 DEF Enqueued, ParamInvariant, ParamTypeOK
  <2> QED
    BY <1>2, <2>1, <2>2 DEF EntryHolds
<1>7. StaticHasNoBlock' /\ WidthsKept' /\ Busy' /\ ReadsOwn'
  BY <1>2 DEF ParamInvariant, StaticHasNoBlock, WidthsKept, Busy, ReadsOwn, AwaitedFits, creation
<1>8. OneOwner'
  <2>1. \A c \in Block : Enqueued(c)' <=> Enqueued(c)
    BY <1>2, <1>4 DEF Enqueued
  <2>2. \A q \in Producer : raising'[q] = IF q = p THEN b ELSE raising[q]
    BY <1>1 DEF ParamInvariant, ParamTypeOK
  <2>3. \A c \in Block : InHand(c)' <=> InHand(c) \/ c = b
    BY <1>2, <2>2, NothingElse DEF InHand
  <2>4. \A c \in Block : heap'[c] = IF c = b THEN param ELSE heap[c]
    BY <1>1 DEF ParamInvariant, ParamTypeOK
  <2>5. \A c \in Block : heap'[c] # None <=> InHand(c)' \/ Enqueued(c)' \/ c \in leaked'
    BY <1>2, <2>1, <2>3, <2>4, NothingElse DEF ParamInvariant, OneOwner
  <2>6. /\ \A c \in Block : InHand(c)' => ~Enqueued(c)' /\ c \notin leaked'
        /\ \A c \in Block : Enqueued(c)' => c \notin leaked'
    BY <1>2, <1>5, <2>1, <2>3 DEF ParamInvariant, OneOwner
  <2>7. \A i, j \in InQueue' : i # j /\ params'[i] \in Block => params'[i] # params'[j]
    BY <1>2, <1>4 DEF ParamInvariant, OneOwner
  <2>8. \A q, r \in Producer : q # r /\ raising'[q] # None => raising'[q] # raising'[r]
    <3>1. \A q \in Producer : raising[q] # b
      BY <1>5 DEF InHand
    <3> QED
      BY <2>2, <3>1 DEF ParamInvariant, OneOwner
  <2> QED
    BY <2>5, <2>6, <2>7, <2>8 DEF OneOwner
<1> QED
  BY <1>3, <1>6, <1>7, <1>8 DEF ParamInvariant

LEMMA QueueDynamicKeeps ==
    ASSUME ParamInvariant, NEW p \in Producer, walk # "create", QueueDynamic(p), UNCHANGED dynamic
    PROVE  ParamInvariant'
<1> DEFINE b == raising[p]
<1>1. dynamic /\ b \in Block /\ heap[b] \in Param
  <2>1. dynamic /\ b \in Block
    BY DEF QueueDynamic, ParamInvariant, StaticHasNoBlock, ParamTypeOK
  <2>2. heap[b] # None
    BY <2>1 DEF ParamInvariant, OneOwner, InHand
  <2> QED
    BY <2>1, <2>2 DEF ParamInvariant, ParamTypeOK
<1>2. PICK name \in Event, says \in Param : name = heap[b].event /\ says = heap[b]
  BY <1>1, NothingElse
<1>3. QueueEvent(name, b, says) /\ Others /\ raising' = [raising EXCEPT ![p] = None] /\ UNCHANGED heap
  BY <1>2 DEF QueueDynamic, Others
<1>4. /\ ParamTypeOK' /\ StaticHasNoBlock' /\ EntriesHold' /\ WidthsKept' /\ Busy' /\ ReadsOwn'
  <2>1. raising' \in [Producer -> Block \cup {None}]
    BY <1>3 DEF ParamInvariant, ParamTypeOK
  <2>2. name # Plain /\ b # None
    BY <1>1, NothingElse
  <2> QED
    BY <1>1, <1>2, <1>3, <2>1, <2>2, QueueEventKeeps
<1>5. \A q \in Producer : raising'[q] = IF q = p THEN None ELSE raising[q]
  BY <1>3 DEF ParamInvariant, ParamTypeOK
<1>6. InHand(b) /\ ~Enqueued(b) /\ b \notin leaked
  BY <1>1 DEF ParamInvariant, OneOwner, InHand
<1>7. \A c \in Block : InHand(c)' <=> InHand(c) /\ c # b
  BY <1>1, <1>5, NothingElse DEF InHand, ParamInvariant, OneOwner
<1>8. \A q, r \in Producer : q # r /\ raising'[q] # None => raising'[q] # raising'[r]
  BY <1>5 DEF ParamInvariant, OneOwner
<1>9. ASSUME NEW cause, Refuse(name, b, cause) PROVE OneOwner'
  <2>1. leaked' = leaked \cup {b} /\ params' = params /\ InQueue' = InQueue
    BY <1>1, <1>3, <1>9, NothingElse DEF Refuse, InQueue, Others, LoopWaits
  <2>2. \A c \in Block : Enqueued(c)' <=> Enqueued(c)
    BY <2>1 DEF Enqueued
  <2> QED
    BY <1>3, <1>6, <1>7, <1>8, <2>1, <2>2 DEF ParamInvariant, OneOwner
<1>10. ASSUME ~Full, Push(name, b, says) PROVE OneOwner'
  <2>1. leaked' = leaked /\ write \in Place
    BY <1>10 DEF Push, ParamInvariant, ParamTypeOK
  <2>2. \A i \in Place : params'[i] = IF i = write THEN b ELSE params[i]
    BY <1>1, <1>10 DEF Push, ParamInvariant, ParamTypeOK
  <2>3. write \notin InQueue /\ \A i \in Place : i \in InQueue' <=> i \in InQueue \/ i = write
    BY <1>3, <1>10, PushPlaces DEF ParamInvariant
  <2>4. InQueue \subseteq Place /\ InQueue' \subseteq Place
    BY DEF InQueue
  <2>5. \A c \in Block : Enqueued(c)' <=> Enqueued(c) \/ c = b
    BY <2>1, <2>2, <2>3, <2>4 DEF Enqueued
  <2>6. \A i, j \in InQueue' : i # j /\ params'[i] \in Block => params'[i] # params'[j]
    <3> SUFFICES ASSUME NEW i \in InQueue', NEW j \in InQueue', i # j, params'[i] \in Block,
                        params'[i] = params'[j]
                 PROVE  FALSE
      OBVIOUS
    <3>1. CASE i = write
      BY <1>6, <2>2, <2>3, <2>4, <3>1 DEF Enqueued
    <3>2. CASE j = write
      BY <1>6, <2>2, <2>3, <2>4, <3>2 DEF Enqueued
    <3>3. CASE i # write /\ j # write
      BY <2>2, <2>3, <2>4, <3>3 DEF ParamInvariant, OneOwner
    <3> QED
      BY <3>1, <3>2, <3>3
  <2> QED
    BY <1>3, <1>6, <1>7, <1>8, <2>1, <2>5, <2>6 DEF ParamInvariant, OneOwner
<1> QED
  BY <1>3, <1>4, <1>9, <1>10 DEF QueueEvent, ParamInvariant

LEMMA RaisePlainKeeps ==
    ASSUME ParamInvariant, NEW p \in Producer, walk # "create", RaisePlain(p), UNCHANGED dynamic
    PROVE  ParamInvariant'
<1>1. QueueEvent(Plain, None, None) /\ Others /\ UNCHANGED <<heap, raising>>
  BY DEF RaisePlain, Others
<1>2. raising' \in [Producer -> Block \cup {None}]
  BY <1>1 DEF ParamInvariant, ParamTypeOK
<1>3. PICK name \in Event \cup {Plain} : name = Plain
  OBVIOUS
<1>4. PICK nothing \in Param \cup {None} : nothing = None
  OBVIOUS
<1>5. QueueEvent(name, nothing, nothing) /\ name \notin Event
  BY <1>1, <1>3, <1>4, NothingElse
<1>6. /\ ParamTypeOK' /\ StaticHasNoBlock' /\ EntriesHold' /\ WidthsKept' /\ Busy' /\ ReadsOwn'
  BY <1>1, <1>2, <1>3, <1>4, <1>5, QueueEventKeeps
<1>7. leaked' = leaked
  BY <1>1 DEF QueueEvent, Refuse, Push
<1>8. OneOwner'
  <2>1. CASE ~dynamic
    BY <1>1, <1>6, <1>7, <2>1, StaticOwners DEF ParamInvariant, Others
  <2>2. CASE dynamic
    <3>1. ASSUME NEW c \in Block PROVE Enqueued(c)' <=> Enqueued(c)
      <4>1. ASSUME NEW cause, Refuse(Plain, None, cause) PROVE Enqueued(c)' <=> Enqueued(c)
        BY <1>1, <4>1 DEF Refuse, Enqueued, InQueue, Others, LoopWaits
      <4>2. ASSUME ~Full, Push(Plain, None, None) PROVE Enqueued(c)' <=> Enqueued(c)
        <5>1. \A i \in Place : params'[i] = IF i = write THEN None ELSE params[i]
          BY <2>2, <4>2 DEF Push, ParamInvariant, ParamTypeOK
        <5>2. write \notin InQueue /\ \A i \in Place : i \in InQueue' <=> i \in InQueue \/ i = write
          BY <1>1, <4>2, PushPlaces DEF ParamInvariant
        <5> QED
          BY <5>1, <5>2, NothingElse DEF Enqueued, InQueue
      <4> QED
        BY <1>1, <4>1, <4>2 DEF QueueEvent
    <3>2. \A c \in Block : InHand(c)' <=> InHand(c)
      BY <1>1 DEF InHand
    <3>3. \A i, j \in InQueue' : i # j /\ params'[i] \in Block => params'[i] # params'[j]
      <4>1. ASSUME NEW cause, Refuse(Plain, None, cause)
            PROVE  InQueue' = InQueue /\ params' = params
        BY <1>1, <4>1 DEF Refuse, InQueue, Others, LoopWaits
      <4>2. ASSUME ~Full, Push(Plain, None, None)
            PROVE  \A i, j \in InQueue' : i # j /\ params'[i] \in Block => params'[i] # params'[j]
        <5>1. \A i \in Place : params'[i] = IF i = write THEN None ELSE params[i]
          BY <2>2, <4>2 DEF Push, ParamInvariant, ParamTypeOK
        <5>2. write \notin InQueue /\ \A i \in Place : i \in InQueue' <=> i \in InQueue \/ i = write
          BY <1>1, <4>2, PushPlaces DEF ParamInvariant
        <5>3. \A i \in InQueue' : i \in Place
          BY DEF InQueue
        <5> QED
          BY <5>1, <5>2, <5>3, NothingElse DEF ParamInvariant, OneOwner
      <4> QED
        BY <1>1, <4>1, <4>2 DEF QueueEvent, ParamInvariant, OneOwner
    <3> QED
      BY <1>1, <1>7, <3>1, <3>2, <3>3 DEF ParamInvariant, OneOwner
  <2> QED
    BY <2>1, <2>2
<1> QED
  BY <1>6, <1>8 DEF ParamInvariant
--------------------------------------------------------------------------------
(* The machine that takes events out of the queue *)

\* A step that leaves the queue alone keeps what is said about it.
LEMMA QueueWaitsKeeps ==
    ASSUME ParamInvariant, UNCHANGED <<dynamic, queue>>,
           clausesSeen' \in 0..Len(EventClauses), maxParamSize' \in Nat,
           walk' \in Walk, jump' \in BOOLEAN, WidthsKept', Busy', ReadsOwn'
    PROVE  ParamInvariant'
<1>1. InQueue' = InQueue
  BY DEF queue, InQueue
<1>2. ParamTypeOK' /\ StaticHasNoBlock'
  BY DEF ParamInvariant, ParamTypeOK, StaticHasNoBlock, queue
<1>3. EntriesHold'
  <2>1. ASSUME NEW i \in InQueue PROVE EntryHolds(i)'
    BY DEF ParamInvariant, EntriesHold, EntryHolds, queue
  <2> QED
    BY <1>1, <2>1 DEF EntriesHold
<1>4. OneOwner'
  BY <1>1 DEF ParamInvariant, OneOwner, InHand, Enqueued, queue
<1> QED
  BY <1>2, <1>3, <1>4 DEF ParamInvariant

\* A clause for the event at the front is given what that event was raised with.
LEMMA GivesOwn ==
    ASSUME ParamInvariant, NEW clause \in Event, names[read] = clause, read # write,
           Gives(clause), UNCHANGED refused
    PROVE  ReadsOwn'
<1>1. read \in InQueue
  BY PlaceGivenUp, InQueueIsBetween DEF ParamInvariant, ParamTypeOK
<1>2. EntryHolds(read)
  BY <1>1 DEF ParamInvariant, EntriesHold
<1>3. Content(read) = sent[read] /\ sent[read].event = clause
  <2>1. CASE dynamic
    BY <1>2, <2>1, NothingElse DEF EntryHolds, Content
  <2>2. CASE ~dynamic
    BY <1>2, <2>2 DEF EntryHolds, Content
  <2> QED
    BY <2>1, <2>2
<1>4. AwaitedFits'
  BY DEF ParamInvariant, ReadsOwn, AwaitedFits
<1>5. sent[read] # None
  BY <1>2, NothingElse DEF EntryHolds
<1> QED
  BY <1>3, <1>4, <1>5 DEF Gives, ReadsOwn

LEMMA CreationKeeps ==
    ASSUME ParamInvariant, Creation, UNCHANGED dynamic
    PROVE  ParamInvariant'
<1>1. UNCHANGED <<queue, jump, given>> /\ walk' \in Walk /\ jump' \in BOOLEAN /\ walk' # "jump"
  BY DEF Creation, OnInit, CreateParamQueue, ParamInvariant, ParamTypeOK, Walk
<1>2. Busy' /\ ReadsOwn'
  BY <1>1 DEF ParamInvariant, Busy, ReadsOwn, AwaitedFits, queue
<1>3. CASE OnInit
  <2>1. clausesSeen \in Nat /\ clausesSeen' = clausesSeen + 1 /\ clausesSeen' \in 0..Len(EventClauses)
    BY <1>3, WhatIsAsked, SMT DEF OnInit, ParamInvariant, ParamTypeOK
  <2>2. Asks(EventClauses[clausesSeen + 1]) \in Nat
    BY <2>1, WhatIsAsked
  <2>3. /\ maxParamSize' \in Nat
        /\ ~dynamic => maxParamSize' >= maxParamSize /\ maxParamSize' >= Asks(EventClauses[clausesSeen + 1])
    BY <1>3, <2>2 DEF OnInit, LargerOf, ParamInvariant, ParamTypeOK
  <2>4. \A k \in 1..clausesSeen' : k \in 1..clausesSeen \/ k = clausesSeen + 1
    BY <2>1
  <2>5. \A k \in 1..clausesSeen' : Asks(EventClauses[k]) \in Nat
    BY <2>1, WhatIsAsked, SMT
  <2>6. ~dynamic => \A k \in 1..clausesSeen' : Asks(EventClauses[k]) <= maxParamSize'
    BY <2>3, <2>4, <2>5, SMT DEF ParamInvariant, ParamTypeOK, WidthsKept
  <2>7. WidthsKept'
    BY <1>3, <2>6 DEF WidthsKept, OnInit
  <2> QED
    BY <1>1, <1>2, <2>1, <2>3, <2>7, QueueWaitsKeeps
<1>4. CASE CreateParamQueue
  <2>1. WidthsKept'
    BY <1>4 DEF CreateParamQueue, ParamInvariant, WidthsKept, creation
  <2> QED
    BY <1>1, <1>2, <1>4, <2>1, QueueWaitsKeeps DEF CreateParamQueue, creation, ParamInvariant, ParamTypeOK
<1> QED
  BY <1>3, <1>4 DEF Creation

LEMMA WalksKeep ==
    ASSUME ParamInvariant, Begin \/ WalkEvent \/ WalkJump, UNCHANGED dynamic
    PROVE  ParamInvariant'
<1>1. UNCHANGED <<creation, queue>> /\ walk' \in Walk /\ jump' \in BOOLEAN /\ walk # "create"
  BY DEF Begin, WalkEvent, WalkJump, OnEvent, OnJump, Transition, QueueWaits,
         ParamInvariant, ParamTypeOK, Walk
<1>2. WidthsKept'
  BY <1>1 DEF ParamInvariant, WidthsKept, creation
<1>3. Busy'
  BY <1>1 DEF ParamInvariant, Busy, Begin, WalkEvent, WalkJump, queue
<1>4. ASSUME given' = None PROVE ReadsOwn'
  BY <1>1, <1>4 DEF ParamInvariant, ReadsOwn, AwaitedFits, queue
<1>5. ReadsOwn' => ParamInvariant'
  BY <1>1, <1>2, <1>3, QueueWaitsKeeps DEF ParamInvariant, ParamTypeOK, creation
<1>6. CASE Begin
  BY <1>1, <1>5, <1>6 DEF ParamInvariant, ReadsOwn, AwaitedFits, queue, Begin
<1>7. CASE WalkEvent
  <2>1. ASSUME NEW c \in ToSet(EventClauses), c.event = names[read], Gives(c.event) PROVE ReadsOwn'
    <3>1. c.event \in Event
      BY WhatIsAsked
    <3> QED
      BY <1>1, <1>7, <2>1, <3>1, GivesOwn DEF WalkEvent, queue
  <2> QED
    BY <1>4, <1>5, <1>7, <2>1 DEF WalkEvent, OnEvent
<1>8. CASE WalkJump
  <2>1. ASSUME NEW clause \in Event, IsLastEvent(clause), Gives(clause) PROVE ReadsOwn'
    BY <1>1, <2>1, GivesOwn DEF IsLastEvent, ParamInvariant, Busy, queue
  <2> QED
    BY <1>4, <1>5, <1>8, <2>1 DEF WalkJump, OnJump
<1> QED
  BY <1>6, <1>7, <1>8

\* The event at the front goes with its parameter, and with nothing else.
LEMMA EventDoneKeeps ==
    ASSUME ParamInvariant, EventDone, UNCHANGED dynamic
    PROVE  ParamInvariant'
<1> DEFINE b == params[read]
<1>1. /\ read # write /\ walk = "jump" /\ walk' = "rest" /\ given' = None /\ jump' = jump
      /\ heap' = Destruct /\ read' = IncIndex(read) /\ sent' = [sent EXCEPT ![read] = None]
      /\ UNCHANGED <<creation, raising, names, params, write, refused, leaked, destroyed>>
  BY DEF EventDone, JumpsDone, Pop, ParamInvariant, Busy
<1>2. /\ read \in InQueue /\ IncIndex(read) \in Place
      /\ \A i \in Place : i \in InQueue' <=> i \in InQueue /\ i # read
  <2>1. InQueue' = Between(IncIndex(read), write)
    BY <1>1 DEF InQueue, Between
  <2> QED
    BY <1>1, <2>1, PlaceGivenUp, InQueueIsBetween DEF ParamInvariant, ParamTypeOK
<1>3. \A i \in InQueue' : i \in Place /\ i \in InQueue /\ i # read
  BY <1>2 DEF InQueue
<1>4. ~dynamic => heap' = heap
  BY <1>1 DEF Destruct
<1>5. dynamic => b \in Block \cup {None}
  BY DEF ParamInvariant, ParamTypeOK
<1>6. dynamic /\ b \in Block => heap' = [heap EXCEPT ![b] = None]
  BY <1>1, NothingElse DEF Destruct
<1>7. dynamic /\ b = None => heap' = heap
  BY <1>1 DEF Destruct
<1>8. heap' \in [Block -> Param \cup {None}]
  BY <1>4, <1>5, <1>6, <1>7 DEF ParamInvariant, ParamTypeOK
<1>9. ParamTypeOK'
  BY <1>1, <1>2, <1>8 DEF ParamInvariant, ParamTypeOK, creation, Walk
<1>10. StaticHasNoBlock' /\ WidthsKept' /\ Busy' /\ ReadsOwn'
  BY <1>1 DEF ParamInvariant, StaticHasNoBlock, WidthsKept, Busy, ReadsOwn, AwaitedFits, creation
<1>11. EntriesHold'
  <2> SUFFICES ASSUME NEW i \in InQueue' PROVE EntryHolds(i)'
    BY DEF EntriesHold
  <2>1. EntryHolds(i) /\ i # read /\ i \in InQueue
    BY <1>3 DEF ParamInvariant, EntriesHold
  <2>2. sent'[i] = sent[i]
    BY <1>1, <1>3 DEF ParamInvariant, ParamTypeOK
  <2>3. dynamic /\ params[i] \in Block => heap'[params[i]] = heap[params[i]]
    <3>1. params[i] \in Block => params[i] # b
      BY <1>2, <2>1 DEF ParamInvariant, OneOwner
    <3> QED
      BY <1>5, <1>6, <1>7, <3>1 DEF ParamInvariant, ParamTypeOK
  <2> QED
    BY <1>1, <2>1, <2>2, <2>3 DEF EntryHolds
<1>12. OneOwner'
  <2>1. CASE ~dynamic
    BY <1>1, <1>4, <1>9, <2>1, StaticOwners DEF ParamInvariant
  <2>2. CASE dynamic
    <3>1. \A c \in Block : Enqueued(c)' <=> Enqueued(c) /\ c # b
      <4>1. \A i \in InQueue : i # read /\ params[i] \in Block => params[i] # b
        BY <1>2 DEF ParamInvariant, OneOwner
      <4>2. \A i \in InQueue : i \in Place
        BY DEF InQueue
      <4> QED
        BY <1>1, <1>2, <1>3, <4>1, <4>2 DEF Enqueued
    <3>2. \A c \in Block : InHand(c)' <=> InHand(c)
      BY <1>1 DEF InHand
    <3>3. b \in Block => Enqueued(b)
      BY <1>2 DEF Enqueued
    <3>4. \A c \in Block : heap'[c] = IF c = b THEN None ELSE heap[c]
      BY <1>5, <1>6, <1>7, <2>2, NothingElse DEF ParamInvariant, ParamTypeOK
    <3>5. \A i, j \in InQueue' : i # j /\ params'[i] \in Block => params'[i] # params'[j]
      BY <1>1, <1>3 DEF ParamInvariant, OneOwner
    <3>6. /\ \A c \in Block : heap'[c] # None <=> InHand(c)' \/ Enqueued(c)' \/ c \in leaked'
          /\ \A c \in Block : InHand(c)' => ~Enqueued(c)' /\ c \notin leaked'
          /\ \A c \in Block : Enqueued(c)' => c \notin leaked'
      BY <1>1, <3>1, <3>2, <3>3, <3>4 DEF ParamInvariant, OneOwner
    <3> QED
      BY <1>1, <3>5, <3>6 DEF ParamInvariant, OneOwner
  <2> QED
    BY <2>1, <2>2
<1> QED
  BY <1>9, <1>10, <1>11, <1>12 DEF ParamInvariant

\* The queue goes: its blocks are left, and none is in the hand of a thread.
LEMMA DestroyKeeps ==
    ASSUME ParamInvariant, Destroy, UNCHANGED dynamic
    PROVE  ParamInvariant'
<1>1. /\ destroyed' = TRUE /\ read' = write /\ walk' = "gone" /\ leaked' = leaked \cup Queued
      /\ UNCHANGED <<creation, heap, raising, names, params, sent, write, jump, given, refused>>
      /\ walk # "create" /\ \A p \in Producer : raising[p] = None
  BY DEF Destroy
<1>2. \A i : i \notin InQueue'
  BY <1>1, ParamAssumption, SMT DEF InQueue, ParamInvariant, ParamTypeOK, Place
<1>3. \A b \in Block : b \in leaked' <=> b \in leaked \/ Enqueued(b)
  BY <1>1 DEF Queued, Enqueued
<1>4. ParamTypeOK'
  <2>1. leaked' \in SUBSET Block
    BY <1>1 DEF Queued, ParamInvariant, ParamTypeOK
  <2> QED
    BY <1>1, <2>1 DEF ParamInvariant, ParamTypeOK, creation, Walk
<1>5. StaticHasNoBlock' /\ WidthsKept' /\ Busy' /\ ReadsOwn'
  BY <1>1 DEF ParamInvariant, StaticHasNoBlock, WidthsKept, Busy, ReadsOwn, AwaitedFits, creation
<1>6. EntriesHold'
  BY <1>2 DEF EntriesHold
<1>7. OneOwner'
  <2>1. \A b \in Block : ~InHand(b) /\ ~InHand(b)' /\ ~Enqueued(b)'
    BY <1>1, <1>2, NothingElse DEF InHand, Enqueued
  <2> QED
    BY <1>1, <1>2, <1>3, <2>1 DEF ParamInvariant, OneOwner
<1> QED
  BY <1>4, <1>5, <1>6, <1>7 DEF ParamInvariant
--------------------------------------------------------------------------------
(* The theorems *)

LEMMA ParamInitially == ParamInit => ParamInvariant
<1> SUFFICES ASSUME ParamInit PROVE ParamInvariant
  OBVIOUS
<1>1. \A i : i \notin InQueue
  BY ParamAssumption, SMT DEF ParamInit, InQueue, Place
<1>2. ParamTypeOK
  <2>1. 0 \in Place /\ 0 \in 0..Len(EventClauses)
    BY ParamAssumption, WhatIsAsked DEF Place
  <2>2. heap \in [Block -> Param \cup {None}] /\ raising \in [Producer -> Block \cup {None}]
    BY DEF ParamInit
  <2>3. names \in [Place -> Event \cup {Plain, None}] /\ sent \in [Place -> Param \cup {None}]
    BY DEF ParamInit
  <2>4. params \in [Place -> IF dynamic THEN Block \cup {None} ELSE Param \cup {Garbage}]
    BY DEF ParamInit
  <2> QED
    BY <2>1, <2>2, <2>3, <2>4 DEF ParamInit, ParamTypeOK, Walk
<1>3. StaticHasNoBlock /\ Busy /\ ReadsOwn
  BY DEF ParamInit, StaticHasNoBlock, Busy, ReadsOwn, AwaitedFits
<1>4. WidthsKept
  BY SMT DEF ParamInit, WidthsKept
<1>5. OneOwner
  BY <1>1, NothingElse DEF ParamInit, OneOwner, InHand, Enqueued
<1> QED
  BY <1>1, <1>2, <1>3, <1>4, <1>5 DEF ParamInvariant, EntriesHold

LEMMA ParamPreserved == ParamInvariant /\ [ParamNext]_paramVars => ParamInvariant'
<1> SUFFICES ASSUME ParamInvariant, [ParamNext]_paramVars PROVE ParamInvariant'
  OBVIOUS
<1>1. ASSUME NEW p \in Producer, Raise(p), UNCHANGED dynamic PROVE ParamInvariant'
  BY <1>1, RaiseStaticKeeps, RaiseDynamicKeeps, QueueDynamicKeeps, RaisePlainKeeps DEF Raise
<1>2. ASSUME Creation, UNCHANGED dynamic PROVE ParamInvariant'
  BY <1>2, CreationKeeps
<1>3. ASSUME Machine, UNCHANGED dynamic PROVE ParamInvariant'
  BY <1>3, WalksKeep, EventDoneKeeps, DestroyKeeps DEF Machine
<1>4. ASSUME UNCHANGED paramVars PROVE ParamInvariant'
  BY <1>4, QueueWaitsKeeps DEF paramVars, creation, queue, ParamInvariant, ParamTypeOK,
       WidthsKept, Busy, ReadsOwn, AwaitedFits
<1> QED
  BY <1>1, <1>2, <1>3, <1>4 DEF ParamNext, Gone

\* The invariant that the theorems below follow from (vivid_queue_event, vivid_queue.c).
THEOREM ParamInvariantHolds == ParamSpec => []ParamInvariant
BY ParamInitially, ParamPreserved, PTL DEF ParamSpec

\* A clause is given the parameter its own event was raised with, also in the jumps
\* that follow it, for any number of threads, blocks and places; and whatever a
\* VIVID_ON_EVENT_PARAM clause awaits fits into its place (vivid_queue_push,
\* vivid_on_event, vivid_jump).
THEOREM EveryClauseReadsItsOwn == ParamSpec => []ReadsOwn
<1>1. ParamInvariant => ReadsOwn
  BY DEF ParamInvariant
<1> QED
  BY <1>1, ParamInvariantHolds, PTL

\* Every block that is in use belongs to one thread, to one event in the queue, or was
\* given up with an event that was not queued (vivid_queue_pop frees it exactly once).
THEOREM EveryBlockHasOneOwner == ParamSpec => []HasOwner
<1>1. ParamInvariant => HasOwner
  <2> SUFFICES ASSUME ParamInvariant PROVE HasOwner
    OBVIOUS
  <2>1. \A b \in Block : b \in Queued <=> Enqueued(b)
    BY DEF Queued, Enqueued
  <2>2. Queued \subseteq Block /\ leaked \subseteq Block
    BY DEF Queued, ParamInvariant, ParamTypeOK
  <2>3. PICK inHand \in SUBSET Block : inHand = {raising[p] : p \in Producer} \ {None}
    BY DEF ParamInvariant, ParamTypeOK
  <2>4. \A b \in Block : b \in inHand <=> InHand(b)
    BY <2>3, NothingElse DEF InHand
  <2>5. {b \in Block : heap[b] # None} = inHand \cup Queued \cup leaked
    <3>1. \A b \in Block : heap[b] # None <=> b \in inHand \/ b \in Queued \/ b \in leaked
      BY <2>1, <2>4 DEF ParamInvariant, OneOwner
    <3> QED
      BY <2>2, <2>3, <3>1
  <2>6. inHand \cap Queued = {} /\ inHand \cap leaked = {} /\ Queued \cap leaked = {}
    BY <2>1, <2>2, <2>4 DEF ParamInvariant, OneOwner
  <2> QED
    BY <2>3, <2>5, <2>6 DEF HasOwner, ParamInvariant, OneOwner
<1> QED
  BY <1>1, ParamInvariantHolds, PTL
--------------------------------------------------------------------------------
(* The map (VividMap) *)

LinksOK ==
    /\ entries \subseteq Key /\ top \in Key \cup {NULL}
    /\ up \in [Key -> Key \cup {NULL}]
    /\ down \in [Key -> [Dir -> Key \cup {NULL}]]
    /\ color \in [Key -> {"red", "black"}]
    /\ \A k \in Key \ entries : color[k] = "red" /\ \A d \in Dir : down[k][d] = NULL

(***************************************************************************)
(* Which keys the search comes by a node with, whether they are there or   *)
(* not: reach.  All of them come by the top; behind a node they part.      *)
(***************************************************************************)
Behind(reach, n, d) == {k \in reach[n] : k # n /\ Side(n, k) = d}

TopReached(reach) ==
    /\ top = NULL <=> entries = {}
    /\ top # NULL => top \in entries /\ up[top] = NULL /\ reach[top] = Key
EachReached(reach) == \A n \in entries : n \in reach[n]
ChildrenReached(reach) ==
    \A n \in entries, d \in Dir : down[n][d] # NULL =>
        /\ down[n][d] \in entries /\ up[down[n][d]] = n
        /\ reach[down[n][d]] = Behind(reach, n, d)
ParentsLink ==
    \A n \in entries \ {top} :
        up[n] \in entries /\ n # up[n] /\ down[up[n]][Side(up[n], n)] = n
\* Who is reached by way of a node is so through one child of it.
ReachedBelow(reach) ==
    \A a, b \in entries : a # b /\ b \in reach[a] =>
        down[a][Side(a, b)] # NULL /\ reach[b] \subseteq Behind(reach, a, Side(a, b))
Comparable(reach) ==
    \A a, b \in entries : reach[a] \cap reach[b] # {} => a \in reach[b] \/ b \in reach[a]

Tree(reach) ==
    /\ TopReached(reach) /\ EachReached(reach) /\ ChildrenReached(reach) /\ ParentsLink
    /\ ReachedBelow(reach) /\ Comparable(reach)
--------------------------------------------------------------------------------
LEMMA SideKnown ==
    ASSUME NEW n \in Key, NEW k \in Key
    PROVE  /\ Side(n, k) \in Dir
           /\ n # k => Side(k, n) = 1 - Side(n, k)
           /\ \A d \in Dir : 1 - d \in Dir /\ 1 - d # d /\ 1 - (1 - d) = d
  BY MapAssumption DEF Side, Dir

\* The child on whose side is found by looking at the parent's left child.
LEMMA SideOfIs ==
    ASSUME LinksOK, NEW reach \in [Key -> SUBSET Key], Tree(reach), NEW n \in entries \ {top}
    PROVE  SideOf(n) = Side(up[n], n)
<1>1. up[n] \in entries /\ n # up[n] /\ down[up[n]][Side(up[n], n)] = n
  BY DEF Tree, ParentsLink
<1>2. n \in Key /\ up[n] \in Key /\ n # NULL
  BY <1>1, MapAssumption DEF LinksOK
<1>3. Side(up[n], n) \in {0, 1}
  BY <1>2, SideKnown DEF Dir
<1>4. down[up[n]][0] = n => Side(up[n], n) = 0
  <2> SUFFICES ASSUME down[up[n]][0] = n
               PROVE  Side(up[n], n) = 0
    OBVIOUS
  <2>1. reach[n] = Behind(reach, up[n], 0)
    BY <1>1, <1>2 DEF Tree, ChildrenReached, Dir
  <2>2. n \in reach[n]
    BY DEF Tree, EachReached
  <2> QED
    BY <2>1, <2>2 DEF Behind
<1> QED
  BY <1>1, <1>3, <1>4 DEF SideOf
--------------------------------------------------------------------------------
(* The search *)

DoingOK ==
    /\ phase \in {"rest", "search", "fix", "turned", "iterate"}
    /\ doing = Idle <=> phase = "rest"
    /\ phase = "rest" => at = NULL /\ above = NULL /\ frames = <<>> /\ visited = <<>>
    /\ phase \in {"search", "fix", "turned"} => doing \in [op : {"set", "get"}, key : Key]

\* The search has not gone by its key.
SearchOn(reach) ==
    phase = "search" =>
        /\ above = NULL => at = top
        /\ at # NULL => at \in entries /\ doing.key \in reach[at]
        /\ above # NULL =>
              /\ above \in entries \ {doing.key} /\ doing.key \in reach[above]
              /\ at = down[above][Side(above, doing.key)]

\* When the search comes to no node, the key has none.
LEMMA SearchMisses ==
    ASSUME LinksOK, DoingOK, NEW reach \in [Key -> SUBSET Key], Tree(reach), SearchOn(reach),
           phase = "search", at = NULL
    PROVE  doing.key \in Key \ entries
<1>1. doing.key \in Key
  BY DEF DoingOK
<1>2. CASE above = NULL
  BY <1>1, <1>2 DEF SearchOn, Tree, TopReached
<1>3. CASE above # NULL
  BY <1>1, <1>3 DEF SearchOn, Tree, ReachedBelow
<1> QED
  BY <1>2, <1>3

\* The new node comes to where the search ended.
LEMMA InsertKeeps ==
    ASSUME LinksOK, DoingOK, NEW reach \in [Key -> SUBSET Key], Tree(reach), SearchOn(reach), Insert
    PROVE  LinksOK' /\ \E r \in [Key -> SUBSET Key] : Tree(r)'
<1> DEFINE k == doing.key
           s == Side(above, k)
           new == IF above = NULL THEN Key ELSE Behind(reach, above, s)
<1>1. k \in Key \ entries /\ k # NULL /\ at = NULL /\ phase = "search"
  BY SearchMisses, MapAssumption DEF Insert
<1>2. above # NULL => /\ above \in entries /\ above \in Key /\ above # k /\ k \in reach[above]
                      /\ s \in Dir /\ down[above][s] = NULL /\ reach[above] \in SUBSET Key
  BY <1>1, SideKnown DEF SearchOn, LinksOK
<1>3. above = NULL <=> entries = {}
  BY <1>1, <1>2 DEF SearchOn, Tree, TopReached
<1>4. k \in new /\ new \in SUBSET Key
  BY <1>1, <1>2 DEF Behind
<1> PICK r \in [Key -> SUBSET Key] : r = [reach EXCEPT ![k] = new]
  BY <1>1, <1>4
<1>5. /\ r[k] = new
      /\ \A n \in entries : n # k /\ n \in Key /\ n # NULL /\ r[n] = reach[n] /\ r[n] \in SUBSET Key
  BY <1>1, <1>4, MapAssumption DEF LinksOK
<1>6. /\ up'[k] = above /\ \A n \in entries : up'[n] = up[n]
      /\ up' \in [Key -> Key \cup {NULL}]
  BY <1>1, <1>2, <1>5 DEF Insert, LinksOK
<1>7. /\ down' \in [Key -> [Dir -> Key \cup {NULL}]]
      /\ above # NULL => down'[above][s] = k
      /\ \A n \in Key, d \in Dir : ~(n = above /\ d = s) => down'[n][d] = down[n][d]
  <2>1. CASE above = NULL
    BY <2>1, <1>5, MapAssumption DEF Insert, LinksOK
  <2>2. CASE above # NULL
    BY <2>2, <1>1, <1>2 DEF Insert, LinksOK
  <2> QED
    BY <2>1, <2>2
<1>8. \A d \in Dir : down'[k][d] = NULL
  BY <1>1, <1>2, <1>7 DEF LinksOK
<1>9. entries' = entries \cup {k} /\ top' = (IF above = NULL THEN k ELSE top) /\ color' = color
  BY DEF Insert
<1> HIDE DEF k, s, new
<1>10. LinksOK'
  <2>1. top' \in Key \cup {NULL} /\ entries' \subseteq Key
    BY <1>1, <1>9 DEF LinksOK
  <2>2. ASSUME NEW m \in Key \ entries', NEW d \in Dir PROVE down'[m][d] = NULL
    <3>1. m \in Key \ entries /\ m # above
      BY <1>2, <1>9, MapAssumption
    <3> QED
      BY <3>1, <1>7 DEF LinksOK
  <2> QED
    BY <2>1, <2>2, <1>6, <1>7, <1>9 DEF LinksOK
<1>11. TopReached(r)'
  <2>1. CASE above = NULL
    BY <2>1, <1>1, <1>3, <1>5, <1>6, <1>9, MapAssumption DEF TopReached, new
  <2>2. CASE above # NULL
    BY <2>2, <1>3, <1>5, <1>6, <1>9 DEF TopReached, Tree
  <2> QED
    BY <2>1, <2>2
<1>12. EachReached(r)'
  BY <1>4, <1>5, <1>9 DEF EachReached, Tree
<1>13. \A n \in entries, d \in Dir : Behind(r, n, d) = Behind(reach, n, d)
  BY <1>5 DEF Behind
<1>14. ChildrenReached(r)'
  <2> SUFFICES ASSUME NEW n \in entries', NEW d \in Dir, down'[n][d] # NULL
               PROVE  /\ down'[n][d] \in entries' /\ up'[down'[n][d]] = n
                      /\ r[down'[n][d]] = Behind(r, n, d)
    BY DEF ChildrenReached, Behind, Side
  <2>1. n # k
    BY <1>8
  <2>2. CASE n = above /\ d = s
    <3>1. n \in entries /\ above # NULL
      BY <2>1, <2>2, <1>5, <1>9
    <3>2. down'[n][d] = k /\ k \in entries' /\ up'[k] = n
      BY <3>1, <2>2, <1>6, <1>7, <1>9
    <3>3. r[k] = Behind(reach, n, d)
      BY <3>1, <2>2, <1>5 DEF new
    <3> QED
      BY <3>1, <3>2, <3>3, <1>13
  <2>3. CASE ~(n = above /\ d = s)
    <3>1. n \in entries /\ down'[n][d] = down[n][d]
      BY <2>1, <2>3, <1>5, <1>7, <1>9
    <3>2. /\ down[n][d] \in entries /\ up[down[n][d]] = n
          /\ reach[down[n][d]] = Behind(reach, n, d)
      BY <3>1 DEF Tree, ChildrenReached
    <3> QED
      BY <3>1, <3>2, <1>5, <1>6, <1>9, <1>13
  <2> QED
    BY <2>2, <2>3
<1>15. ParentsLink'
  <2> SUFFICES ASSUME NEW n \in entries' \ {top'}
               PROVE  up'[n] \in entries' /\ n # up'[n] /\ down'[up'[n]][Side(up'[n], n)] = n
    BY DEF ParentsLink, Side
  <2>1. CASE n = k
    BY <2>1, <1>2, <1>6, <1>7, <1>9 DEF s
  <2>2. CASE n # k
    <3>1. n \in entries /\ n # top /\ above # NULL
      BY <2>2, <1>3, <1>9
    <3>2. up'[n] = up[n] /\ up[n] \in entries /\ n # up[n] /\ down[up[n]][Side(up[n], n)] = n
      BY <3>1, <1>6 DEF Tree, ParentsLink
    <3>3. Side(up[n], n) \in Dir /\ up[n] \in Key /\ n # NULL
      BY <3>1, <3>2, <1>5, SideKnown
    <3>4. ~(up[n] = above /\ Side(up[n], n) = s)
      BY <3>1, <3>2, <3>3, <1>2
    <3> QED
      BY <3>2, <3>3, <3>4, <1>7, <1>9
  <2> QED
    BY <2>1, <2>2
<1>16. ~\E b \in entries : b \in new
  <2> SUFFICES ASSUME NEW b \in entries, b \in new
               PROVE  FALSE
    OBVIOUS
  <2>1. above # NULL
    BY <1>3
  <2>2. b \in reach[above] /\ b # above /\ Side(above, b) = s
    BY <2>1 DEF new, Behind
  <2> QED
    BY <2>1, <2>2, <1>2 DEF Tree, ReachedBelow
<1>17. \A a \in entries : k \in reach[a] /\ a # above =>
          above # NULL /\ above \in reach[a] /\ Side(a, k) = Side(a, above)
              /\ reach[above] \subseteq Behind(reach, a, Side(a, k)) /\ down[a][Side(a, k)] # NULL
  <2> SUFFICES ASSUME NEW a \in entries, k \in reach[a], a # above
               PROVE  above # NULL /\ above \in reach[a] /\ Side(a, k) = Side(a, above)
                        /\ reach[above] \subseteq Behind(reach, a, Side(a, k))
                        /\ down[a][Side(a, k)] # NULL
    OBVIOUS
  <2>1. above # NULL
    BY <1>3
  <2>2. above \in reach[a] \/ a \in reach[above]
    BY <2>1, <1>2 DEF Tree, Comparable
  <2>3. ASSUME a \in reach[above] PROVE FALSE
    <3>1. down[above][Side(above, a)] # NULL /\ reach[a] \subseteq Behind(reach, above, Side(above, a))
      BY <2>1, <2>3, <1>2 DEF Tree, ReachedBelow
    <3>2. Side(above, a) = s
      BY <3>1 DEF Behind, s
    <3> QED
      BY <3>1, <3>2, <2>1, <1>2
  <2>4. above \in reach[a]
    BY <2>2, <2>3
  <2>5. down[a][Side(a, above)] # NULL /\ reach[above] \subseteq Behind(reach, a, Side(a, above))
    BY <2>1, <2>4, <1>2 DEF Tree, ReachedBelow
  <2>6. Side(a, k) = Side(a, above)
    BY <2>1, <2>5, <1>2 DEF Behind
  <2> QED
    BY <2>1, <2>4, <2>5, <2>6
<1>18. ReachedBelow(r)'
  <2> SUFFICES ASSUME NEW a \in entries', NEW b \in entries', a # b, b \in r[a]
               PROVE  down'[a][Side(a, b)] # NULL /\ r[b] \subseteq Behind(r, a, Side(a, b))
    BY DEF ReachedBelow, Behind, Side
  <2>1. a # k
    BY <1>5, <1>9, <1>16
  <2>2. a \in entries /\ a \in Key /\ a # NULL
    BY <2>1, <1>5, <1>9
  <2>3. CASE b = k
    <3>1. CASE a = above
      <4>1. down'[a][s] = k /\ k # NULL /\ Side(a, b) = s
        BY <2>2, <2>3, <3>1, <1>7, <1>1, MapAssumption DEF s
      <4>2. r[b] = Behind(r, a, s)
        BY <2>2, <2>3, <3>1, <4>1, <1>2, <1>5, <1>13 DEF new
      <4> QED
        BY <4>1, <4>2
    <3>2. CASE a # above
      <4>1. /\ above # NULL /\ down[a][Side(a, k)] # NULL
            /\ reach[above] \subseteq Behind(reach, a, Side(a, k))
        BY <2>2, <2>3, <3>2, <1>5, <1>17
      <4>2. Side(a, k) \in Dir
        BY <2>2, <1>1, SideKnown
      <4>3. new \subseteq reach[above]
        BY <4>1 DEF new, Behind
      <4> QED
        BY <4>1, <4>2, <4>3, <3>2, <2>3, <2>2, <1>5, <1>7, <1>13
    <3> QED
      BY <3>1, <3>2
  <2>4. CASE b # k
    <3>1. b \in entries /\ b \in Key /\ b \in reach[a] /\ Side(a, b) \in Dir
      BY <2>2, <2>4, <1>5, <1>9, SideKnown
    <3>2. down[a][Side(a, b)] # NULL /\ reach[b] \subseteq Behind(reach, a, Side(a, b))
      BY <3>1, <2>2 DEF Tree, ReachedBelow
    <3>3. down'[a][Side(a, b)] # NULL
      BY <3>1, <3>2, <2>2, <1>2, <1>7
    <3> QED
      BY <3>1, <3>2, <3>3, <2>2, <1>5, <1>13
  <2> QED
    BY <2>3, <2>4
<1>19. ASSUME NEW b \in entries, new \cap reach[b] # {}
       PROVE  k \in reach[b]
  <2>1. CASE above = NULL
    BY <2>1, <1>3
  <2>2. CASE b = above
    BY <2>2, <1>2, <1>5
  <2>3. CASE above # NULL /\ b # above
    <3>1. PICK j \in new \cap reach[b] : TRUE
      BY <1>19
    <3>2. j \in reach[above] /\ Side(above, j) = s
      BY <2>3, <3>1 DEF new, Behind
    <3>3. above \in reach[b] \/ b \in reach[above]
      BY <2>3, <3>1, <3>2, <1>2 DEF Tree, Comparable
    <3>4. ASSUME b \in reach[above] PROVE FALSE
      <4>1. /\ down[above][Side(above, b)] # NULL
            /\ reach[b] \subseteq Behind(reach, above, Side(above, b))
        BY <2>3, <3>4, <1>2 DEF Tree, ReachedBelow
      <4>2. Side(above, b) = s
        BY <4>1, <3>1, <3>2 DEF Behind
      <4> QED
        BY <4>1, <4>2, <2>3, <1>2
    <3>5. reach[above] \subseteq reach[b]
      BY <3>3, <3>4, <2>3, <1>2 DEF Tree, ReachedBelow, Behind
    <3> QED
      BY <3>5, <2>3, <1>2
  <2> QED
    BY <2>1, <2>2, <2>3
<1>20. Comparable(r)'
  <2> SUFFICES ASSUME NEW a \in entries', NEW b \in entries', r[a] \cap r[b] # {}
               PROVE  a \in r[b] \/ b \in r[a]
    BY DEF Comparable
  <2>1. CASE a = k /\ b = k
    BY <2>1, <1>4, <1>5
  <2>2. CASE a = k /\ b # k
    BY <2>2, <1>5, <1>9, <1>19
  <2>3. CASE a # k /\ b = k
    BY <2>3, <1>5, <1>9, <1>19
  <2>4. CASE a # k /\ b # k
    BY <2>4, <1>5, <1>9 DEF Tree, Comparable
  <2> QED
    BY <2>1, <2>2, <2>3, <2>4
<1> QED
  BY <1>4, <1>10, <1>11, <1>12, <1>14, <1>15, <1>18, <1>20 DEF Tree
--------------------------------------------------------------------------------
(* The rotation *)

\* A node n, its child x that takes its place, the child of x that comes to n, and the
\* parent of n
IsTurn(n, d, x, inner, p) ==
    /\ n \in entries /\ d \in Dir
    /\ x = down[n][1 - d] /\ x # NULL /\ inner = down[x][d] /\ p = up[n]

LEMMA TurnBefore ==
    ASSUME LinksOK, NEW reach \in [Key -> SUBSET Key], Tree(reach),
           NEW n, NEW d, NEW x, NEW inner, NEW p, IsTurn(n, d, x, inner, p)
    PROVE  /\ n \in Key /\ n # NULL /\ 1 - d \in Dir /\ 1 - d # d /\ 1 - (1 - d) = d
           /\ n \in reach[n] /\ reach[n] \in SUBSET Key
           /\ x \in entries /\ x \in Key /\ x # NULL /\ up[x] = n /\ x \in reach[x]
           /\ reach[x] = Behind(reach, n, 1 - d)
           /\ x # n /\ x \in reach[n] /\ Side(n, x) = 1 - d /\ Side(x, n) = d
           /\ inner # NULL => /\ inner \in entries /\ inner \in Key /\ up[inner] = x
                              /\ inner \in reach[x] /\ inner # x /\ inner # n
                              /\ reach[inner] = Behind(reach, x, d)
           /\ n # top => /\ p \in entries /\ p \in Key /\ p # NULL /\ p # n /\ p # x
                         /\ down[p][SideOf(n)] = n
                         /\ SideOf(n) \in Dir /\ 1 - SideOf(n) # SideOf(n)
                         /\ SideOf(n) = Side(p, n) /\ reach[n] = Behind(reach, p, SideOf(n))
           /\ n = top <=> p = NULL
<1> USE DEF IsTurn
<1>1. /\ n \in Key /\ n # NULL /\ 1 - d \in Dir /\ 1 - d # d /\ 1 - (1 - d) = d
      /\ n \in reach[n] /\ reach[n] \in SUBSET Key
  BY SideKnown, MapAssumption DEF LinksOK, Tree, EachReached
<1>2. /\ x \in entries /\ x \in Key /\ x # NULL /\ up[x] = n /\ x \in reach[x]
      /\ reach[x] = Behind(reach, n, 1 - d)
  BY <1>1, MapAssumption DEF Tree, ChildrenReached, EachReached, LinksOK
<1>3. x # n /\ x \in reach[n] /\ Side(n, x) = 1 - d /\ Side(x, n) = d
  BY <1>1, <1>2, SideKnown DEF Behind
<1>4. inner # NULL => /\ inner \in entries /\ inner \in Key /\ up[inner] = x
                      /\ inner \in reach[x] /\ inner # x /\ inner # n
                      /\ reach[inner] = Behind(reach, x, d)
  <2> SUFFICES ASSUME inner # NULL
               PROVE  /\ inner \in entries /\ inner \in Key /\ up[inner] = x
                      /\ inner \in reach[x] /\ inner # x /\ inner # n
                      /\ reach[inner] = Behind(reach, x, d)
    OBVIOUS
  <2>1. inner \in entries /\ up[inner] = x /\ reach[inner] = Behind(reach, x, d)
    BY <1>2 DEF Tree, ChildrenReached
  <2>2. inner \in reach[inner]
    BY <2>1 DEF Tree, EachReached
  <2> QED
    BY <2>1, <2>2, <1>2 DEF Behind, LinksOK
<1>5. n # top => /\ p \in entries /\ p \in Key /\ p # NULL /\ p # n /\ p # x
                 /\ down[p][SideOf(n)] = n /\ SideOf(n) \in Dir /\ 1 - SideOf(n) # SideOf(n)
                 /\ SideOf(n) = Side(p, n) /\ reach[n] = Behind(reach, p, SideOf(n))
  <2> SUFFICES ASSUME n # top
               PROVE  /\ p \in entries /\ p \in Key /\ p # NULL /\ p # n /\ p # x
                      /\ down[p][SideOf(n)] = n /\ SideOf(n) \in Dir /\ 1 - SideOf(n) # SideOf(n)
                      /\ SideOf(n) = Side(p, n) /\ reach[n] = Behind(reach, p, SideOf(n))
    OBVIOUS
  <2>1. p \in entries /\ p # n /\ down[p][Side(p, n)] = n /\ p \in Key /\ p # NULL
    BY MapAssumption DEF Tree, ParentsLink, LinksOK
  <2>2. SideOf(n) = Side(p, n) /\ Side(p, n) \in Dir /\ 1 - Side(p, n) # Side(p, n)
    BY <2>1, <1>1, SideOfIs, SideKnown
  <2>3. reach[n] = Behind(reach, p, Side(p, n))
    BY <2>1, <2>2, <1>1 DEF Tree, ChildrenReached
  <2>4. p # x
    BY <2>3, <1>3 DEF Behind
  <2> QED
    BY <2>1, <2>2, <2>3, <2>4
<1>6. n = top <=> p = NULL
  BY <1>1, <1>5 DEF Tree, TopReached
<1> QED
  BY <1>1, <1>2, <1>3, <1>4, <1>5, <1>6

\* The links afterwards
LEMMA TurnAfter ==
    ASSUME LinksOK, NEW reach \in [Key -> SUBSET Key], Tree(reach),
           NEW n, NEW d, NEW x, NEW inner, NEW p, IsTurn(n, d, x, inner, p), Rotate(n, d)
    PROVE  /\ down'[n][1 - d] = inner /\ down'[n][d] = down[n][d]
           /\ down'[x][d] = n /\ down'[x][1 - d] = down[x][1 - d]
           /\ n # top => /\ down'[p][SideOf(n)] = x
                         /\ \A e \in Dir : e # SideOf(n) => down'[p][e] = down[p][e]
           /\ \A m \in Key : m # n /\ m # x /\ m # p => \A e \in Dir : down'[m][e] = down[m][e]
           /\ up'[n] = x /\ up'[x] = p /\ (inner # NULL => up'[inner] = n)
           /\ \A m \in Key : m # n /\ m # x /\ m # inner => up'[m] = up[m]
           /\ top' = (IF n = top THEN x ELSE top)
<1>1. /\ n \in Key /\ n # NULL /\ 1 - d \in Dir /\ 1 - d # d /\ 1 - (1 - d) = d
      /\ d \in Dir /\ x = down[n][1 - d] /\ inner = down[x][d] /\ p = up[n]
  BY TurnBefore DEF IsTurn
<1>2. x \in Key /\ x # NULL /\ x # n /\ up[x] = n
  BY TurnBefore
<1>4. inner # NULL => inner \in Key /\ inner # x /\ inner # n
  BY TurnBefore
<1>5. n # top => /\ p \in Key /\ p # NULL /\ p # n /\ p # x
                 /\ SideOf(n) \in Dir /\ 1 - SideOf(n) # SideOf(n)
  BY TurnBefore
<1>6. n = top <=> p = NULL
  BY TurnBefore
<1>8. /\ down'[n][1 - d] = inner /\ down'[n][d] = down[n][d]
      /\ down'[x][d] = n /\ down'[x][1 - d] = down[x][1 - d]
  BY <1>1, <1>2, <1>5, <1>6 DEF Rotate
<1>9. n # top => /\ down'[p][SideOf(n)] = x
                 /\ \A e \in Dir : e # SideOf(n) => down'[p][e] = down[p][e]
  BY <1>1, <1>2, <1>5, <1>6 DEF Rotate
<1>10. \A m \in Key : m # n /\ m # x /\ m # p => \A e \in Dir : down'[m][e] = down[m][e]
  BY <1>1, <1>2, <1>5, <1>6 DEF Rotate
<1>11. /\ up'[n] = x /\ up'[x] = p /\ (inner # NULL => up'[inner] = n)
       /\ \A m \in Key : m # n /\ m # x /\ m # inner => up'[m] = up[m]
  BY <1>1, <1>2, <1>4 DEF Rotate
<1>12. top' = (IF n = top THEN x ELSE top)
  BY <1>1, <1>6 DEF Rotate
<1> QED
  BY <1>8, <1>9, <1>10, <1>11, <1>12

\* The child takes over what is reached by way of its parent, and the parent what
\* is on its side of the child.
LEMMA RotateKeeps ==
    ASSUME LinksOK, NEW reach \in [Key -> SUBSET Key], Tree(reach),
           NEW n \in entries, NEW d \in Dir, down[n][1 - d] # NULL,
           Rotate(n, d), entries' = entries, color' \in [Key -> {"red", "black"}],
           \A k \in Key \ entries : color'[k] = "red"
    PROVE  LinksOK' /\ \E r \in [Key -> SUBSET Key] : Tree(r)'
<1> PICK x : x = down[n][1 - d]
  OBVIOUS
<1> PICK inner : inner = down[x][d]
  OBVIOUS
<1> PICK p : p = up[n]
  OBVIOUS
<1>0. IsTurn(n, d, x, inner, p)
  BY DEF IsTurn
<1>1. /\ n \in Key /\ n # NULL /\ 1 - d \in Dir /\ 1 - d # d /\ 1 - (1 - d) = d
      /\ n \in reach[n] /\ reach[n] \in SUBSET Key
  BY <1>0, TurnBefore
<1>2. /\ x \in entries /\ x \in Key /\ x # NULL /\ up[x] = n /\ x \in reach[x]
      /\ reach[x] = Behind(reach, n, 1 - d)
  BY <1>0, TurnBefore
<1>3. x # n /\ x \in reach[n] /\ Side(n, x) = 1 - d /\ Side(x, n) = d
  BY <1>0, TurnBefore
<1>4. inner # NULL => /\ inner \in entries /\ inner \in Key /\ up[inner] = x
                      /\ inner \in reach[x] /\ inner # x /\ inner # n
                      /\ reach[inner] = Behind(reach, x, d)
  BY <1>0, TurnBefore
<1>5. n # top => /\ p \in entries /\ p \in Key /\ p # NULL /\ p # n /\ p # x
                 /\ down[p][SideOf(n)] = n /\ SideOf(n) \in Dir /\ 1 - SideOf(n) # SideOf(n)
                 /\ SideOf(n) = Side(p, n) /\ reach[n] = Behind(reach, p, SideOf(n))
  BY <1>0, TurnBefore
<1>6. n = top <=> p = NULL
  BY <1>0, TurnBefore
<1> PICK under : under = {k \in reach[n] : k # x /\ Side(x, k) = d}
  OBVIOUS
<1> PICK r \in [Key -> SUBSET Key] : r = [reach EXCEPT ![x] = reach[n], ![n] = under]
  BY <1>1
<1>7. /\ r[x] = reach[n] /\ r[n] = under
      /\ \A m \in Key : m # x /\ m # n => r[m] = reach[m]
  BY <1>1, <1>2, <1>3
<1>8. /\ down'[n][1 - d] = inner /\ down'[n][d] = down[n][d]
      /\ down'[x][d] = n /\ down'[x][1 - d] = down[x][1 - d]
  BY <1>0, TurnAfter
<1>9. n # top => /\ down'[p][SideOf(n)] = x
                 /\ \A e \in Dir : e # SideOf(n) => down'[p][e] = down[p][e]
  BY <1>0, TurnAfter
<1>10. \A m \in Key : m # n /\ m # x /\ m # p => \A e \in Dir : down'[m][e] = down[m][e]
  BY <1>0, TurnAfter
<1>11. /\ up'[n] = x /\ up'[x] = p /\ (inner # NULL => up'[inner] = n)
       /\ \A m \in Key : m # n /\ m # x /\ m # inner => up'[m] = up[m]
  BY <1>0, TurnAfter
<1>12. top' = (IF n = top THEN x ELSE top)
  BY <1>0, TurnAfter
<1>13. LinksOK'
  <2>1. up' \in [Key -> Key \cup {NULL}] /\ top' \in Key \cup {NULL}
    BY <1>1, <1>2 DEF Rotate, LinksOK
  <2>2. inner \in Key \cup {NULL}
    BY <1>2 DEF LinksOK
  <2>3. down' \in [Key -> [Dir -> Key \cup {NULL}]]
    BY <2>2, <1>1, <1>2 DEF Rotate, LinksOK
  <2>4. ASSUME NEW m \in Key \ entries, NEW e \in Dir PROVE down'[m][e] = NULL
    BY <1>2, <1>5, <1>6, <1>10, MapAssumption DEF LinksOK
  <2> QED
    BY <2>1, <2>3, <2>4 DEF LinksOK
\* What is reached by way of the two afterwards
<1>14. /\ n \in under /\ under \subseteq reach[n]
       /\ Behind(r, n, d) = Behind(reach, n, d) /\ Behind(r, n, 1 - d) = Behind(reach, x, d)
       /\ Behind(r, x, d) = under /\ Behind(r, x, 1 - d) = Behind(reach, x, 1 - d)
       /\ \A m \in Key : m # n /\ m # x => \A e \in Dir : Behind(r, m, e) = Behind(reach, m, e)
  <2>1. \A k \in reach[n] : k \in Int
    BY <1>1, MapAssumption
  <2>2. n \in Int /\ x \in Int
    BY <1>1, <1>2, MapAssumption
  <2>3. d = 0 \/ d = 1
    BY DEF Dir
  <2>4. \A k \in reach[n] : Side(x, k) = d /\ k # x => k \in under
    OBVIOUS
  <2>5. n \in under /\ under \subseteq reach[n]
    BY <1>1, <1>3
  <2>6. Behind(r, n, d) = Behind(reach, n, d)
    <3>1. \A k \in reach[n] : k # n /\ Side(n, k) = d => k # x /\ Side(x, k) = d
      BY <2>1, <2>2, <2>3, <1>3 DEF Side
    <3> QED
      BY <3>1, <1>7 DEF Behind
  <2>7. Behind(r, n, 1 - d) = Behind(reach, x, d)
    BY <1>1, <1>2, <1>7 DEF Behind
  <2>8. Behind(r, x, d) = under
    BY <1>7 DEF Behind
  <2>9. Behind(r, x, 1 - d) = Behind(reach, x, 1 - d)
    <3>1. \A k \in reach[n] : k # x /\ Side(x, k) = 1 - d => k # n /\ Side(n, k) = 1 - d
      BY <2>1, <2>2, <2>3, <1>3 DEF Side
    <3> QED
      BY <3>1, <1>2, <1>7 DEF Behind
  <2>10. \A m \in Key : m # n /\ m # x => \A e \in Dir : Behind(r, m, e) = Behind(reach, m, e)
    BY <1>7 DEF Behind
  <2> QED
    BY <2>5, <2>6, <2>7, <2>8, <2>9, <2>10
<1>15. \A m \in entries : m \in Key /\ m # NULL /\ m \in reach[m]
  BY MapAssumption DEF LinksOK, Tree, EachReached
<1>16. TopReached(r)'
  <2>1. CASE n = top
    <3>1. reach[n] = Key /\ p = NULL
      BY <2>1, <1>1, <1>6 DEF Tree, TopReached
    <3>2. top' = x
      BY <2>1, <1>12
    <3>3. up'[x] = NULL
      BY <3>1, <1>11
    <3>4. r[x] = Key
      BY <3>1, <1>7
    <3> QED
      BY <3>2, <3>3, <3>4, <1>2 DEF TopReached
  <2>2. CASE n # top
    <3>1. top # NULL /\ top # x /\ top # inner /\ top \in Key /\ top \in entries /\ up[top] = NULL
      BY <2>2, <1>1, <1>2, <1>4, <1>15 DEF Tree, TopReached
    <3> QED
      BY <3>1, <2>2, <1>7, <1>11, <1>12 DEF Tree, TopReached
  <2> QED
    BY <2>1, <2>2
<1>17. EachReached(r)'
  BY <1>1, <1>3, <1>7, <1>14, <1>15 DEF EachReached
<1>18. ChildrenReached(r)'
  <2> SUFFICES ASSUME NEW m \in entries', NEW e \in Dir, down'[m][e] # NULL
               PROVE  /\ down'[m][e] \in entries' /\ up'[down'[m][e]] = m
                      /\ r[down'[m][e]] = Behind(r, m, e)
    BY DEF ChildrenReached, Behind, Side
  <2>1. m \in Key /\ (e = d \/ e = 1 - d)
    BY <1>15 DEF Dir
  \* A link that is as it was, to a node that was not turned
  <2>2. ASSUME down'[m][e] = down[m][e], Behind(r, m, e) = Behind(reach, m, e), down[m][e] \notin {n, x, inner}
        PROVE  /\ down'[m][e] \in entries /\ up'[down'[m][e]] = m
               /\ r[down'[m][e]] = Behind(r, m, e)
    <3>1. /\ down[m][e] \in entries /\ up[down[m][e]] = m
          /\ reach[down[m][e]] = Behind(reach, m, e)
      BY <2>2 DEF Tree, ChildrenReached
    <3> QED
      BY <3>1, <2>2, <1>7, <1>11, <1>15
  <2>3. ASSUME down[m][e] # NULL
        PROVE  up[down[m][e]] = m /\ Side(m, down[m][e]) = e
    BY <2>3, <1>15 DEF Tree, ChildrenReached, Behind
  <2>4. CASE m = n /\ e = d
    <3>1. down'[m][e] = down[m][e] /\ Behind(r, m, e) = Behind(reach, m, e)
      BY <2>4, <1>8, <1>14
    <3>2. down[m][e] # n /\ down[m][e] # inner
      BY <3>1, <2>3, <2>4, <1>3, <1>4, <1>5, <1>6
    <3>3. down[m][e] # x
      BY <3>1, <2>3, <2>4, <1>1, <1>3
    <3> QED
      BY <3>1, <3>2, <3>3, <2>2
  <2>5. CASE m = n /\ e = 1 - d
    <3>1. down'[m][e] = inner /\ inner # NULL /\ r[inner] = reach[inner]
      BY <2>5, <1>4, <1>7, <1>8
    <3> QED
      BY <3>1, <2>5, <1>4, <1>11, <1>14
  <2>6. CASE m = x /\ e = d
    BY <2>6, <1>7, <1>8, <1>11, <1>14
  <2>7. CASE m = x /\ e = 1 - d
    <3>1. down'[m][e] = down[m][e] /\ Behind(r, m, e) = Behind(reach, m, e)
      BY <2>7, <1>8, <1>14
    <3>2. down[m][e] # n /\ down[m][e] # x
      BY <3>1, <2>3, <2>7, <1>2, <1>3, <1>5, <1>6
    <3>3. down[m][e] # inner
      BY <3>1, <2>3, <2>7, <1>1, <1>4, <1>15 DEF Behind
    <3> QED
      BY <3>1, <3>2, <3>3, <2>2
  <2>8. CASE m # n /\ m # x /\ m = p
    <3>1. n # top
      BY <2>1, <2>8, <1>6, MapAssumption
    <3>2. CASE e = SideOf(n)
      <4>1. down'[m][e] = x /\ up'[x] = m /\ r[x] = reach[n]
        BY <3>1, <3>2, <2>8, <1>7, <1>9, <1>11
      <4>2. Behind(r, m, e) = reach[n]
        BY <3>1, <3>2, <2>1, <2>8, <1>5, <1>14
      <4> QED
        BY <4>1, <4>2, <1>2
    <3>3. CASE e # SideOf(n)
      <4>1. down'[m][e] = down[m][e] /\ Behind(r, m, e) = Behind(reach, m, e)
        BY <3>1, <3>3, <2>1, <2>8, <1>7, <1>9 DEF Behind
      <4>2. down[m][e] # n /\ down[m][e] # x /\ down[m][e] # inner
        BY <3>1, <3>3, <4>1, <2>3, <2>8, <1>2, <1>4, <1>5
      <4> QED
        BY <4>1, <4>2, <2>2
    <3> QED
      BY <3>2, <3>3
  <2>9. CASE m # n /\ m # x /\ m # p
    <3>1. down'[m][e] = down[m][e] /\ Behind(r, m, e) = Behind(reach, m, e)
      BY <2>1, <2>9, <1>7, <1>10 DEF Behind
    <3>2. down[m][e] # n /\ down[m][e] # x /\ down[m][e] # inner
      BY <3>1, <2>3, <2>9, <1>2, <1>4
    <3> QED
      BY <3>1, <3>2, <2>2
  <2> QED
    BY <2>1, <2>4, <2>5, <2>6, <2>7, <2>8, <2>9
<1>19. ParentsLink'
  <2> SUFFICES ASSUME NEW m \in entries' \ {top'}
               PROVE  up'[m] \in entries' /\ m # up'[m] /\ down'[up'[m]][Side(up'[m], m)] = m
    BY DEF ParentsLink, Side
  <2>1. m \in entries /\ m \in Key /\ m # NULL
    BY <1>15
  <2>2. CASE m = n
    BY <2>2, <1>2, <1>3, <1>8, <1>11
  <2>3. CASE m = x
    <3>1. n # top
      BY <2>3, <1>12
    <3>2. Side(p, x) = SideOf(n)
      BY <3>1, <1>3, <1>5 DEF Behind
    <3> QED
      BY <3>1, <3>2, <2>3, <1>5, <1>9, <1>11
  <2>4. CASE m = inner
    <3>1. inner \in reach[n] /\ Side(n, inner) = 1 - d
      BY <2>1, <2>4, <1>2, <1>4 DEF Behind
    <3> QED
      BY <3>1, <2>1, <2>4, <1>4, <1>8, <1>11
  <2>5. CASE m # n /\ m # x /\ m # inner
    <3>1. m # top
      BY <2>5, <1>12
    <3>2. up'[m] = up[m]
      BY <2>1, <2>5, <1>11
    <3>3. /\ up[m] \in entries /\ up[m] \in Key /\ up[m] # NULL /\ m # up[m]
          /\ down[up[m]][Side(up[m], m)] = m /\ Side(up[m], m) \in Dir
      BY <3>1, <2>1, <1>15, SideKnown DEF Tree, ParentsLink
    <3>4. CASE up[m] = n
      <4>1. Side(n, m) # 1 - d
        BY <3>3, <3>4, <2>5
      <4>2. Side(n, m) = d
        BY <4>1, <3>3, <3>4 DEF Dir
      <4> QED
        BY <4>2, <3>2, <3>3, <3>4, <1>8
    <3>5. CASE up[m] = x
      <4>1. Side(x, m) # d
        BY <3>3, <3>5, <2>5
      <4>2. Side(x, m) = 1 - d
        BY <4>1, <3>3, <3>5 DEF Dir
      <4> QED
        BY <4>2, <3>2, <3>3, <3>5, <1>8
    <3>6. CASE up[m] # n /\ up[m] # x /\ up[m] = p
      <4>1. n # top
        BY <3>3, <3>6, <1>6
      <4>2. Side(p, m) # SideOf(n)
        BY <4>1, <3>3, <3>6, <2>5, <1>5
      <4> QED
        BY <4>1, <4>2, <3>2, <3>3, <3>6, <1>9
    <3>7. CASE up[m] # n /\ up[m] # x /\ up[m] # p
      BY <3>2, <3>3, <3>7, <1>10
    <3> QED
      BY <3>4, <3>5, <3>6, <3>7
  <2> QED
    BY <2>2, <2>3, <2>4, <2>5
\* What reached below meant before
<1>20. ASSUME NEW a \in entries, NEW b \in entries, a # b, b \in reach[a]
       PROVE  down[a][Side(a, b)] # NULL /\ reach[b] \subseteq Behind(reach, a, Side(a, b))
  BY <1>20 DEF Tree, ReachedBelow
<1>21. ASSUME NEW a \in entries, a # n, x \in reach[a], a # x
       PROVE  n \in reach[a] /\ Side(a, n) = Side(a, x)
                /\ reach[n] \subseteq Behind(reach, a, Side(a, x))
  <2>1. n \in reach[a] \/ a \in reach[n]
    BY <1>21, <1>3 DEF Tree, Comparable
  <2>2. ASSUME a \in reach[n] PROVE FALSE
    <3>1. reach[a] \subseteq Behind(reach, n, Side(n, a))
      BY <2>2, <1>20, <1>21
    <3>2. Side(n, a) = 1 - d
      BY <3>1, <1>3, <1>21 DEF Behind
    <3>3. a \in reach[x]
      BY <3>1, <3>2, <1>2, <1>15
    <3>4. reach[a] \subseteq Behind(reach, x, Side(x, a))
      BY <3>3, <1>2, <1>20, <1>21
    <3> QED
      BY <3>4, <1>21 DEF Behind
  <2>3. reach[n] \subseteq Behind(reach, a, Side(a, n))
    BY <2>1, <2>2, <1>20, <1>21
  <2> QED
    BY <2>1, <2>2, <2>3, <1>3 DEF Behind
<1>22. ReachedBelow(r)'
  <2> SUFFICES ASSUME NEW a \in entries', NEW b \in entries', a # b, b \in r[a]
               PROVE  down'[a][Side(a, b)] # NULL /\ r[b] \subseteq Behind(r, a, Side(a, b))
    BY DEF ReachedBelow, Behind, Side
  <2>1. a \in entries /\ b \in entries /\ a \in Key /\ b \in Key
    BY <1>15
  <2>2. Side(a, b) = d \/ Side(a, b) = 1 - d
    BY <2>1, SideKnown DEF Dir
  <2>3. b \in Behind(r, a, Side(a, b))
    BY DEF Behind
  <2>4. CASE a = n
    <3>1. b \in reach[n] /\ b # x /\ r[b] = reach[b]
      BY <2>1, <2>4, <1>7
    <3>2. CASE Side(a, b) = d
      <4>1. down[n][d] # NULL /\ reach[b] \subseteq Behind(reach, n, d)
        BY <3>1, <3>2, <2>1, <2>4, <1>20
      <4> QED
        BY <4>1, <3>1, <3>2, <2>4, <1>8, <1>14
    <3>3. CASE Side(a, b) = 1 - d
      <4>1. b \in reach[x] /\ Side(x, b) = d
        BY <2>3, <2>4, <3>3, <1>14 DEF Behind
      <4>2. down[x][d] # NULL /\ reach[b] \subseteq Behind(reach, x, d)
        BY <4>1, <3>1, <2>1, <1>2, <1>20
      <4> QED
        BY <4>2, <3>1, <3>3, <2>4, <1>8, <1>14
    <3> QED
      BY <3>2, <3>3, <2>2
  <2>5. CASE a = x /\ b = n
    BY <2>5, <1>1, <1>3, <1>7, <1>8, <1>14
  <2>6. CASE a = x /\ b # n
    <3>1. b \in reach[n] /\ r[b] = reach[b]
      BY <2>1, <2>6, <1>7
    <3>2. CASE Side(a, b) = 1 - d
      <4>1. b \in reach[x]
        BY <2>3, <2>6, <3>2, <1>14 DEF Behind
      <4>2. down[x][1 - d] # NULL /\ reach[b] \subseteq Behind(reach, x, 1 - d)
        BY <4>1, <3>2, <2>1, <2>6, <1>2, <1>20
      <4> QED
        BY <4>2, <3>1, <3>2, <2>6, <1>8, <1>14
    <3>3. CASE Side(a, b) = d
      <4>1. b \in under
        BY <2>3, <2>6, <3>3, <1>14
      <4>2. Side(n, b) = d \/ Side(n, b) = 1 - d
        BY <2>1, <1>1, SideKnown DEF Dir
      <4>3. b \in Behind(r, n, Side(n, b))
        BY <4>1, <2>6, <1>7 DEF Behind
      <4>4. reach[b] \subseteq Behind(r, n, Side(n, b))
        <5>1. CASE Side(n, b) = d
          BY <5>1, <3>1, <2>1, <2>6, <1>14, <1>20
        <5>2. CASE Side(n, b) = 1 - d
          <6>1. b \in reach[x] /\ Side(x, b) = d
            BY <4>3, <5>2, <1>14 DEF Behind
          <6>2. reach[b] \subseteq Behind(reach, x, d)
            BY <6>1, <2>1, <2>6, <1>2, <1>20
          <6> QED
            BY <6>2, <5>2, <1>14
        <5> QED
          BY <5>1, <5>2, <4>2
      <4>5. reach[b] \subseteq under
        BY <4>4, <1>7 DEF Behind
      <4> QED
        BY <4>5, <3>1, <3>3, <2>6, <1>1, <1>8, <1>14
    <3> QED
      BY <3>2, <3>3, <2>2
  <2>7. CASE a # n /\ a # x
    <3>1. b \in reach[a] /\ Behind(r, a, Side(a, b)) = Behind(reach, a, Side(a, b))
      <4>1. Side(a, b) \in Dir
        BY <2>2, <1>1
      <4>2. r[a] = reach[a]
        BY <2>1, <2>7, <1>7
      <4> QED
        BY <4>2 DEF Behind
    <3>2. down[a][Side(a, b)] # NULL /\ reach[b] \subseteq Behind(reach, a, Side(a, b))
      BY <3>1, <2>1, <1>20
    <3>3. down'[a][Side(a, b)] # NULL
      <4>1. CASE a = p
        BY <4>1, <3>2, <2>1, <2>2, <2>7, <1>1, <1>2, <1>6, <1>9, <1>15
      <4>2. CASE a # p
        BY <4>2, <3>2, <2>1, <2>2, <2>7, <1>1, <1>10
      <4> QED
        BY <4>1, <4>2
    <3>4. r[b] \subseteq Behind(reach, a, Side(a, b))
      <4>1. CASE b = n
        BY <4>1, <3>2, <1>7, <1>14
      <4>2. CASE b = x
        BY <4>2, <3>1, <2>1, <2>7, <1>7, <1>21
      <4>3. CASE b # n /\ b # x
        BY <4>3, <3>2, <2>1, <1>7
      <4> QED
        BY <4>1, <4>2, <4>3
    <3> QED
      BY <3>1, <3>3, <3>4
  <2> QED
    BY <2>4, <2>5, <2>6, <2>7
<1>23. ASSUME NEW b \in entries, b # n, b # x, under \cap reach[b] # {}
       PROVE  n \in reach[b] \/ b \in under
  <2>1. PICK j \in under \cap reach[b] : TRUE
    BY <1>23
  <2>2. n \in reach[b] \/ b \in reach[n]
    BY <2>1, <1>14 DEF Tree, Comparable
  <2>3. ASSUME b \in reach[n], Side(x, b) = 1 - d PROVE FALSE
    <3>1. b \in Behind(r, x, 1 - d)
      BY <2>3, <1>7, <1>23 DEF Behind
    <3>2. b \in reach[x]
      BY <3>1, <1>14 DEF Behind
    <3>3. j \in Behind(reach, x, 1 - d)
      BY <3>2, <2>1, <2>3, <1>2, <1>20, <1>23
    <3> QED
      BY <3>3, <2>1, <1>1 DEF Behind
  <2>4. Side(x, b) = d \/ Side(x, b) = 1 - d
    BY <1>2, <1>15, SideKnown DEF Dir
  <2> QED
    BY <2>2, <2>3, <2>4, <1>23
<1>24. ASSUME NEW b \in entries, b # n, b # x, reach[n] \cap reach[b] # {}
       PROVE  x \in reach[b] \/ b \in reach[n]
  <2>1. n \in reach[b] \/ b \in reach[n]
    BY <1>24 DEF Tree, Comparable
  <2>2. n \in reach[b] => reach[n] \subseteq reach[b]
    BY <1>20, <1>24 DEF Behind
  <2> QED
    BY <2>1, <2>2, <1>3
<1>25. Comparable(r)'
  <2> SUFFICES ASSUME NEW a \in entries', NEW b \in entries', r[a] \cap r[b] # {}
               PROVE  a \in r[b] \/ b \in r[a]
    BY DEF Comparable
  <2>1. a \in entries /\ b \in entries /\ a \in Key /\ b \in Key
    BY <1>15
  <2>2. n \in r[n] /\ x \in r[x] /\ n \in r[x]
    BY <1>1, <1>3, <1>7, <1>14
  <2>3. CASE a \in {n, x} /\ b \in {n, x}
    BY <2>2, <2>3
  <2>4. CASE a = n /\ b \notin {n, x}
    BY <2>1, <2>4, <1>7, <1>23
  <2>5. CASE b = n /\ a \notin {n, x}
    BY <2>1, <2>5, <1>7, <1>23
  <2>6. CASE a = x /\ b \notin {n, x}
    BY <2>1, <2>6, <1>7, <1>24
  <2>7. CASE b = x /\ a \notin {n, x}
    BY <2>1, <2>7, <1>7, <1>24
  <2>8. CASE a \notin {n, x} /\ b \notin {n, x}
    BY <2>1, <2>8, <1>7 DEF Tree, Comparable
  <2> QED
    BY <2>3, <2>4, <2>5, <2>6, <2>7, <2>8
<1> QED
  BY <1>13, <1>16, <1>17, <1>18, <1>19, <1>22, <1>25 DEF Tree
--------------------------------------------------------------------------------
(* The colors *)

BlackOf(n) == IF color[n] = "black" THEN 1 ELSE 0

(***************************************************************************)
(* height: how many black nodes are below a node, on any way down.  Two    *)
(* red nodes are one below the other only where fixup is at.               *)
(***************************************************************************)
BlackBelow(height, n, d) == IF down[n][d] = NULL THEN 0 ELSE height[down[n][d]] + BlackOf(down[n][d])
Even(height) == \A n \in entries, d \in Dir : BlackBelow(height, n, d) = height[n]
Fixing == phase \in {"fix", "turned"}
NoRedPair ==
    \A n \in entries \ {top} :
        color[n] = "red" /\ color[up[n]] = "red" => Fixing /\ n = at

LEMMA ChildKnown ==
    ASSUME LinksOK, NEW reach \in [Key -> SUBSET Key], Tree(reach),
           NEW m \in entries, NEW e \in Dir, down[m][e] # NULL
    PROVE  /\ down[m][e] \in entries /\ down[m][e] \in Key /\ up[down[m][e]] = m
           /\ Side(m, down[m][e]) = e
  BY DEF LinksOK, Tree, ChildrenReached, EachReached, Behind

\* A red child takes the place and the color of its parent, which becomes red.
LEMMA TurnEven ==
    ASSUME LinksOK, NEW reach \in [Key -> SUBSET Key], Tree(reach),
           NEW n, NEW d, NEW x, NEW inner, NEW p, IsTurn(n, d, x, inner, p), Rotate(n, d),
           entries' = entries,
           NEW height \in [Key -> Nat], Even(height), color[x] = "red",
           color'[x] = color[n], color'[n] = "red",
           \A m \in Key : m # n /\ m # x => color'[m] = color[m]
    PROVE  Even(height)'
<1>1. n \in entries /\ d \in Dir /\ inner = down[x][d] /\ p = up[n] /\ x = down[n][1 - d]
  BY DEF IsTurn
<1>2. /\ n \in Key /\ n # NULL /\ 1 - d \in Dir /\ 1 - d # d
      /\ x \in entries /\ x \in Key /\ x # NULL /\ up[x] = n /\ x # n /\ Side(n, x) = 1 - d
      /\ n = top <=> p = NULL
  BY TurnBefore
<1>3. n # top => /\ p \in entries /\ p \in Key /\ p # NULL /\ p # n /\ p # x
                 /\ down[p][SideOf(n)] = n /\ SideOf(n) \in Dir /\ SideOf(n) = Side(p, n)
  BY TurnBefore
<1>4. /\ down'[n][1 - d] = inner /\ down'[n][d] = down[n][d]
      /\ down'[x][d] = n /\ down'[x][1 - d] = down[x][1 - d]
  BY TurnAfter
<1>5. n # top => /\ down'[p][SideOf(n)] = x
                 /\ \A e \in Dir : e # SideOf(n) => down'[p][e] = down[p][e]
  BY TurnAfter
<1>6. \A m \in Key : m # n /\ m # x /\ m # p => \A e \in Dir : down'[m][e] = down[m][e]
  BY TurnAfter
<1>7. \A m \in entries, e \in Dir :
          IF down[m][e] = NULL THEN height[m] = 0
          ELSE height[m] = height[down[m][e]] + BlackOf(down[m][e])
  BY DEF Even, BlackBelow
<1>8. height[x] \in Nat /\ height[n] \in Nat /\ height[n] = height[x]
  <2>1. height[n] = height[x] + BlackOf(x)
    BY <1>1, <1>2, <1>7
  <2> QED
    BY <2>1, <1>2 DEF BlackOf
<1>9. \A m \in entries : m \in Key
  BY DEF LinksOK
<1>10. \A m \in Key : m # n /\ m # x => BlackOf(m)' = BlackOf(m)
  BY DEF BlackOf
<1>11. BlackOf(x)' = BlackOf(n) /\ BlackOf(n)' = 0
  BY <1>2 DEF BlackOf
<1> SUFFICES ASSUME NEW m \in entries', NEW e \in Dir
             PROVE  IF down'[m][e] = NULL THEN height[m] = 0
                    ELSE height[m] = height[down'[m][e]] + BlackOf(down[m][e])'
  <2>1. \A k \in Key : height[k] \in Nat
    OBVIOUS
  <2> QED
    BY <2>1 DEF Even, BlackBelow
<1>12. m \in entries /\ m \in Key /\ m # NULL /\ (e = d \/ e = 1 - d)
  BY <1>1, <1>9, MapAssumption DEF Dir
\* A link that is as it was
<1>13. ASSUME down'[m][e] = down[m][e], down[m][e] # n, down[m][e] # x
       PROVE  IF down'[m][e] = NULL THEN height[m] = 0
              ELSE height[m] = height[down'[m][e]] + BlackOf(down[m][e])'
  <2>1. CASE down[m][e] = NULL
    BY <2>1, <1>7, <1>12, <1>13
  <2>2. CASE down[m][e] # NULL
    <3>1. down[m][e] \in Key
      BY <2>2, <1>12, ChildKnown
    <3>2. BlackOf(down[m][e])' = BlackOf(down[m][e])
      BY <3>1, <1>10, <1>13 DEF BlackOf
    <3> QED
      BY <3>2, <2>2, <1>7, <1>12, <1>13
  <2> QED
    BY <2>1, <2>2
<1>14. down[m][e] # NULL => up[down[m][e]] = m /\ Side(m, down[m][e]) = e
  BY <1>12, ChildKnown
<1>15. CASE m = n /\ e = d
  BY <1>1, <1>2, <1>3, <1>4, <1>12, <1>13, <1>14, <1>15
<1>16. CASE m = n /\ e = 1 - d
  <2>1. down'[m][e] = inner
    BY <1>4, <1>16
  <2>2. inner # NULL => inner \in Key /\ inner # x /\ inner # n
    BY TurnBefore
  <2>3. inner # NULL => BlackOf(inner)' = BlackOf(inner)
    BY <2>2, <1>10
  <2>4. BlackOf(down[m][e])' = BlackOf(inner)'
    BY <2>1 DEF BlackOf
  <2>5. IF inner = NULL THEN height[x] = 0 ELSE height[x] = height[inner] + BlackOf(inner)
    BY <1>1, <1>2, <1>7
  <2> QED
    BY <2>1, <2>3, <2>4, <2>5, <1>8, <1>16
<1>17. CASE m = x /\ e = d
  <2>1. down'[m][e] = n /\ BlackOf(down[m][e])' = 0
    BY <1>4, <1>11, <1>17 DEF BlackOf
  <2> QED
    BY <2>1, <1>2, <1>8, <1>17
<1>18. CASE m = x /\ e = 1 - d
  BY <1>2, <1>3, <1>1, <1>4, <1>12, <1>13, <1>14, <1>18
<1>19. CASE m # n /\ m # x /\ m = p
  <2>1. n # top
    BY <1>2, <1>12, <1>19
  <2>2. CASE e = SideOf(n)
    <3>1. down'[m][e] = x /\ BlackOf(down[m][e])' = BlackOf(n)
      BY <2>1, <2>2, <1>5, <1>11, <1>19 DEF BlackOf
    <3>2. height[p] = height[n] + BlackOf(n)
      BY <2>1, <1>2, <1>3, <1>7
    <3> QED
      BY <3>1, <3>2, <1>2, <1>8, <1>19
  <2>3. CASE e # SideOf(n)
    <3>1. down'[m][e] = down[m][e] /\ m # NULL
      BY <2>1, <2>3, <1>5, <1>12, <1>19
    <3>2. down[m][e] # n /\ down[m][e] # x
      BY <2>1, <2>3, <1>2, <1>3, <1>14, <1>19
    <3> QED
      BY <3>1, <3>2, <1>13
  <2> QED
    BY <2>2, <2>3
<1>20. CASE m # n /\ m # x /\ m # p
  <2>1. down'[m][e] = down[m][e]
    BY <1>6, <1>12, <1>20
  <2>2. down[m][e] # n /\ down[m][e] # x
    BY <1>1, <1>2, <1>14, <1>20
  <2> QED
    BY <2>1, <2>2, <1>13
<1> QED
  BY <1>12, <1>15, <1>16, <1>17, <1>18, <1>19, <1>20

\* The node that fixup is at is a red one. Half-way through a turn it and its parent, both
\* red, are on the same side, as the second rotation needs them.
FixOn ==
    /\ top # NULL => color[top] = "black" \/ (phase = "fix" /\ at = top)
    /\ Fixing => at \in entries /\ doing.op = "set" /\ doing.key \in entries /\ color[at] = "red"
    /\ phase = "turned" =>
          /\ at # top /\ Parent # top /\ color[Parent] = "red"
          /\ \E d \in Dir : /\ at = down[Parent][d] /\ Parent = down[Grandparent][d]
                           /\ ~IsRed(down[Grandparent][1 - d])

\* A turn of the loop has a parent and a grandparent to work on.
LEMMA FixFamily ==
    ASSUME LinksOK, NEW reach \in [Key -> SUBSET Key], Tree(reach), FixOn, NoRedPair,
           FixingOn \/ phase = "turned"
    PROVE  /\ at \in entries /\ at # top /\ color[at] = "red"
           /\ Parent \in entries /\ Parent # top /\ color[Parent] = "red"
           /\ Grandparent \in entries /\ color[Grandparent] = "black"
           /\ at # Parent /\ Parent # Grandparent /\ at # Grandparent
           /\ SideOf(Parent) \in Dir /\ down[Grandparent][SideOf(Parent)] = Parent
           /\ \E d \in Dir : down[Parent][d] = at
<1>1. at \in entries /\ at # top /\ color[at] = "red" /\ color[Parent] = "red"
  BY DEF FixOn, FixingOn, Fixing
<1>2. Parent \in entries /\ at # Parent /\ down[Parent][Side(Parent, at)] = at
  BY <1>1 DEF Tree, ParentsLink, Parent
<1>3. Parent # top
  BY <1>1, <1>2, MapAssumption DEF FixOn, FixingOn, LinksOK
<1>4. /\ Grandparent \in entries /\ Parent # Grandparent
      /\ down[Grandparent][Side(Grandparent, Parent)] = Parent
  BY <1>2, <1>3 DEF Tree, ParentsLink, Grandparent
<1>5. at \in Key /\ Parent \in Key /\ Grandparent \in Key /\ at # NULL /\ Parent # NULL
  BY <1>1, <1>2, <1>4, MapAssumption DEF LinksOK
<1>6. Side(Parent, at) \in Dir /\ Side(Grandparent, Parent) \in Dir
  BY <1>5, SideKnown
<1>7. SideOf(Parent) = Side(Grandparent, Parent)
  BY <1>2, <1>3, SideOfIs DEF Grandparent
<1>8. color[Grandparent] = "black"
  BY <1>1, <1>2, <1>3, <1>4, <1>5 DEF NoRedPair, Grandparent, LinksOK
<1>9. at # Grandparent
  BY <1>1, <1>8
<1> QED
  BY <1>1, <1>2, <1>3, <1>4, <1>6, <1>7, <1>8, <1>9

LEMMA RecolorKeeps ==
    ASSUME LinksOK, NEW reach \in [Key -> SUBSET Key], Tree(reach), FixOn, NoRedPair,
           NEW height \in [Key -> Nat], Even(height), Recolor
    PROVE  /\ LinksOK' /\ Tree(reach)' /\ FixOn' /\ NoRedPair'
           /\ \E h \in [Key -> Nat] : Even(h)'
<1> PICK p : p = Parent
  OBVIOUS
<1> PICK g : g = Grandparent
  OBVIOUS
<1> PICK s : s = SideOf(p)
  OBVIOUS
<1> PICK u : u = down[g][1 - s]
  OBVIOUS
<1>1. /\ at \in entries /\ at # top /\ color[at] = "red" /\ p \in entries /\ p # top /\ color[p] = "red"
      /\ g \in entries /\ color[g] = "black" /\ at # p /\ p # g /\ at # g /\ s \in Dir /\ down[g][s] = p
  BY FixFamily DEF Recolor
<1>2. p = up[at] /\ g = up[p] /\ u # NULL /\ color[u] = "red"
  BY DEF Recolor, IsRed, Uncle, Parent, Grandparent
<1>3. g \in Key /\ p \in Key /\ p # NULL /\ 1 - s \in Dir /\ 1 - s # s
  BY <1>1, SideKnown, MapAssumption DEF LinksOK
<1>4. u \in entries /\ u \in Key /\ up[u] = g /\ Side(g, u) = 1 - s /\ Side(g, p) = s /\ u # p /\ u # g
  BY <1>1, <1>2, <1>3, ChildKnown DEF Tree, ParentsLink
<1>5. /\ color' = [k \in Key |-> IF k \in {p, u} THEN "black" ELSE IF k \in {g} THEN "red" ELSE color[k]]
      /\ at' = g /\ phase = "fix" /\ phase' = "fix"
      /\ UNCHANGED <<entries, top, up, down, doing>>
  BY DEF Recolor, Paint, Uncle, FixWaits, FixingOn
<1>6. /\ color'[p] = "black" /\ color'[u] = "black" /\ color'[g] = "red"
      /\ \A k \in Key : k \notin {p, u, g} => color'[k] = color[k]
      /\ color' \in [Key -> {"red", "black"}]
  BY <1>1, <1>3, <1>4, <1>5 DEF LinksOK
<1>7. LinksOK'
  BY <1>1, <1>4, <1>5, <1>6 DEF LinksOK
<1>8. Tree(reach)'
  BY <1>5 DEF Tree, TopReached, EachReached, ChildrenReached, ParentsLink, ReachedBelow, Comparable,
              Behind, Side
<1>9. FixOn'
  <2>1. top # NULL => top \in Key /\ color[top] = "black"
    BY <1>1, <1>5 DEF FixOn, LinksOK
  <2>2. top # NULL => color'[top] = "black" \/ g = top
    BY <2>1, <1>6
  <2> QED
    BY <2>2, <1>1, <1>5, <1>6 DEF FixOn, Fixing
<1>10. ASSUME NEW n \in entries \ {top}, color'[n] = "red", color'[up[n]] = "red"
       PROVE  n = g
  <2>1. n \in Key /\ up[n] \in entries /\ up[n] \in Key /\ down[up[n]][Side(up[n], n)] = n
    BY DEF Tree, ParentsLink, LinksOK
  <2>2. Side(up[n], n) \in Dir
    BY <2>1, SideKnown
  <2> SUFFICES ASSUME n # g
               PROVE  FALSE
    OBVIOUS
  <2>3. color[n] = "red" /\ n # p /\ n # u
    BY <2>1, <1>6, <1>10
  <2>4. CASE up[n] = g
    <3>1. Side(g, n) = s \/ Side(g, n) = 1 - s
      BY <2>2, <2>4, <1>1 DEF Dir
    <3> QED
      BY <3>1, <2>1, <2>3, <2>4, <1>1
  <2>5. CASE up[n] # g
    <3>1. color[up[n]] = "red" /\ up[n] # p
      BY <2>1, <2>5, <1>6, <1>10
    <3> QED
      BY <3>1, <2>3, <1>2 DEF NoRedPair
  <2> QED
    BY <2>4, <2>5
<1>11. NoRedPair'
  BY <1>5, <1>10 DEF NoRedPair, Fixing
<1> PICK one : one = height[g] + 1
  OBVIOUS
<1>16. height[g] \in Nat /\ one \in Nat
  BY <1>3
<1> PICK h \in [Key -> Nat] : h = [height EXCEPT ![g] = one]
  BY <1>16
<1>12. h[g] = height[g] + 1 /\ \A k \in Key : k # g => h[k] = height[k]
  BY <1>3
<1>13. \A m \in entries, e \in Dir :
          IF down[m][e] = NULL THEN height[m] = 0
          ELSE height[m] = height[down[m][e]] + BlackOf(down[m][e])
  BY DEF Even, BlackBelow
<1>14. ASSUME NEW m \in entries, NEW e \in Dir
       PROVE  IF down[m][e] = NULL THEN h[m] = 0
              ELSE h[m] = h[down[m][e]] + (IF color'[down[m][e]] = "black" THEN 1 ELSE 0)
  <2>1. down[m][e] # NULL => down[m][e] \in Key /\ up[down[m][e]] = m
    BY ChildKnown
  <2>2. m \in Key /\ height[m] \in Nat
    BY DEF LinksOK
  <2>3. CASE m = g /\ e = s
    BY <2>3, <1>1, <1>3, <1>6, <1>12, <1>13 DEF BlackOf
  <2>4. CASE m = g /\ e = 1 - s
    BY <2>4, <1>1, <1>2, <1>3, <1>4, <1>6, <1>12, <1>13 DEF BlackOf
  <2>5. CASE m # g /\ down[m][e] = g
    <3>1. height[m] = height[g] + 1
      <4>1. BlackOf(down[m][e]) = 1 /\ down[m][e] # NULL
        BY <2>5, <1>1, <1>3, MapAssumption DEF BlackOf
      <4> QED
        BY <4>1, <2>5, <1>13
    <3> QED
      BY <3>1, <2>2, <2>5, <1>3, <1>6, <1>12, MapAssumption
  <2>6. CASE m # g /\ down[m][e] # g
    <3>1. CASE down[m][e] = NULL
      BY <3>1, <2>2, <2>6, <1>12, <1>13
    <3>2. CASE down[m][e] # NULL
      <4>1. down[m][e] # p /\ down[m][e] # u
        BY <3>2, <2>1, <2>6, <1>2, <1>4
      <4>2. color'[down[m][e]] = color[down[m][e]]
        BY <4>1, <3>2, <2>1, <2>6, <1>6
      <4> QED
        BY <4>2, <3>2, <2>1, <2>2, <2>6, <1>12, <1>13 DEF BlackOf
    <3> QED
      BY <3>1, <3>2
  <2>7. e = s \/ e = 1 - s
    BY <1>1 DEF Dir
  <2> QED
    BY <2>3, <2>4, <2>5, <2>6, <2>7
<1>15. Even(h)'
  BY <1>5, <1>14 DEF Even, BlackBelow, BlackOf
<1> QED
  BY <1>7, <1>8, <1>9, <1>11, <1>15

LEMMA StraightenKeeps ==
    ASSUME LinksOK, NEW reach \in [Key -> SUBSET Key], Tree(reach), FixOn, NoRedPair,
           NEW height \in [Key -> Nat], Even(height), Straighten
    PROVE  /\ LinksOK' /\ (\E r \in [Key -> SUBSET Key] : Tree(r)') /\ FixOn' /\ NoRedPair'
           /\ Even(height)'
<1> PICK p : p = Parent
  OBVIOUS
<1> PICK g : g = Grandparent
  OBVIOUS
<1> PICK s : s = SideOf(p)
  OBVIOUS
<1> PICK x : x = at
  OBVIOUS
<1> PICK inner : inner = down[x][s]
  OBVIOUS
<1>1. /\ x \in entries /\ x # top /\ color[x] = "red" /\ p \in entries /\ p # top /\ color[p] = "red"
      /\ g \in entries /\ color[g] = "black" /\ x # p /\ p # g /\ x # g /\ s \in Dir /\ down[g][s] = p
  BY FixFamily DEF Straighten
<1>2. /\ p = up[x] /\ g = up[p] /\ x = down[p][1 - s] /\ ~IsRed(down[g][1 - s])
      /\ at' = p /\ phase = "fix" /\ phase' = "turned"
      /\ UNCHANGED <<entries, color, doing>>
  BY DEF Straighten, IsInner, Uncle, Parent, Grandparent, FixWaits, FixingOn
<1>13. Rotate(p, s)
  BY DEF Straighten, Parent
<1>3. /\ \A n \in entries : n \in Key /\ n # NULL
      /\ 1 - s \in Dir /\ 1 - s # s
  BY <1>1, SideKnown, MapAssumption DEF LinksOK
<1>4. IsTurn(p, s, x, inner, g)
  BY <1>1, <1>2, <1>3 DEF IsTurn
<1>5. LinksOK' /\ \E r \in [Key -> SUBSET Key] : Tree(r)'
  <2>1. color' \in [Key -> {"red", "black"}] /\ \A k \in Key \ entries : color'[k] = "red"
    BY <1>2 DEF LinksOK
  <2>2. down[p][1 - s] # NULL /\ entries' = entries
    BY <1>1, <1>2, <1>3
  <2> QED
    BY <2>1, <2>2, <1>1, <1>13, RotateKeeps
<1>6. Even(height)'
  BY <1>1, <1>2, <1>4, <1>13, TurnEven
<1>7. /\ down'[x][s] = p /\ top' = top
      /\ up'[p] = x /\ up'[x] = g /\ (inner # NULL => up'[inner] = p)
      /\ \A m \in Key : m # p /\ m # x /\ m # inner => up'[m] = up[m]
  <2>1. top' = (IF p = top THEN x ELSE top) /\ down'[x][s] = p
    BY <1>4, <1>13, TurnAfter
  <2>2. /\ up'[p] = x /\ up'[x] = g /\ (inner # NULL => up'[inner] = p)
        /\ \A m \in Key : m # p /\ m # x /\ m # inner => up'[m] = up[m]
    BY <1>4, <1>13, TurnAfter
  <2> QED
    BY <2>1, <2>2, <1>1
<1>8. down'[g][s] = x /\ down'[g][1 - s] = down[g][1 - s]
  <2>1. /\ down'[g][SideOf(p)] = x
        /\ \A e \in Dir : e # SideOf(p) => down'[g][e] = down[g][e]
    BY <1>1, <1>4, <1>13, TurnAfter
  <2> QED
    BY <2>1, <1>3
<1>9. top # NULL => top \in Key /\ color[top] = "black"
  BY <1>1 DEF FixOn, LinksOK
<1>10. FixOn'
  <2>1. top' # NULL => color'[top'] = "black"
    BY <1>2, <1>7, <1>9
  <2>2. /\ at' \in entries' /\ doing'.op = "set" /\ doing'.key \in entries' /\ color'[at'] = "red"
        /\ at' # top'
    BY <1>1, <1>2, <1>7 DEF FixOn, Fixing
  <2>3. Parent' = x /\ Grandparent' = g
    BY <1>2, <1>7 DEF Parent, Grandparent
  <2>4. Parent' # top' /\ color'[Parent'] = "red"
    BY <2>3, <1>1, <1>2, <1>7
  <2>5. ~IsRed(down[Grandparent][1 - s])'
    BY <2>3, <1>2, <1>8 DEF IsRed
  <2>6. at' = down'[Parent'][s] /\ Parent' = down'[Grandparent'][s]
    BY <2>3, <1>2, <1>7, <1>8
  <2> QED
    BY <2>1, <2>2, <2>4, <2>5, <2>6, <1>1, <1>2 DEF FixOn, Fixing, IsRed
<1>11. ASSUME NEW n \in entries \ {top}, color[n] = "red", color[up'[n]] = "red"
       PROVE  n = p
  <2> SUFFICES ASSUME n # p
               PROVE  FALSE
    OBVIOUS
  <2>1. CASE n = x
    BY <2>1, <1>1, <1>7, <1>11
  <2>2. CASE n = inner
    <3>1. inner # NULL /\ inner # x /\ up[inner] = x
      BY <2>2, <1>3, <1>4, TurnBefore
    <3> QED
      BY <3>1, <2>2, <1>1, <1>11 DEF NoRedPair
  <2>3. CASE n # x /\ n # inner
    BY <2>3, <1>1, <1>3, <1>7, <1>11 DEF NoRedPair
  <2> QED
    BY <2>1, <2>2, <2>3
<1>12. NoRedPair'
  BY <1>2, <1>7, <1>11 DEF NoRedPair, Fixing
<1> QED
  BY <1>5, <1>6, <1>10, <1>12

LEMMA RestructureKeeps ==
    ASSUME LinksOK, NEW reach \in [Key -> SUBSET Key], Tree(reach), FixOn, NoRedPair,
           NEW height \in [Key -> Nat], Even(height), Restructure
    PROVE  /\ LinksOK' /\ (\E r \in [Key -> SUBSET Key] : Tree(r)') /\ FixOn' /\ NoRedPair'
           /\ Even(height)'
<1> PICK p : p = Parent
  OBVIOUS
<1> PICK g : g = Grandparent
  OBVIOUS
<1> PICK s : s = SideOf(p)
  OBVIOUS
<1> PICK t : t = 1 - s
  OBVIOUS
<1> PICK inner : inner = down[p][t]
  OBVIOUS
<1> PICK above_g : above_g = up[g]
  OBVIOUS
<1>1. /\ at \in entries /\ at # top /\ color[at] = "red" /\ p \in entries /\ p # top /\ color[p] = "red"
      /\ g \in entries /\ color[g] = "black" /\ at # p /\ p # g /\ at # g /\ s \in Dir /\ down[g][s] = p
      /\ \E d \in Dir : down[p][d] = at
  BY FixFamily DEF Restructure
<1>2. /\ p = up[at] /\ g = up[p] /\ Rotate(g, t)
      /\ color' = [k \in Key |-> IF k \in {p} THEN "black" ELSE IF k \in {g} THEN "red" ELSE color[k]]
      /\ at' = at /\ phase \in {"fix", "turned"} /\ phase' = "fix"
      /\ UNCHANGED <<entries, doing>>
  BY DEF Restructure, Paint, Parent, Grandparent, FixWaits, FixingOn
<1>3. /\ \A n \in entries : n \in Key /\ n # NULL
      /\ t \in Dir /\ t # s /\ 1 - t = s
  BY <1>1, SideKnown, MapAssumption DEF LinksOK
<1>4. at = down[p][s] /\ ~IsRed(down[g][t])
  <2>1. CASE phase = "turned"
    <3>1. PICK d \in Dir : at = down[p][d] /\ p = down[g][d] /\ ~IsRed(down[g][1 - d])
      BY <2>1 DEF FixOn
    <3>2. d = s
      BY <3>1, <1>1, <1>3, ChildKnown
    <3> QED
      BY <3>1, <3>2
  <2>2. CASE ~IsRed(Uncle) /\ ~IsInner
    <3>1. at # down[p][t] /\ ~IsRed(down[g][t])
      BY <2>2 DEF Uncle, IsInner
    <3> QED
      BY <3>1, <1>1, <1>3 DEF Dir
  <2> QED
    BY <2>1, <2>2 DEF Restructure
<1>5. IsTurn(g, t, p, inner, above_g)
  BY <1>1, <1>3 DEF IsTurn
<1>6. /\ color'[p] = "black" /\ color'[g] = "red"
      /\ \A k \in Key : k # p /\ k # g => color'[k] = color[k]
      /\ color' \in [Key -> {"red", "black"}] /\ \A k \in Key \ entries : color'[k] = "red"
  BY <1>1, <1>2, <1>3 DEF LinksOK
<1>7. LinksOK' /\ \E r \in [Key -> SUBSET Key] : Tree(r)'
  <2>1. down[g][1 - t] # NULL /\ entries' = entries
    BY <1>1, <1>2, <1>3
  <2> QED
    BY <2>1, <1>1, <1>2, <1>3, <1>6, RotateKeeps
<1>8. Even(height)'
  BY <1>1, <1>2, <1>5, <1>6, TurnEven
<1>9. /\ top' = (IF g = top THEN p ELSE top)
      /\ up'[g] = p /\ up'[p] = above_g /\ (inner # NULL => up'[inner] = g)
      /\ \A m \in Key : m # g /\ m # p /\ m # inner => up'[m] = up[m]
  BY <1>2, <1>5, TurnAfter
<1>10. FixOn'
  <2>1. top # NULL => top \in Key /\ color[top] = "black"
    BY <1>1 DEF FixOn, LinksOK
  <2>2. top' # NULL => color'[top'] = "black"
    BY <2>1, <1>1, <1>6, <1>9
  <2>3. /\ at' \in entries' /\ doing'.op = "set" /\ doing'.key \in entries'
        /\ color'[at'] = "red"
    BY <1>1, <1>2, <1>3, <1>6 DEF FixOn, Fixing
  <2> QED
    BY <2>2, <2>3, <1>2 DEF FixOn, Fixing
<1>11. ASSUME NEW n \in entries \ {top'}, color'[n] = "red", color'[up'[n]] = "red"
       PROVE  FALSE
  <2>1. n # p /\ n \in Key /\ n # NULL
    BY <1>3, <1>6, <1>11
  <2>2. n # g
    BY <1>6, <1>9, <1>11
  <2>3. color[n] = "red"
    BY <2>1, <2>2, <1>6, <1>11
  <2>4. CASE n = inner
    <3>1. up[n] = p
      BY <2>1, <2>4, <1>5, TurnBefore
    <3>2. n # top
      BY <3>1, <2>1, <1>1, <1>3 DEF Tree, TopReached
    <3>3. n = at
      BY <3>1, <3>2, <2>3, <1>1 DEF NoRedPair
    <3> QED
      <4>1. down[p][s] = n /\ down[p][t] = n
        BY <3>3, <2>4, <1>4
      <4>2. Side(p, n) = s /\ Side(p, n) = t
        BY <4>1, <2>1, <1>1, <1>3, ChildKnown
      <4> QED
        BY <4>2, <1>3
  <2>5. CASE n # inner
    <3>1. up'[n] = up[n]
      BY <2>1, <2>2, <2>5, <1>9
    <3>2. n # top
      BY <2>2, <1>9, <1>11
    <3>3. up[n] \in entries /\ down[up[n]][Side(up[n], n)] = n
      BY <3>2 DEF Tree, ParentsLink
    <3>4. Side(up[n], n) \in Dir
      BY <3>3, <2>1, <1>3, SideKnown
    <3>5. CASE up[n] = g
      <4>1. Side(g, n) = s \/ Side(g, n) = t
        BY <3>4, <3>5, <1>1, <1>3 DEF Dir
      <4>2. ~IsRed(n) \/ n = p
        BY <4>1, <3>3, <3>5, <1>1, <1>4
      <4> QED
        BY <4>2, <2>1, <2>3 DEF IsRed
    <3>6. CASE up[n] # g
      <4>1. up[n] # p /\ color[up[n]] = "red"
        BY <3>1, <3>3, <3>6, <1>3, <1>6, <1>11
      <4> QED
        BY <4>1, <3>2, <2>3, <1>2 DEF NoRedPair
    <3> QED
      BY <3>5, <3>6
  <2> QED
    BY <2>4, <2>5
<1>12. NoRedPair'
  BY <1>2, <1>11 DEF NoRedPair
<1> QED
  BY <1>7, <1>8, <1>10, <1>12

LEMMA FixEndsKeeps ==
    ASSUME LinksOK, NEW reach \in [Key -> SUBSET Key], Tree(reach), FixOn, NoRedPair,
           NEW height \in [Key -> Nat], Even(height), FixEnds
    PROVE  LinksOK' /\ Tree(reach)' /\ FixOn' /\ NoRedPair' /\ Even(height)'
<1>1. /\ color' = [k \in Key |-> IF k \in {top} THEN "black" ELSE IF k \in {} THEN "red" ELSE color[k]]
      /\ phase' = "rest" /\ phase = "fix" /\ ~FixingOn
      /\ UNCHANGED <<entries, top, up, down>>
  BY DEF FixEnds, Paint, Returns
<1>2. /\ top \in Key => color'[top] = "black"
      /\ \A k \in Key : k # top => color'[k] = color[k]
      /\ color' \in [Key -> {"red", "black"}]
  BY <1>1 DEF LinksOK
<1>3. top # NULL => top \in entries /\ up[top] = NULL
  BY DEF Tree, TopReached
<1>4. LinksOK'
  BY <1>1, <1>2, <1>3, MapAssumption DEF LinksOK
<1>5. Tree(reach)'
  BY <1>1 DEF Tree, TopReached, EachReached, ChildrenReached, ParentsLink, ReachedBelow, Comparable,
              Behind, Side
<1>6. FixOn'
  BY <1>1, <1>2, <1>3 DEF FixOn, Fixing, LinksOK
<1>7. ASSUME NEW n \in entries \ {top}, color'[n] = "red", color'[up[n]] = "red"
      PROVE  FALSE
  <2>1. n \in Key /\ up[n] \in Key
    BY DEF LinksOK, Tree, ParentsLink
  <2>2. up[n] # top /\ color[n] = "red" /\ color[up[n]] = "red"
    BY <2>1, <1>2, <1>7
  <2> QED
    BY <2>2, <1>1, <1>7 DEF NoRedPair, FixingOn, Parent
<1>8. NoRedPair'
  BY <1>1, <1>7 DEF NoRedPair
<1>9. ASSUME NEW m \in entries, NEW e \in Dir, down[m][e] # NULL
      PROVE  color'[down[m][e]] = color[down[m][e]]
  <2>1. down[m][e] \in Key /\ up[down[m][e]] = m /\ m # NULL
    BY <1>9, ChildKnown, MapAssumption DEF LinksOK
  <2>2. down[m][e] # top
    BY <2>1, <1>9, <1>3
  <2> QED
    BY <2>1, <2>2, <1>2
<1>10. Even(height)'
  BY <1>1, <1>9 DEF Even, BlackBelow, BlackOf
<1> QED
  BY <1>4, <1>5, <1>6, <1>8, <1>10

LEMMA InsertColors ==
    ASSUME LinksOK, DoingOK, NEW reach \in [Key -> SUBSET Key], Tree(reach), SearchOn(reach),
           FixOn, NoRedPair, NEW height \in [Key -> Nat], Even(height), Insert
    PROVE  FixOn' /\ NoRedPair' /\ \E h \in [Key -> Nat] : Even(h)'
<1> PICK k : k = doing.key
  OBVIOUS
<1> PICK s : s = Side(above, k)
  OBVIOUS
<1>1. /\ k \in Key \ entries /\ k # NULL /\ at = NULL /\ phase = "search" /\ doing.op = "set"
      /\ entries' = entries \cup {k} /\ top' = (IF above = NULL THEN k ELSE top) /\ color' = color
      /\ at' = k /\ phase' = "fix" /\ doing' = doing
  BY SearchMisses, MapAssumption DEF Insert
<1>2. above # NULL => /\ above \in entries /\ above \in Key /\ above # k
                      /\ s \in Dir /\ down[above][s] = NULL
  BY <1>1, SideKnown DEF SearchOn, LinksOK
<1>3. above = NULL <=> entries = {}
  BY <1>1, <1>2 DEF SearchOn, Tree, TopReached
<1>4. color[k] = "red" /\ \A d \in Dir : down[k][d] = NULL
  BY <1>1 DEF LinksOK
<1>5. FixOn'
  BY <1>1, <1>3, <1>4 DEF FixOn, Fixing, Tree, TopReached
<1>6. \A n \in entries : up'[n] = up[n]
  BY <1>1 DEF Insert, LinksOK
<1>7. NoRedPair'
  BY <1>1, <1>3, <1>6 DEF NoRedPair, Fixing
<1>8. /\ above # NULL => down'[above][s] = k
      /\ \A n \in Key, d \in Dir : ~(n = above /\ d = s) => down'[n][d] = down[n][d]
  <2>1. CASE above = NULL
    BY <2>1, MapAssumption DEF Insert, LinksOK
  <2>2. CASE above # NULL
    BY <2>2, <1>1, <1>2 DEF Insert, LinksOK
  <2> QED
    BY <2>1, <2>2
<1> PICK h \in [Key -> Nat] : h = [height EXCEPT ![k] = 0]
  OBVIOUS
<1>9. h[k] = 0 /\ \A n \in Key : n # k => h[n] = height[n]
  BY <1>1
<1>10. \A m \in entries, e \in Dir :
          IF down[m][e] = NULL THEN height[m] = 0
          ELSE height[m] = height[down[m][e]] + BlackOf(down[m][e])
  BY DEF Even, BlackBelow
<1>11. ASSUME NEW m \in entries', NEW e \in Dir
       PROVE  IF down'[m][e] = NULL THEN h[m] = 0
              ELSE h[m] = h[down'[m][e]] + (IF color[down'[m][e]] = "black" THEN 1 ELSE 0)
  <2>1. CASE m = k
    BY <2>1, <1>1, <1>2, <1>4, <1>8, <1>9
  <2>2. CASE m # k /\ m = above /\ e = s
    <3>1. m \in entries /\ m \in Key /\ above # NULL
      BY <2>2, <1>1, MapAssumption DEF LinksOK
    <3>2. height[m] = 0
      BY <3>1, <2>2, <1>2, <1>10
    <3> QED
      BY <3>1, <3>2, <2>2, <1>1, <1>4, <1>8, <1>9
  <2>3. CASE m # k /\ ~(m = above /\ e = s)
    <3>1. m \in entries /\ m \in Key /\ down'[m][e] = down[m][e]
      BY <2>3, <1>1, <1>8 DEF LinksOK
    <3>2. down[m][e] # NULL => down[m][e] \in entries /\ down[m][e] \in Key
      BY <3>1, ChildKnown
    <3> QED
      BY <3>1, <3>2, <2>3, <1>1, <1>9, <1>10 DEF BlackOf
  <2> QED
    BY <2>1, <2>2, <2>3
<1>12. Even(h)'
  BY <1>1, <1>11 DEF Even, BlackBelow, BlackOf
<1> QED
  BY <1>5, <1>7, <1>12
--------------------------------------------------------------------------------
(* The iteration *)

\* The entries that a frame will come to
Brings(reach, f) ==
    IF f.node = NULL THEN {} ELSE IF f.does = "callback" THEN {f.node} ELSE entries \cap reach[f.node]
Frame == [does : {"iterate"}, node : entries \cup {NULL}] \cup [does : {"callback"}, node : entries]
VisitedAlready(k) == \E i \in 1..Len(visited) : visited[i] = k

\* Every entry has been visited or will be, and in order.
FramesOn(reach) ==
    phase = "iterate" =>
        /\ doing = [op |-> "iterate", key |-> NULL]
        /\ frames \in Seq(Frame) /\ visited \in Seq(entries)
        /\ \A k \in entries :
              VisitedAlready(k) \/ \E i \in 1..Len(frames) : k \in Brings(reach, frames[i])
        /\ \A i, j \in 1..Len(visited) : i < j => visited[i] < visited[j]
        /\ \A i \in 1..Len(visited), j \in 1..Len(frames) :
              \A k \in Brings(reach, frames[j]) : visited[i] < k
        /\ \A i, j \in 1..Len(frames) : i < j =>
              \A k \in Brings(reach, frames[i]), l \in Brings(reach, frames[j]) : k < l

LEMMA FrontReplaced ==
    ASSUME NEW S, NEW q \in Seq(S), q # <<>>, NEW a \in S, NEW b \in S, NEW c \in S,
           NEW t, t = <<a, b, c>> \o Tail(q)
    PROVE  /\ t \in Seq(S) /\ Len(t) = Len(q) + 2 /\ t[1] = a /\ t[2] = b /\ t[3] = c
           /\ \A i \in 4..Len(t) : t[i] = q[i - 2] /\ i - 2 \in 2..Len(q)
           /\ \A i \in 2..Len(q) : t[i + 2] = q[i] /\ i + 2 \in 4..Len(t)
           /\ Len(q) \in Nat \ {0}
<1>1. <<a, b, c>> \in Seq(S) /\ Len(<<a, b, c>>) = 3
  OBVIOUS
<1>2. /\ Tail(q) \in Seq(S) /\ Len(Tail(q)) = Len(q) - 1 /\ Len(q) \in Nat \ {0}
      /\ \A i \in 1..Len(q) - 1 : Tail(q)[i] = q[i + 1]
  OBVIOUS
<1>3. t \in Seq(S) /\ Len(t) = Len(q) + 2
  BY <1>1, <1>2
<1>4. t[1] = a /\ t[2] = b /\ t[3] = c
  BY <1>1, <1>2
<1>5. \A i \in 4..Len(t) : t[i] = q[i - 2] /\ i - 2 \in 2..Len(q)
  <2> TAKE i \in 4..Len(t)
  <2>1. i - 3 \in 1..Len(q) - 1 /\ i \in Int
    BY <1>2, <1>3
  <2>2. t[i] = Tail(q)[i - 3]
    BY <2>1, <1>1, <1>2, <1>3
  <2> QED
    BY <2>1, <2>2, <1>2
<1>6. \A i \in 2..Len(q) : t[i + 2] = q[i] /\ i + 2 \in 4..Len(t)
  BY <1>2, <1>3, <1>5
<1> QED
  BY <1>2, <1>3, <1>4, <1>5, <1>6

\* A node's own frames come to what its frame would: the left part, the node, the right part.
LEMMA NodeBrings ==
    ASSUME LinksOK, NEW reach \in [Key -> SUBSET Key], Tree(reach), NEW n \in entries,
           NEW k \in entries
    PROVE  /\ k \in Brings(reach, ToIterate(down[n][0])) <=> k \in reach[n] /\ k < n
           /\ k \in Brings(reach, ToCallBack(n)) <=> k = n
           /\ k \in Brings(reach, ToIterate(down[n][1])) <=> k \in reach[n] /\ n < k
           /\ k \in Brings(reach, ToIterate(n)) <=> k \in reach[n]
           /\ n \in reach[n]
<1>1. n \in Key /\ k \in Key /\ n # NULL /\ n \in Nat /\ k \in Nat /\ 0 \in Dir /\ 1 \in Dir
  BY MapAssumption DEF LinksOK, Dir
<1>2. k < n \/ k = n \/ n < k
  BY <1>1
<1>3. n \in reach[n]
  BY DEF Tree, EachReached
<1>4. ASSUME NEW d \in Dir
      PROVE  k \in Brings(reach, ToIterate(down[n][d])) <=> k \in reach[n] /\ k # n /\ Side(n, k) = d
  <2>1. CASE down[n][d] = NULL
    <3>1. ~(k \in reach[n] /\ k # n /\ Side(n, k) = d)
      BY <2>1 DEF Tree, ReachedBelow
    <3> QED
      BY <2>1, <3>1 DEF Brings, ToIterate
  <2>2. CASE down[n][d] # NULL
    <3>1. reach[down[n][d]] = Behind(reach, n, d)
      BY <2>2 DEF Tree, ChildrenReached
    <3>2. Brings(reach, ToIterate(down[n][d])) = entries \cap reach[down[n][d]]
      BY <2>2 DEF Brings, ToIterate
    <3> QED
      BY <3>1, <3>2 DEF Behind
  <2> QED
    BY <2>1, <2>2
<1>5. /\ k # n /\ Side(n, k) = 0 <=> k < n
      /\ k # n /\ Side(n, k) = 1 <=> n < k
  BY <1>1 DEF Side
<1>6. k \in Brings(reach, ToCallBack(n)) <=> k = n
  BY <1>1 DEF Brings, ToCallBack
<1>7. k \in Brings(reach, ToIterate(n)) <=> k \in reach[n]
  BY <1>1 DEF Brings, ToIterate
<1> QED
  BY <1>1, <1>3, <1>4, <1>5, <1>6, <1>7

\* The frame of a node is replaced by those of its children and of the callback.
LEMMA IterateDown ==
    ASSUME LinksOK, NEW reach \in [Key -> SUBSET Key], Tree(reach), FramesOn(reach),
           phase = "iterate", frames # <<>>, NEW n \in entries, frames[1] = ToIterate(n),
           frames' = <<ToIterate(down[n][0]), ToCallBack(n), ToIterate(down[n][1])>> \o Tail(frames),
           UNCHANGED <<links, doing, phase, visited>>
    PROVE  FramesOn(reach)'
<1> PICK q : q = frames
  OBVIOUS
<1> PICK t : t = frames'
  OBVIOUS
<1> PICK a : a = ToIterate(down[n][0])
  OBVIOUS
<1> PICK b : b = ToCallBack(n)
  OBVIOUS
<1> PICK c : c = ToIterate(down[n][1])
  OBVIOUS
<1>1. q \in Seq(Frame) /\ q # <<>> /\ q[1] = ToIterate(n) /\ t = <<a, b, c>> \o Tail(q)
  BY DEF FramesOn
<1>2. a \in Frame /\ b \in Frame /\ c \in Frame
  <2>1. \A d \in Dir : down[n][d] \in entries \cup {NULL}
    BY DEF Tree, ChildrenReached
  <2> QED
    BY <2>1 DEF Frame, ToIterate, ToCallBack, Dir
<1>3. /\ t \in Seq(Frame) /\ Len(t) = Len(q) + 2 /\ t[1] = a /\ t[2] = b /\ t[3] = c
      /\ \A i \in 4..Len(t) : t[i] = q[i - 2] /\ i - 2 \in 2..Len(q)
      /\ \A i \in 2..Len(q) : t[i + 2] = q[i] /\ i + 2 \in 4..Len(t)
      /\ Len(q) \in Nat \ {0}
  BY <1>1, <1>2, FrontReplaced
<1>4. ASSUME NEW f \in Frame PROVE Brings(reach, f) \subseteq entries
  BY <1>4 DEF Brings, Frame
<1>5. ASSUME NEW k \in entries
      PROVE  /\ k \in Brings(reach, a) <=> k \in Brings(reach, q[1]) /\ k < n
             /\ k \in Brings(reach, b) <=> k = n
             /\ k \in Brings(reach, c) <=> k \in Brings(reach, q[1]) /\ n < k
             /\ n \in Brings(reach, q[1])
  BY <1>1, NodeBrings
<1>6. \A k \in entries : k \in Nat
  BY MapAssumption DEF LinksOK
<1>7. \A i \in 1..Len(t) : t[i] \in Frame
  BY <1>3
\* Which frame of before a frame comes from
<1> DEFINE from(i) == IF i <= 3 THEN 1 ELSE i - 2
<1>8. ASSUME NEW i \in 1..Len(t), NEW k \in Brings(reach, t[i])
      PROVE  from(i) \in 1..Len(q) /\ k \in Brings(reach, q[from(i)]) /\ k \in entries
  <2>1. k \in entries
    BY <1>4, <1>7
  <2>2. CASE i \in 1..3
    <3>1. i = 1 \/ i = 2 \/ i = 3
      BY <2>2
    <3> QED
      BY <3>1, <2>1, <1>3, <1>5
  <2>3. CASE i \notin 1..3
    <3>1. i \in 4..Len(t)
      BY <2>3, <1>3
    <3> QED
      BY <3>1, <2>1, <1>3
  <2> QED
    BY <2>2, <2>3
<1>9. ASSUME NEW k \in entries
      PROVE  VisitedAlready(k) \/ \E i \in 1..Len(t) : k \in Brings(reach, t[i])
  <2>1. CASE VisitedAlready(k)
    BY <2>1
  <2>2. CASE k \in Brings(reach, q[1])
    <3>1. k < n \/ k = n \/ n < k
      BY <1>6
    <3>2. 1 \in 1..Len(t) /\ 2 \in 1..Len(t) /\ 3 \in 1..Len(t)
      BY <1>3
    <3> QED
      BY <3>1, <3>2, <2>2, <1>3, <1>5
  <2>3. ASSUME NEW j \in 2..Len(q), k \in Brings(reach, q[j])
        PROVE  \E i \in 1..Len(t) : k \in Brings(reach, t[i])
    <3>1. j + 2 \in 1..Len(t) /\ t[j + 2] = q[j]
      BY <1>3
    <3> QED
      BY <3>1, <2>3
  <2>4. VisitedAlready(k) \/ \E j \in 1..Len(q) : k \in Brings(reach, q[j])
    BY DEF FramesOn
  <2>5. \A j \in 1..Len(q) : j = 1 \/ j \in 2..Len(q)
    BY <1>3
  <2> QED
    BY <2>1, <2>2, <2>3, <2>4, <2>5
<1>10. ASSUME NEW i \in 1..Len(visited), NEW j \in 1..Len(t), NEW k \in Brings(reach, t[j])
       PROVE  visited[i] < k
  BY <1>8 DEF FramesOn
<1>11. ASSUME NEW i \in 1..Len(t), NEW j \in 1..Len(t), i < j,
              NEW k \in Brings(reach, t[i]), NEW l \in Brings(reach, t[j])
       PROVE  k < l
  <2>1. /\ from(i) \in 1..Len(q) /\ k \in Brings(reach, q[from(i)]) /\ k \in entries
        /\ from(j) \in 1..Len(q) /\ l \in Brings(reach, q[from(j)]) /\ l \in entries
    BY <1>8
  <2>2. CASE from(i) < from(j)
    <3>1. \A f, g \in 1..Len(q) : f < g =>
             \A x \in Brings(reach, q[f]), y \in Brings(reach, q[g]) : x < y
      BY DEF FramesOn
    <3> HIDE DEF from
    <3> QED
      BY <3>1, <2>1, <2>2
  <2>3. CASE ~(from(i) < from(j))
    <3>1. (i = 1 /\ j = 2) \/ (i = 1 /\ j = 3) \/ (i = 2 /\ j = 3)
      BY <2>3, <1>3, <1>11
    <3>2. k \in Nat /\ l \in Nat /\ n \in Nat
      BY <2>1, <1>6
    <3> QED
      BY <3>1, <3>2, <2>1, <1>3, <1>5
  <2> QED
    BY <2>2, <2>3
<1>12. \A i : Brings(reach, frames[i])' = Brings(reach, t[i])
  BY DEF Brings, links
<1>13. /\ entries' = entries /\ visited' = visited /\ doing' = doing /\ phase' = phase /\ frames' = t
  BY DEF links
<1>14. Frame' = Frame /\ \A k : VisitedAlready(k)' = VisitedAlready(k)
  BY <1>13 DEF Frame, VisitedAlready
<1>15. /\ doing = [op |-> "iterate", key |-> NULL] /\ visited \in Seq(entries)
       /\ \A i, j \in 1..Len(visited) : i < j => visited[i] < visited[j]
  BY DEF FramesOn
<1> SUFFICES /\ doing' = [op |-> "iterate", key |-> NULL]
             /\ frames' \in Seq(Frame') /\ visited' \in Seq(entries')
             /\ \A k \in entries' : VisitedAlready(k)'
                    \/ \E i \in 1..Len(frames') : k \in Brings(reach, frames[i])'
             /\ \A i, j \in 1..Len(visited') : i < j => visited'[i] < visited'[j]
             /\ \A i \in 1..Len(visited'), j \in 1..Len(frames') :
                    \A k \in Brings(reach, frames[j])' : visited'[i] < k
             /\ \A i, j \in 1..Len(frames') : i < j =>
                    \A k \in Brings(reach, frames[i])', l \in Brings(reach, frames[j])' : k < l
  BY DEF FramesOn
<1> HIDE DEF from
<1>16. frames' \in Seq(Frame')
  BY <1>3, <1>13, <1>14
<1>17. ASSUME NEW k \in entries'
       PROVE  VisitedAlready(k)' \/ \E i \in 1..Len(frames') : k \in Brings(reach, frames[i])'
  <2>1. k \in entries /\ Len(frames') = Len(t)
    BY <1>13
  <2>2. VisitedAlready(k) => VisitedAlready(k)'
    BY <1>13 DEF VisitedAlready
  <2>3. VisitedAlready(k) \/ \E i \in 1..Len(t) : k \in Brings(reach, t[i])
    BY <2>1, <1>9
  <2> QED
    BY <2>1, <2>2, <2>3, <1>12
<1>18. ASSUME NEW i \in 1..Len(visited'), NEW j \in 1..Len(frames'),
              NEW k \in Brings(reach, frames[j])'
       PROVE  visited'[i] < k
  BY <1>10, <1>12, <1>13
<1>19. ASSUME NEW i \in 1..Len(frames'), NEW j \in 1..Len(frames'), i < j,
              NEW k \in Brings(reach, frames[i])', NEW l \in Brings(reach, frames[j])'
       PROVE  k < l
  <2>1. i \in 1..Len(t) /\ j \in 1..Len(t)
    BY <1>13
  <2>2. k \in Brings(reach, t[i]) /\ l \in Brings(reach, t[j])
    BY <1>12
  <2> QED
    BY <2>1, <2>2, <1>11, <1>19
<1> QED
  BY <1>13, <1>15, <1>16, <1>17, <1>18, <1>19

\* The frame of no node, or of a callback, is taken away.
LEMMA IteratePast ==
    ASSUME LinksOK, NEW reach \in [Key -> SUBSET Key], Tree(reach), FramesOn(reach),
           phase = "iterate", frames # <<>>, frames' = Tail(frames),
           UNCHANGED <<links, doing, phase>>,
           \/ frames[1] = ToIterate(NULL) /\ visited' = visited
           \/ \E n \in entries : frames[1] = ToCallBack(n) /\ visited' = Append(visited, n)
    PROVE  FramesOn(reach)'
<1> PICK q : q = frames
  OBVIOUS
<1> PICK t : t = frames'
  OBVIOUS
<1> PICK v : v = visited
  OBVIOUS
<1> PICK w : w = visited'
  OBVIOUS
<1>1. /\ q \in Seq(Frame) /\ q # <<>> /\ t = Tail(q) /\ v \in Seq(entries)
      /\ doing = [op |-> "iterate", key |-> NULL]
      /\ \A i, j \in 1..Len(v) : i < j => v[i] < v[j]
      /\ \A i \in 1..Len(v), j \in 1..Len(q) : \A k \in Brings(reach, q[j]) : v[i] < k
      /\ \A i, j \in 1..Len(q) : i < j =>
             \A k \in Brings(reach, q[i]), l \in Brings(reach, q[j]) : k < l
      /\ \A k \in entries :
             (\E i \in 1..Len(v) : v[i] = k) \/ \E i \in 1..Len(q) : k \in Brings(reach, q[i])
  BY DEF FramesOn, VisitedAlready
<1>2. /\ t \in Seq(Frame) /\ Len(t) = Len(q) - 1 /\ Len(q) \in Nat \ {0} /\ 1 \in 1..Len(q)
      /\ \A i \in 1..Len(t) : t[i] = q[i + 1] /\ i + 1 \in 2..Len(q) /\ i + 1 \in 1..Len(q)
      /\ \A i \in 2..Len(q) : q[i] = t[i - 1] /\ i - 1 \in 1..Len(t)
  BY <1>1
<1>3. \A i \in 1..Len(q) : i = 1 \/ i \in 2..Len(q)
  BY <1>2
<1>4. /\ entries' = entries /\ doing' = doing /\ phase' = phase /\ frames' = t
      /\ Frame' = Frame /\ \A i : Brings(reach, frames[i])' = Brings(reach, t[i])
  BY DEF links, Frame, Brings
<1>5. ASSUME NEW i \in 1..Len(t), NEW j \in 1..Len(t), i < j,
             NEW k \in Brings(reach, t[i]), NEW l \in Brings(reach, t[j])
      PROVE  k < l
  <2>1. i + 1 < j + 1 /\ i + 1 \in 1..Len(q) /\ j + 1 \in 1..Len(q)
    BY <1>2, <1>5
  <2>2. k \in Brings(reach, q[i + 1]) /\ l \in Brings(reach, q[j + 1])
    BY <1>2
  <2> QED
    BY <2>1, <2>2, <1>1
<1>6. ASSUME NEW k \in entries
      PROVE  \/ \E i \in 1..Len(v) : v[i] = k
             \/ k \in Brings(reach, q[1])
             \/ \E i \in 1..Len(t) : k \in Brings(reach, t[i])
  <2>1. (\E i \in 1..Len(v) : v[i] = k) \/ \E i \in 1..Len(q) : k \in Brings(reach, q[i])
    BY <1>1
  <2>2. ASSUME NEW i \in 2..Len(q), k \in Brings(reach, q[i])
        PROVE  \E j \in 1..Len(t) : k \in Brings(reach, t[j])
    <3>1. i - 1 \in 1..Len(t) /\ q[i] = t[i - 1]
      BY <1>2
    <3> QED
      BY <3>1, <2>2
  <2> QED
    BY <2>1, <2>2, <1>3
<1>7. /\ w \in Seq(entries)
      /\ \A i, j \in 1..Len(w) : i < j => w[i] < w[j]
      /\ \A i \in 1..Len(w), j \in 1..Len(t) : \A k \in Brings(reach, t[j]) : w[i] < k
      /\ \A k \in entries :
             (\E i \in 1..Len(w) : w[i] = k) \/ \E i \in 1..Len(t) : k \in Brings(reach, t[i])
  <2>1. CASE q[1] = ToIterate(NULL) /\ w = v
    <3>1. Brings(reach, q[1]) = {}
      BY <2>1 DEF Brings, ToIterate
    <3> QED
      BY <3>1, <2>1, <1>1, <1>2, <1>6
  <2>2. ASSUME NEW n \in entries, q[1] = ToCallBack(n), w = Append(v, n)
        PROVE  /\ w \in Seq(entries)
               /\ \A i, j \in 1..Len(w) : i < j => w[i] < w[j]
               /\ \A i \in 1..Len(w), j \in 1..Len(t) : \A k \in Brings(reach, t[j]) : w[i] < k
               /\ \A k \in entries :
                      (\E i \in 1..Len(w) : w[i] = k) \/ \E i \in 1..Len(t) : k \in Brings(reach, t[i])
    <3>1. Brings(reach, q[1]) = {n}
      BY <2>2, MapAssumption DEF Brings, ToCallBack, LinksOK
    <3>2. /\ w \in Seq(entries) /\ Len(w) = Len(v) + 1 /\ Len(v) \in Nat /\ w[Len(w)] = n
          /\ Len(w) \in 1..Len(w)
          /\ \A i \in 1..Len(v) : w[i] = v[i] /\ i \in 1..Len(w)
          /\ \A i \in 1..Len(w) : i \in 1..Len(v) \/ i = Len(w)
      BY <2>2, <1>1
    <3>3. \A i \in 1..Len(v) : v[i] < n
      BY <3>1, <1>1, <1>2
    <3>4. ASSUME NEW i \in 1..Len(w), NEW j \in 1..Len(w), i < j
          PROVE  w[i] < w[j]
      <4>1. i \in 1..Len(v) /\ w[i] = v[i]
        BY <3>2, <3>4
      <4>2. CASE j \in 1..Len(v)
        <5>1. v[i] < v[j] /\ w[j] = v[j]
          BY <4>1, <4>2, <3>2, <3>4, <1>1
        <5> QED
          BY <5>1, <4>1
      <4>3. CASE j = Len(w)
        BY <4>1, <4>3, <3>2, <3>3
      <4> QED
        BY <4>2, <4>3, <3>2
    <3>5. ASSUME NEW i \in 1..Len(w), NEW j \in 1..Len(t), NEW k \in Brings(reach, t[j])
          PROVE  w[i] < k
      <4>1. k \in Brings(reach, q[j + 1]) /\ j + 1 \in 1..Len(q) /\ 1 < j + 1
        BY <1>2
      <4>2. n < k
        BY <4>1, <3>1, <1>1, <1>2
      <4> QED
        BY <4>1, <4>2, <3>2, <1>1
    <3>6. ASSUME NEW k \in entries
          PROVE  (\E i \in 1..Len(w) : w[i] = k) \/ \E i \in 1..Len(t) : k \in Brings(reach, t[i])
      BY <3>1, <3>2, <1>6
    <3> QED
      BY <3>2, <3>4, <3>5, <3>6
  <2> QED
    BY <2>1, <2>2
<1> SUFFICES /\ doing' = [op |-> "iterate", key |-> NULL]
             /\ frames' \in Seq(Frame') /\ visited' \in Seq(entries')
             /\ \A k \in entries' : VisitedAlready(k)'
                    \/ \E i \in 1..Len(frames') : k \in Brings(reach, frames[i])'
             /\ \A i, j \in 1..Len(visited') : i < j => visited'[i] < visited'[j]
             /\ \A i \in 1..Len(visited'), j \in 1..Len(frames') :
                    \A k \in Brings(reach, frames[j])' : visited'[i] < k
             /\ \A i, j \in 1..Len(frames') : i < j =>
                    \A k \in Brings(reach, frames[i])', l \in Brings(reach, frames[j])' : k < l
  BY DEF FramesOn
<1>8. ASSUME NEW k \in entries'
      PROVE  VisitedAlready(k)' \/ \E i \in 1..Len(frames') : k \in Brings(reach, frames[i])'
  <2>1. k \in entries /\ Len(frames') = Len(t)
    BY <1>4
  <2>2. (\E i \in 1..Len(w) : w[i] = k) => VisitedAlready(k)'
    BY DEF VisitedAlready
  <2>3. (\E i \in 1..Len(w) : w[i] = k) \/ \E i \in 1..Len(t) : k \in Brings(reach, t[i])
    BY <2>1, <1>7
  <2> QED
    BY <2>1, <2>2, <2>3, <1>4
<1>9. ASSUME NEW i \in 1..Len(frames'), NEW j \in 1..Len(frames'), i < j,
             NEW k \in Brings(reach, frames[i])', NEW l \in Brings(reach, frames[j])'
      PROVE  k < l
  <2>1. i \in 1..Len(t) /\ j \in 1..Len(t)
    BY <1>4
  <2>2. k \in Brings(reach, t[i]) /\ l \in Brings(reach, t[j])
    BY <1>4
  <2> QED
    BY <2>1, <2>2, <1>5, <1>9
<1>10. ASSUME NEW i \in 1..Len(visited'), NEW j \in 1..Len(frames'),
              NEW k \in Brings(reach, frames[j])'
       PROVE  visited'[i] < k
  <2>1. i \in 1..Len(w) /\ j \in 1..Len(t) /\ k \in Brings(reach, t[j])
    BY <1>4
  <2>2. w[i] < k
    BY <2>1, <1>7
  <2> QED
    BY <2>2
<1>11. /\ doing' = [op |-> "iterate", key |-> NULL]
       /\ frames' \in Seq(Frame') /\ visited' \in Seq(entries')
       /\ \A i, j \in 1..Len(visited') : i < j => visited'[i] < visited'[j]
  BY <1>1, <1>2, <1>4, <1>7
<1> QED
  BY <1>8, <1>9, <1>10, <1>11
--------------------------------------------------------------------------------
(* The invariant *)

\* What holds between any two turns of the loops of the map
MapInv ==
    /\ LinksOK /\ DoingOK /\ FixOn /\ NoRedPair
    /\ \E reach \in [Key -> SUBSET Key] : Tree(reach) /\ SearchOn(reach) /\ FramesOn(reach)
    /\ \E height \in [Key -> Nat] : Even(height)

LEMMA LinksWait ==
    ASSUME LinksOK, NEW reach \in [Key -> SUBSET Key], Tree(reach), FixOn, NoRedPair,
           NEW height \in [Key -> Nat], Even(height),
           ~Fixing, phase' \notin {"fix", "turned"}, UNCHANGED links
    PROVE  LinksOK' /\ Tree(reach)' /\ FixOn' /\ NoRedPair' /\ Even(height)'
<1>1. /\ entries' = entries /\ top' = top /\ up' = up /\ down' = down /\ color' = color
  BY DEF links
<1>2. LinksOK'
  BY <1>1 DEF LinksOK
<1>3. Tree(reach)'
  BY <1>1 DEF Tree, TopReached, EachReached, ChildrenReached, ParentsLink, ReachedBelow, Comparable,
              Behind, Side
<1>4. FixOn' /\ NoRedPair'
  BY <1>1 DEF FixOn, NoRedPair, Fixing
<1>5. Even(height)'
  BY <1>1 DEF Even, BlackBelow, BlackOf
<1> QED
  BY <1>2, <1>3, <1>4, <1>5

LEMMA MapStarts == MapInit => MapInv
<1> SUFFICES ASSUME MapInit
             PROVE  MapInv
  OBVIOUS
<1>1. LinksOK
  BY DEF MapInit, LinksOK, Dir
<1>2. DoingOK /\ FixOn /\ NoRedPair
  BY DEF MapInit, DoingOK, FixOn, NoRedPair, Fixing
<1> PICK reach \in [Key -> SUBSET Key] : reach = [k \in Key |-> {}]
  OBVIOUS
<1>3. Tree(reach) /\ SearchOn(reach) /\ FramesOn(reach)
  BY DEF MapInit, Tree, TopReached, EachReached, ChildrenReached, ParentsLink, ReachedBelow,
         Comparable, SearchOn, FramesOn
<1> PICK height \in [Key -> Nat] : height = [k \in Key |-> 0]
  OBVIOUS
<1>4. Even(height)
  BY DEF MapInit, Even
<1> QED
  BY <1>1, <1>2, <1>3, <1>4 DEF MapInv

LEMMA SearchKeeps == MapInv /\ (Search \/ Insert) => MapInv'
<1> SUFFICES ASSUME MapInv, Search \/ Insert
             PROVE  MapInv'
  OBVIOUS
<1> PICK reach \in [Key -> SUBSET Key] : Tree(reach) /\ SearchOn(reach) /\ FramesOn(reach)
  BY DEF MapInv
<1> PICK height \in [Key -> Nat] : Even(height)
  BY DEF MapInv
<1>1. LinksOK /\ DoingOK /\ FixOn /\ NoRedPair
  BY DEF MapInv
\* What is left to show of a step that leaves the tree as it is
<1>2. ASSUME ~Fixing, phase' \notin {"fix", "turned", "iterate"}, UNCHANGED links,
             DoingOK', SearchOn(reach)'
      PROVE  MapInv'
  <2>1. LinksOK' /\ Tree(reach)' /\ FixOn' /\ NoRedPair' /\ Even(height)'
    BY <1>1, <1>2, LinksWait
  <2>2. FramesOn(reach)'
    BY <1>2 DEF FramesOn
  <2> QED
    BY <2>1, <2>2, <1>2 DEF MapInv
<1>3. ASSUME NEW op \in {"set", "get"}, NEW k \in Key, CallSearch(op, k)
      PROVE  MapInv'
  <2>1. /\ phase = "rest" /\ phase' = "search" /\ doing' = [op |-> op, key |-> k] /\ at' = top
        /\ above' = NULL /\ UNCHANGED links
    BY <1>1, <1>3 DEF CallSearch, DoingOK
  <2>2. DoingOK'
    BY <2>1 DEF DoingOK, Idle
  <2>3. SearchOn(reach)'
    BY <2>1 DEF SearchOn, Tree, TopReached, links
  <2> QED
    BY <2>1, <2>2, <2>3, <1>2 DEF Fixing
<1>4. CASE Descend
  <2>1. /\ phase = "search" /\ phase' = "search" /\ doing' = doing
        /\ at \notin {NULL, doing.key} /\ above' = at /\ at' = down[at][Side(at, doing.key)]
        /\ UNCHANGED links
    BY <1>4 DEF Descend
  <2>2. DoingOK'
    BY <2>1, <1>1 DEF DoingOK
  <2>3. at \in entries /\ doing.key \in reach[at] /\ at \in Key /\ doing.key \in Key
    BY <2>1, <1>1 DEF SearchOn, DoingOK, LinksOK
  <2>4. Side(at, doing.key) \in Dir
    BY <2>3, SideKnown
  <2>5. at' # NULL => at' \in entries /\ doing.key \in reach[at']
    BY <2>1, <2>3, <2>4 DEF Tree, ChildrenReached, Behind
  <2>6. SearchOn(reach)'
    BY <2>1, <2>3, <2>5 DEF SearchOn, links, Side
  <2> QED
    BY <2>1, <2>2, <2>6, <1>2 DEF Fixing
<1>5. CASE SearchEnds
  <2>1. /\ phase = "search" /\ phase' = "rest" /\ doing' = Idle /\ at' = NULL /\ above' = NULL
        /\ frames' = <<>> /\ visited' = <<>> /\ UNCHANGED links
    BY <1>5 DEF SearchEnds, Returns
  <2>2. DoingOK' /\ SearchOn(reach)'
    BY <2>1 DEF DoingOK, SearchOn, Idle
  <2> QED
    BY <2>1, <2>2, <1>2 DEF Fixing
<1>6. CASE Insert
  <2>1. phase' = "fix" /\ phase = "search" /\ doing' = doing
    BY <1>6 DEF Insert
  <2>2. DoingOK' /\ \A r : SearchOn(r)' /\ FramesOn(r)'
    BY <2>1, <1>1 DEF DoingOK, SearchOn, FramesOn
  <2>3. LinksOK' /\ \E r \in [Key -> SUBSET Key] : Tree(r)'
    BY <1>1, <1>6, InsertKeeps
  <2>4. FixOn' /\ NoRedPair' /\ \E h \in [Key -> Nat] : Even(h)'
    BY <1>1, <1>6, InsertColors
  <2> QED
    BY <2>2, <2>3, <2>4 DEF MapInv
<1> QED
  BY <1>3, <1>4, <1>5, <1>6 DEF Search

LEMMA FixupKeeps == MapInv /\ Fixup => MapInv'
<1> SUFFICES ASSUME MapInv, Fixup
             PROVE  MapInv'
  OBVIOUS
<1> PICK reach \in [Key -> SUBSET Key] : Tree(reach) /\ SearchOn(reach) /\ FramesOn(reach)
  BY DEF MapInv
<1> PICK height \in [Key -> Nat] : Even(height)
  BY DEF MapInv
<1>1. LinksOK /\ DoingOK /\ FixOn /\ NoRedPair
  BY DEF MapInv
<1>2. /\ Recolor \/ Straighten \/ Restructure => /\ phase \in {"fix", "turned"}
                                                /\ phase' \in {"fix", "turned"} /\ doing' = doing
      /\ FixEnds => /\ phase' = "rest" /\ doing' = Idle /\ at' = NULL /\ above' = NULL
                    /\ frames' = <<>> /\ visited' = <<>>
  BY DEF Recolor, Straighten, Restructure, FixEnds, FixingOn, FixWaits, Returns
<1>3. DoingOK' /\ \A r : SearchOn(r)' /\ FramesOn(r)'
  BY <1>1, <1>2 DEF DoingOK, SearchOn, FramesOn, Fixup
<1>4. CASE Recolor
  <2>1. LinksOK' /\ Tree(reach)' /\ FixOn' /\ NoRedPair' /\ \E h \in [Key -> Nat] : Even(h)'
    BY <1>1, <1>4, RecolorKeeps
  <2> QED
    BY <2>1, <1>3 DEF MapInv
<1>5. CASE Straighten
  <2>1. /\ LinksOK' /\ (\E r \in [Key -> SUBSET Key] : Tree(r)') /\ FixOn' /\ NoRedPair'
        /\ Even(height)'
    BY <1>1, <1>5, StraightenKeeps
  <2> QED
    BY <2>1, <1>3 DEF MapInv
<1>6. CASE Restructure
  <2>1. /\ LinksOK' /\ (\E r \in [Key -> SUBSET Key] : Tree(r)') /\ FixOn' /\ NoRedPair'
        /\ Even(height)'
    BY <1>1, <1>6, RestructureKeeps
  <2> QED
    BY <2>1, <1>3 DEF MapInv
<1>7. CASE FixEnds
  <2>1. LinksOK' /\ Tree(reach)' /\ FixOn' /\ NoRedPair' /\ Even(height)'
    BY <1>1, <1>7, FixEndsKeeps
  <2> QED
    BY <2>1, <1>3 DEF MapInv
<1> QED
  BY <1>4, <1>5, <1>6, <1>7 DEF Fixup

LEMMA IterateKeeps == MapInv /\ Iterate => MapInv'
<1> SUFFICES ASSUME MapInv, Iterate
             PROVE  MapInv'
  OBVIOUS
<1> PICK reach \in [Key -> SUBSET Key] : Tree(reach) /\ SearchOn(reach) /\ FramesOn(reach)
  BY DEF MapInv
<1> PICK height \in [Key -> Nat] : Even(height)
  BY DEF MapInv
<1>1. LinksOK /\ DoingOK /\ FixOn /\ NoRedPair
  BY DEF MapInv
<1>2. /\ phase \in {"rest", "iterate"} /\ phase' \in {"rest", "iterate"} /\ UNCHANGED links
      /\ DoingOK'
  BY <1>1 DEF Iterate, CallIterate, IterateNode, IterateEnds, Returns, DoingOK, Idle
<1>3. ASSUME FramesOn(reach)'
      PROVE  MapInv'
  <2>1. LinksOK' /\ Tree(reach)' /\ FixOn' /\ NoRedPair' /\ Even(height)'
    BY <1>1, <1>2, LinksWait DEF Fixing
  <2>2. SearchOn(reach)'
    BY <1>2 DEF SearchOn
  <2> QED
    BY <2>1, <2>2, <1>2, <1>3 DEF MapInv
<1>4. CASE CallIterate
  <2>1. /\ doing' = [op |-> "iterate", key |-> NULL] /\ frames' = <<ToIterate(top)>>
        /\ visited' = <<>> /\ entries' = entries
    BY <1>1, <1>4 DEF CallIterate, DoingOK, links
  <2>2. ToIterate(top) \in Frame
    BY DEF Tree, TopReached, Frame, ToIterate
  <2>3. Brings(reach, ToIterate(top)) = entries
    BY DEF Tree, TopReached, Brings, ToIterate, LinksOK, MapInv
  <2>4. PICK t : t = frames'
    OBVIOUS
  <2>5. t \in Seq(Frame) /\ Len(t) = 1 /\ t[1] = ToIterate(top) /\ \A i \in 1..Len(t) : i = 1
    BY <2>1, <2>2, <2>4
  <2>6. Frame' = Frame /\ \A i : Brings(reach, frames[i])' = Brings(reach, t[i])
    BY <2>1, <2>4 DEF Frame, Brings
  <2>7. /\ frames' \in Seq(Frame') /\ visited' \in Seq(entries') /\ Len(visited') = 0
        /\ Len(frames') = 1 /\ 1 \in 1..Len(frames')
    BY <2>1, <2>4, <2>5, <2>6
  <2>8. \A k \in entries' : \E i \in 1..Len(frames') : k \in Brings(reach, frames[i])'
    BY <2>1, <2>3, <2>5, <2>6, <2>7
  <2>9. FramesOn(reach)'
    BY <2>1, <2>7, <2>8 DEF FramesOn
  <2> QED
    BY <2>9, <1>3
<1>5. CASE IterateNode
  <2> PICK f : f = frames[1]
    OBVIOUS
  <2>1. /\ phase = "iterate" /\ frames # <<>> /\ Head(frames) = f
        /\ UNCHANGED <<links, doing, phase>>
    BY <1>5 DEF IterateNode, FramesOn
  <2>2. f \in Frame
    <3>1. frames \in Seq(Frame) /\ frames # <<>>
      BY <2>1 DEF FramesOn
    <3> QED
      BY <3>1
  <2>3. \/ f = ToIterate(NULL) /\ frames' = Tail(frames) /\ visited' = visited
        \/ /\ f = ToIterate(f.node) /\ f.node # NULL /\ visited' = visited
           /\ frames' = <<ToIterate(down[f.node][0]), ToCallBack(f.node), ToIterate(down[f.node][1])>>
                            \o Tail(frames)
        \/ f = ToCallBack(f.node) /\ frames' = Tail(frames) /\ visited' = Append(visited, f.node)
    BY <1>5, <2>1 DEF IterateNode
  <2>4. CASE f = ToIterate(NULL) /\ frames' = Tail(frames) /\ visited' = visited
    <3>1. FramesOn(reach)'
      BY <2>1, <2>4, <1>1, IteratePast
    <3> QED
      BY <3>1, <1>3
  <2>5. ASSUME f = ToIterate(f.node), f.node # NULL, visited' = visited,
               frames' = <<ToIterate(down[f.node][0]), ToCallBack(f.node), ToIterate(down[f.node][1])>>
                             \o Tail(frames)
        PROVE  MapInv'
    <3>1. f.node \in entries
      BY <2>2, <2>5 DEF Frame
    <3>2. UNCHANGED <<links, doing, phase, visited>>
      BY <2>1, <2>5
    <3>3. FramesOn(reach)'
      BY <2>1, <2>5, <3>1, <3>2, <1>1, IterateDown
    <3> QED
      BY <3>3, <1>3
  <2>6. CASE f = ToCallBack(f.node) /\ frames' = Tail(frames) /\ visited' = Append(visited, f.node)
    <3>1. f.node \in entries
      <4>1. f.does = "callback"
        BY <2>6 DEF ToCallBack
      <4> QED
        BY <4>1, <2>2 DEF Frame
    <3>2. FramesOn(reach)'
      BY <2>1, <2>6, <3>1, <1>1, IteratePast
    <3> QED
      BY <3>2, <1>3
  <2> QED
    BY <2>3, <2>4, <2>5, <2>6
<1>6. CASE IterateEnds
  <2>1. FramesOn(reach)'
    BY <1>6 DEF IterateEnds, Returns, FramesOn
  <2> QED
    BY <2>1, <1>3
<1> QED
  BY <1>4, <1>5, <1>6 DEF Iterate

LEMMA MapWaits == MapInv /\ UNCHANGED mapVars => MapInv'
<1> SUFFICES ASSUME MapInv, UNCHANGED mapVars
             PROVE  MapInv'
  OBVIOUS
<1>1. /\ entries' = entries /\ top' = top /\ up' = up /\ down' = down /\ color' = color
      /\ doing' = doing /\ phase' = phase /\ at' = at /\ above' = above /\ frames' = frames
      /\ visited' = visited
  BY DEF mapVars, links
<1>2. LinksOK' /\ DoingOK' /\ FixOn' /\ NoRedPair'
  BY <1>1 DEF MapInv, LinksOK, DoingOK, FixOn, NoRedPair, Fixing, Parent, Grandparent, IsRed, Idle
<1> PICK reach \in [Key -> SUBSET Key] : Tree(reach) /\ SearchOn(reach) /\ FramesOn(reach)
  BY DEF MapInv
<1> PICK height \in [Key -> Nat] : Even(height)
  BY DEF MapInv
<1>3. Tree(reach)'
  BY <1>1 DEF Tree, TopReached, EachReached, ChildrenReached, ParentsLink, ReachedBelow, Comparable,
              Behind, Side
<1>4. SearchOn(reach)'
  BY <1>1 DEF SearchOn, Side
<1>5. FramesOn(reach)'
  BY <1>1 DEF FramesOn, Frame, Brings, VisitedAlready
<1>6. Even(height)'
  BY <1>1 DEF Even, BlackBelow, BlackOf
<1> QED
  BY <1>2, <1>3, <1>4, <1>5, <1>6 DEF MapInv

\* Between any two steps of the map its nodes form one search tree whose black nodes
\* are level, in the loop of fixup as well, where one red pair may be on its way up;
\* the search has not gone past its key, and what the iteration has left is in order.
THEOREM MapInvariantHolds == MapSpec => []MapInv
<1>1. MapInit => MapInv
  BY MapStarts
<1>2. MapInv /\ [MapNext]_mapVars => MapInv'
  BY SearchKeeps, FixupKeeps, IterateKeeps, MapWaits DEF MapNext
<1> QED
  BY <1>1, <1>2, PTL DEF MapSpec

\* A red-black tree: a black root, no red node below a red one, and on every way down
\* from a node as many black ones.
RedBlack ==
    ~Fixing =>
        /\ top # NULL => color[top] = "black"
        /\ \A n \in entries \ {top} : ~(color[n] = "red" /\ color[up[n]] = "red")
        /\ \E height \in [Key -> Nat] : Even(height)

\* Whenever fixup has returned, the tree is balanced the way vivid_map.c means it to be.
THEOREM TreeIsRedBlack == MapSpec => []RedBlack
<1>1. MapInv => RedBlack
  BY DEF MapInv, RedBlack, FixOn, NoRedPair, Fixing
<1> QED
  BY <1>1, MapInvariantHolds, PTL
--------------------------------------------------------------------------------
(* The map implements the dictionary. *)

LEMMA DictStarts == MapInit => Dict!Init
  BY DEF MapInit, Dict!Init, Contents, Idle, Dict!Idle

LEMMA SearchAnswers ==
    MapInv /\ (Search \/ Insert) => Dict!Next \/ UNCHANGED <<Contents, doing, reply>>
<1> SUFFICES ASSUME MapInv, Search \/ Insert
             PROVE  Dict!Next \/ UNCHANGED <<Contents, doing, reply>>
  OBVIOUS
<1> PICK reach \in [Key -> SUBSET Key] : Tree(reach) /\ SearchOn(reach) /\ FramesOn(reach)
  BY DEF MapInv
<1>1. LinksOK /\ DoingOK /\ FixOn
  BY DEF MapInv
<1>2. ASSUME NEW op \in {"set", "get"}, NEW k \in Key, CallSearch(op, k)
      PROVE  Dict!Call
  <2>1. /\ doing = Idle /\ doing' = [op |-> op, key |-> k] /\ reply' = NULL
        /\ phase = "rest" /\ phase' = "search" /\ entries' = entries
    BY <1>1, <1>2 DEF CallSearch, DoingOK, links
  <2>2. doing' \in Dict!Calls
    BY <2>1 DEF Dict!Calls
  <2> QED
    BY <2>1, <2>2 DEF Dict!Call, Dict!Idle, Idle, Contents
<1>3. CASE Descend
  BY <1>3 DEF Descend, links, Contents
<1>4. CASE SearchEnds
  <2>1. /\ phase = "search" /\ phase' = "rest" /\ doing' = Idle /\ reply' = at
        /\ entries' = entries /\ at \in {NULL, doing.key}
        /\ Contents = entries /\ Contents' = entries
    BY <1>4 DEF SearchEnds, Returns, links, Contents
  <2>2. doing \in [op : {"set", "get"}, key : Key] /\ doing.key \in Key /\ doing.key # NULL
    BY <2>1, <1>1, MapAssumption DEF DoingOK
  <2>3. at = NULL => doing.key \notin entries
    BY <2>1, <1>1, SearchMisses
  <2>4. at # NULL => at = doing.key /\ doing.key \in entries
    BY <2>1 DEF SearchOn
  <2>5. CASE doing.op = "set"
    <3>1. Dict!Set
      BY <2>1, <2>2, <2>3, <2>4, <2>5 DEF Dict!Set, Dict!Returns, Dict!Idle, Idle
    <3> QED
      BY <3>1 DEF Dict!Next
  <2>6. CASE doing.op = "get"
    <3>1. Dict!Get
      BY <2>1, <2>2, <2>3, <2>4, <2>6 DEF Dict!Get, Dict!Returns, Dict!Idle, Idle
    <3> QED
      BY <3>1 DEF Dict!Next
  <2> QED
    BY <2>2, <2>5, <2>6
<1>5. CASE Insert
  <2>1. /\ phase = "search" /\ phase' = "fix" /\ doing' = doing /\ reply' = reply /\ at = NULL
        /\ entries' = entries \cup {doing.key}
    BY <1>5 DEF Insert
  <2>2. doing.key \notin entries
    BY <2>1, <1>1, SearchMisses
  <2> QED
    BY <2>1, <2>2 DEF Contents
<1> QED
  BY <1>2, <1>3, <1>4, <1>5 DEF Search, Dict!Next

LEMMA FixupAnswers == MapInv /\ Fixup => Dict!Next \/ UNCHANGED <<Contents, doing, reply>>
<1> SUFFICES ASSUME MapInv, Fixup
             PROVE  Dict!Next \/ UNCHANGED <<Contents, doing, reply>>
  OBVIOUS
<1>1. FixOn
  BY DEF MapInv
<1>2. CASE Recolor \/ Straighten \/ Restructure
  <2>1. /\ phase \in {"fix", "turned"} /\ phase' \in {"fix", "turned"}
        /\ doing' = doing /\ reply' = reply /\ entries' = entries
    BY <1>2 DEF Recolor, Straighten, Restructure, FixingOn, FixWaits
  <2> QED
    BY <2>1 DEF Contents
<1>3. CASE FixEnds
  <2>1. /\ phase = "fix" /\ phase' = "rest" /\ doing' = Idle /\ reply' = doing.key
        /\ entries' = entries
    BY <1>3 DEF FixEnds, Returns
  <2>2. doing.op = "set" /\ doing.key \in entries
    BY <2>1, <1>1 DEF FixOn, Fixing
  <2>3. Contents' = Contents \cup {doing.key}
    BY <2>1, <2>2 DEF Contents
  <2> QED
    BY <2>1, <2>2, <2>3 DEF Dict!Next, Dict!Set, Dict!Returns, Dict!Idle, Idle
<1> QED
  BY <1>2, <1>3 DEF Fixup

LEMMA IterateAnswers == MapInv /\ Iterate => Dict!Next \/ UNCHANGED <<Contents, doing, reply>>
<1> SUFFICES ASSUME MapInv, Iterate
             PROVE  Dict!Next \/ UNCHANGED <<Contents, doing, reply>>
  OBVIOUS
<1> PICK reach \in [Key -> SUBSET Key] : Tree(reach) /\ SearchOn(reach) /\ FramesOn(reach)
  BY DEF MapInv
<1>1. LinksOK /\ DoingOK
  BY DEF MapInv
<1>2. CASE CallIterate
  <2>1. /\ doing = Idle /\ doing' = [op |-> "iterate", key |-> NULL] /\ reply' = NULL
        /\ phase = "rest" /\ phase' = "iterate" /\ entries' = entries
    BY <1>1, <1>2 DEF CallIterate, DoingOK, links
  <2>2. doing' \in Dict!Calls
    BY <2>1 DEF Dict!Calls
  <2> QED
    BY <2>1, <2>2 DEF Dict!Next, Dict!Call, Dict!Idle, Idle, Contents
<1>3. CASE IterateNode
  BY <1>3 DEF IterateNode, links, Contents
<1>4. CASE IterateEnds
  <2>1. /\ phase = "iterate" /\ phase' = "rest" /\ doing' = Idle /\ reply' = visited
        /\ entries' = entries /\ frames = <<>>
    BY <1>4 DEF IterateEnds, Returns, links
  <2>2. /\ doing.op = "iterate" /\ visited \in Seq(entries)
        /\ \A k \in entries : \E i \in 1..Len(visited) : visited[i] = k
        /\ \A i, j \in 1..Len(visited) : i < j => visited[i] < visited[j]
    BY <2>1 DEF FramesOn, VisitedAlready
  <2>3. {visited[i] : i \in 1..Len(visited)} = entries
    BY <2>2
  <2>4. DOMAIN visited = 1..Len(visited)
    BY <2>2
  <2>5. Dict!ToSet(visited) = entries
    BY <2>3, <2>4 DEF Dict!ToSet
  <2>6. Dict!ToSet(reply') = Contents /\ Contents' = Contents
    BY <2>1, <2>5 DEF Contents
  <2>7. Dict!Ascending(reply')
    BY <2>1, <2>2 DEF Dict!Ascending
  <2> QED
    BY <2>1, <2>2, <2>6, <2>7 DEF Dict!Next, Dict!Iterate, Dict!Returns, Dict!Idle, Idle
<1> QED
  BY <1>2, <1>3, <1>4 DEF Iterate

\* However the tree is turned, the map does what a dictionary does, call by call: a set
\* keeps every other key, finds or makes its own, or has no memory and changes nothing; a
\* get finds the keys that were set and no others; an iteration comes to all of them.
THEOREM MapIsDictionary == MapSpec => ImplementsDictionary
<1>1. MapInit => Dict!Init
  BY DictStarts
<1>2. MapInv /\ [MapNext]_mapVars => [Dict!Next]_<<Contents, doing, reply>>
  <2>1. UNCHANGED mapVars => UNCHANGED <<Contents, doing, reply>>
    BY DEF mapVars, links, Contents
  <2> QED
    BY <2>1, SearchAnswers, FixupAnswers, IterateAnswers DEF MapNext
<1> QED
  BY <1>1, <1>2, MapInvariantHolds, PTL DEF MapSpec, ImplementsDictionary, Dict!Spec
================================================================================
