--------------------------- MODULE SpscRing_proofs ---------------------------
(***************************************************************************)
(* For every capacity the static_assert allows and every set of items: the *)
(* ring's type invariant, its freedom from data races, and that it         *)
(* implements the bounded FIFO queue.  All follow from RingInv, which is   *)
(* inductive: the two stale views and the two indices lie within one lap   *)
(* in the order seenTail, tail, seenHead, head.                            *)
(***************************************************************************)
EXTENDS SpscRing, TLAPS, SequenceTheorems

------------------------------------------------------------------------------
(* Index arithmetic.                                                       *)

(* Masking keeps an index inside the array. *)
LEMMA WrapType ==
    ASSUME NEW i \in Nat, i < 2 * Capacity
    PROVE  Wrap(i) \in Indices
  BY CapacityAssumption DEF Wrap, Indices

(* Distances are smaller than the ring, and zero only between equals. *)
LEMMA DistType ==
    ASSUME NEW a \in Indices, NEW b \in Indices
    PROVE  /\ Dist(a, b) \in Nat
           /\ Dist(a, b) < Capacity
           /\ Dist(a, b) = 0 <=> a = b
  BY CapacityAssumption DEF Dist, Indices

(* The index k steps on is k steps away. *)
LEMMA DistWrap ==
    ASSUME NEW a \in Indices, NEW k \in Nat, k < Capacity
    PROVE  Dist(a, Wrap(a + k)) = k
  BY CapacityAssumption DEF Dist, Wrap, Indices

(* A load returns an index between the last view and the current value. *)
LEMMA VisibleBetween ==
    ASSUME NEW seen \in Indices, NEW current \in Indices,
           NEW t \in Visible(seen, current)
    PROVE  /\ t \in Indices
           /\ Dist(seen, t) + Dist(t, current) = Dist(seen, current)
  <1>1. PICK k \in 0..Dist(seen, current) : t = Wrap(seen + k)
    BY DEF Visible
  <1>2. Dist(seen, current) \in Nat /\ Dist(seen, current) < Capacity
    BY DistType
  <1>3. k \in Nat /\ k < Capacity /\ k <= Dist(seen, current)
    BY <1>2, CapacityAssumption
  <1>4. t \in Indices
    BY <1>1, <1>3, CapacityAssumption DEF Wrap, Indices
  <1>5. Dist(seen, t) + Dist(t, current) = Dist(seen, current)
    BY <1>1, <1>3, CapacityAssumption DEF Wrap, Dist, Indices
  <1> QED BY <1>4, <1>5

(* Advancing the far end by one lengthens a distance that is not full. *)
LEMMA DistAdvanceEnd ==
    ASSUME NEW a \in Indices, NEW b \in Indices, Dist(a, b) < Capacity - 1
    PROVE  Dist(a, Wrap(b + 1)) = Dist(a, b) + 1
  BY CapacityAssumption DEF Dist, Wrap, Indices

(* Advancing the near end by one shortens a distance that is not zero. *)
LEMMA DistAdvanceStart ==
    ASSUME NEW a \in Indices, NEW b \in Indices, a # b
    PROVE  Dist(Wrap(a + 1), b) = Dist(a, b) - 1
  BY CapacityAssumption DEF Dist, Wrap, Indices

------------------------------------------------------------------------------
(* The inductive invariant.                                                *)

LEMMA InitRingInv == Init => RingInv
  BY CapacityAssumption, BlankAssumption
     DEF Init, RingInv, TypeOK, ViewsInOrder, ChecksStayValid, SlotsHoldItems,
         Indices, Values, Dist

(* TypeOK needs no strengthening: every index is masked or was loaded. *)
LEMMA TypeStep == TypeOK /\ [Next]_vars => TypeOK'
  <1> SUFFICES ASSUME TypeOK, [Next]_vars PROVE TypeOK'
    OBVIOUS
  <1> USE DEF TypeOK
  <1>1. ASSUME NEW v \in Items, PushCall(v) PROVE TypeOK'
    BY <1>1 DEF PushCall, consumerVars, Values
  <1>2. CASE PushFull
    BY <1>2, VisibleBetween DEF PushFull, consumerVars
  <1>3. CASE PushRoom
    BY <1>3, VisibleBetween DEF PushRoom, consumerVars
  <1>4. CASE PushWrite
    BY <1>4 DEF PushWrite, consumerVars
  <1>5. CASE PushPublish
    BY <1>5, WrapType, CapacityAssumption DEF PushPublish, consumerVars, Indices
  <1>6. CASE PopEmpty
    BY <1>6, VisibleBetween DEF PopEmpty, producerVars
  <1>7. CASE PopItem
    BY <1>7, VisibleBetween DEF PopItem, producerVars
  <1>8. CASE PopRead
    BY <1>8 DEF PopRead, producerVars
  <1>9. CASE PopPublish
    BY <1>9, WrapType, CapacityAssumption DEF PopPublish, producerVars, Indices
  <1>10. CASE UNCHANGED vars
    BY <1>10 DEF vars, producerVars, consumerVars
  <1> QED
    BY <1>1, <1>2, <1>3, <1>4, <1>5, <1>6, <1>7, <1>8, <1>9, <1>10
       DEF Next, Producer, Consumer

(***************************************************************************)
(* The type invariant of the ring, for every capacity.                     *)
(***************************************************************************)
THEOREM TypeCorrect == Spec => []TypeOK
  <1>1. Init => TypeOK
    BY InitRingInv DEF RingInv
  <1> QED
    BY <1>1, TypeStep, PTL DEF Spec

------------------------------------------------------------------------------
(* The rest of the invariant, one lemma per step that disturbs it.         *)

(* Four indices in order within one lap, the first or third moved forward. *)
LEMMA MoveFirst ==
    ASSUME NEW a \in Indices, NEW t \in Indices, NEW b \in Indices,
           NEW c \in Indices, NEW d \in Indices,
           Dist(a, b) + Dist(b, c) + Dist(c, d) = Dist(a, d),
           Dist(a, t) + Dist(t, b) = Dist(a, b)
    PROVE  Dist(t, b) + Dist(b, c) + Dist(c, d) = Dist(t, d)
  BY CapacityAssumption DEF Dist, Indices

LEMMA MoveThird ==
    ASSUME NEW a \in Indices, NEW b \in Indices, NEW c \in Indices,
           NEW t \in Indices, NEW d \in Indices,
           Dist(a, b) + Dist(b, c) + Dist(c, d) = Dist(a, d),
           Dist(c, t) + Dist(t, d) = Dist(c, d)
    PROVE  Dist(a, b) + Dist(b, t) + Dist(t, d) = Dist(a, d)
  BY CapacityAssumption DEF Dist, Indices

(* A load of tail_ moves seenTail towards tail and disturbs no order. *)
LEMMA LoadTailKeepsOrder ==
    ASSUME TypeOK, ViewsInOrder, NEW t \in Visible(seenTail, tail)
    PROVE  /\ t \in Indices
           /\ Dist(t, tail) + Dist(tail, seenHead) + Dist(seenHead, head)
                 = Dist(t, head)
  <1>1. t \in Indices /\ Dist(seenTail, t) + Dist(t, tail) = Dist(seenTail, tail)
    BY VisibleBetween DEF TypeOK
  <1> QED BY <1>1, MoveFirst DEF TypeOK, ViewsInOrder

(* A load of head_ moves seenHead towards head. *)
LEMMA LoadHeadKeepsOrder ==
    ASSUME TypeOK, ViewsInOrder, NEW h \in Visible(seenHead, head)
    PROVE  /\ h \in Indices
           /\ Dist(seenTail, tail) + Dist(tail, h) + Dist(h, head)
                 = Dist(seenTail, head)
  <1>1. h \in Indices /\ Dist(seenHead, h) + Dist(h, head) = Dist(seenHead, head)
    BY VisibleBetween DEF TypeOK
  <1> QED BY <1>1, MoveThird DEF TypeOK, ViewsInOrder

(* In order means: the queue is no longer than what the producer sees of   *)
(* it, and no shorter than what the consumer sees.                         *)
LEMMA OrderBounds ==
    ASSUME TypeOK, ViewsInOrder
    PROVE  /\ Dist(tail, head) = Dist(tail, seenHead) + Dist(seenHead, head)
           /\ Dist(tail, seenHead) <= Dist(tail, head)
           /\ Dist(tail, head) <= Dist(seenTail, head)
           /\ Dist(seenTail, head) < Capacity
  BY CapacityAssumption DEF TypeOK, ViewsInOrder, Dist, Indices

(* A step forward of the producer's index, with the room the check found. *)
LEMMA PublishKeepsOrder ==
    ASSUME TypeOK, ViewsInOrder, Dist(seenTail, head) < Capacity - 1
    PROVE  Dist(seenTail, tail) + Dist(tail, seenHead)
              + Dist(seenHead, Wrap(head + 1)) = Dist(seenTail, Wrap(head + 1))
  <1>1. Dist(seenHead, head) < Capacity - 1
    BY OrderBounds, CapacityAssumption DEF TypeOK, Dist, Indices
  <1>2. /\ Dist(seenHead, Wrap(head + 1)) = Dist(seenHead, head) + 1
        /\ Dist(seenTail, Wrap(head + 1)) = Dist(seenTail, head) + 1
    BY <1>1, DistAdvanceEnd DEF TypeOK
  <1>3. \A a, b \in Indices : Dist(a, b) \in Nat
    BY DistType
  <1> QED
    BY <1>2, <1>3 DEF TypeOK, ViewsInOrder

(* A step forward of the consumer's index, past an item it has seen. *)
LEMMA TakeKeepsOrder ==
    ASSUME TypeOK, ViewsInOrder, tail # seenHead
    PROVE  Dist(seenTail, Wrap(tail + 1)) + Dist(Wrap(tail + 1), seenHead)
              + Dist(seenHead, head) = Dist(seenTail, head)
  <1>1. Dist(Wrap(tail + 1), seenHead) = Dist(tail, seenHead) - 1
    BY DistAdvanceStart DEF TypeOK
  <1>2. Dist(seenTail, tail) < Capacity - 1
    BY CapacityAssumption DEF TypeOK, ViewsInOrder, Dist, Indices
  <1>3. Dist(seenTail, Wrap(tail + 1)) = Dist(seenTail, tail) + 1
    BY <1>2, DistAdvanceEnd DEF TypeOK
  <1>4. \A a, b \in Indices : Dist(a, b) \in Nat
    BY DistType
  <1> QED
    BY <1>1, <1>3, <1>4 DEF TypeOK, ViewsInOrder

(* Stepping the distance arrives. *)
LEMMA WrapDist ==
    ASSUME NEW a \in Indices, NEW b \in Indices
    PROVE  Wrap(a + Dist(a, b)) = b
  BY CapacityAssumption DEF Dist, Wrap, Indices

(* One step and then k are k + 1 steps. *)
LEMMA WrapWrap ==
    ASSUME NEW a \in Indices, NEW k \in Nat, k + 1 < Capacity
    PROVE  Wrap(Wrap(a + 1) + k) = Wrap(a + (k + 1))
  BY CapacityAssumption DEF Wrap, Indices

(* Filling the slot at head touches no slot between tail and head. *)
LEMMA HeadSlotIsFree ==
    ASSUME NEW a \in Indices, NEW b \in Indices,
           NEW k \in Indices, k < Dist(a, b)
    PROVE  Wrap(a + k) \in Indices /\ Wrap(a + k) # b
  BY CapacityAssumption DEF Dist, Wrap, Indices

LEMMA PushCallStep ==
    ASSUME RingInv, NEW v \in Items, PushCall(v) PROVE RingInv'
  <1>1. TypeOK'
    BY TypeStep DEF Next, Producer, RingInv
  <1>2. ViewsInOrder' /\ ChecksStayValid'
    BY DEF RingInv, PushCall, consumerVars, ViewsInOrder, ChecksStayValid
  <1>3. SlotsHoldItems'
    BY DEF RingInv, PushCall, consumerVars, SlotsHoldItems
  <1> QED BY <1>1, <1>2, <1>3 DEF RingInv

LEMMA PushFullStep ==
    ASSUME RingInv, PushFull PROVE RingInv'
  <1>1. TypeOK'
    BY TypeStep DEF Next, Producer, RingInv
  <1>2. PICK t \in Visible(seenTail, tail) : seenTail' = t
    BY DEF PushFull
  <1>3. ViewsInOrder'
    BY <1>2, LoadTailKeepsOrder DEF RingInv, PushFull, consumerVars, ViewsInOrder
  <1>4. ChecksStayValid'
    BY DEF RingInv, PushFull, consumerVars, ChecksStayValid
  <1>5. SlotsHoldItems'
    BY DEF RingInv, PushFull, consumerVars, SlotsHoldItems
  <1> QED BY <1>1, <1>3, <1>4, <1>5 DEF RingInv

LEMMA PushRoomStep ==
    ASSUME RingInv, PushRoom PROVE RingInv'
  <1>1. TypeOK'
    BY TypeStep DEF Next, Producer, RingInv
  <1>2. PICK t \in Visible(seenTail, tail) : Wrap(head + 1) # t /\ seenTail' = t
    BY DEF PushRoom
  <1>3. ViewsInOrder'
    BY <1>2, LoadTailKeepsOrder DEF RingInv, PushRoom, consumerVars, ViewsInOrder
  <1>4. Dist(t, head) < Capacity - 1
    BY <1>1, <1>2, CapacityAssumption
       DEF RingInv, PushRoom, TypeOK, Dist, Wrap, Indices
  <1>5. ChecksStayValid'
    BY <1>2, <1>4 DEF RingInv, PushRoom, consumerVars, ChecksStayValid
  <1>6. SlotsHoldItems'
    BY DEF RingInv, PushRoom, consumerVars, SlotsHoldItems
  <1> QED BY <1>1, <1>3, <1>5, <1>6 DEF RingInv

LEMMA PushWriteStep ==
    ASSUME RingInv, PushWrite PROVE RingInv'
  <1>1. TypeOK'
    BY TypeStep DEF Next, Producer, RingInv
  <1>2. ViewsInOrder' /\ ChecksStayValid'
    BY DEF RingInv, PushWrite, consumerVars, ViewsInOrder, ChecksStayValid
  <1>3. data' = [data EXCEPT ![head] = arg] /\ arg \in Items /\ data'[head] = arg
    BY DEF RingInv, PushWrite, SlotsHoldItems, TypeOK
  <1>4. cPc = "publish" => data'[tail] = data[tail]
    <2> SUFFICES ASSUME cPc = "publish" PROVE tail # head
      BY <1>3 DEF RingInv, TypeOK
    <2>1. Dist(tail, seenHead) # 0 /\ Dist(tail, seenHead) \in Nat
      BY DistType DEF RingInv, TypeOK, ChecksStayValid
    <2>2. Dist(tail, head) # 0
      BY <2>1, OrderBounds, DistType DEF RingInv, TypeOK
    <2> QED BY <2>2, DistType DEF RingInv, TypeOK
  <1>5. \A k \in Indices : k < Dist(tail, head) =>
           data'[Wrap(tail + k)] = data[Wrap(tail + k)]
    BY <1>3, HeadSlotIsFree DEF RingInv, TypeOK
  <1>6. SlotsHoldItems'
    BY <1>3, <1>4, <1>5 DEF RingInv, PushWrite, consumerVars, SlotsHoldItems
  <1> QED BY <1>1, <1>2, <1>6 DEF RingInv

LEMMA PushPublishStep ==
    ASSUME RingInv, PushPublish PROVE RingInv'
  <1>1. TypeOK'
    BY TypeStep DEF Next, Producer, RingInv
  <1>2. Dist(seenTail, head) < Capacity - 1
    BY DEF RingInv, PushPublish, ChecksStayValid
  <1>3. ViewsInOrder'
    BY <1>2, PublishKeepsOrder DEF RingInv, PushPublish, consumerVars, ViewsInOrder
  <1>4. ChecksStayValid'
    BY DEF RingInv, PushPublish, consumerVars, ChecksStayValid
  <1>5. Dist(tail, head') = Dist(tail, head) + 1
    BY <1>2, OrderBounds, DistType, DistAdvanceEnd, CapacityAssumption
       DEF RingInv, PushPublish, TypeOK
  <1>6. data[Wrap(tail + Dist(tail, head))] \in Items
    BY WrapDist DEF RingInv, TypeOK, PushPublish, SlotsHoldItems
  <1>7. ASSUME NEW k \in Indices, k < Dist(tail, head')
        PROVE  data[Wrap(tail + k)] \in Items
    <2>1. Dist(tail, head) \in Nat /\ k \in Nat
      BY DistType DEF RingInv, TypeOK, Indices
    <2>2. k < Dist(tail, head) \/ k = Dist(tail, head)
      BY <1>5, <1>7, <2>1
    <2> QED BY <2>2, <1>6 DEF RingInv, SlotsHoldItems
  <1>8. SlotsHoldItems'
    BY <1>7 DEF RingInv, PushPublish, consumerVars, SlotsHoldItems
  <1> QED BY <1>1, <1>3, <1>4, <1>8 DEF RingInv

LEMMA PopEmptyStep ==
    ASSUME RingInv, PopEmpty PROVE RingInv'
  <1>1. TypeOK'
    BY TypeStep DEF Next, Consumer, RingInv
  <1>2. PICK h \in Visible(seenHead, head) : seenHead' = h
    BY DEF PopEmpty
  <1>3. ViewsInOrder'
    BY <1>2, LoadHeadKeepsOrder DEF RingInv, PopEmpty, producerVars, ViewsInOrder
  <1>4. ChecksStayValid'
    BY DEF RingInv, PopEmpty, producerVars, ChecksStayValid
  <1>5. SlotsHoldItems'
    BY DEF RingInv, PopEmpty, producerVars, SlotsHoldItems
  <1> QED BY <1>1, <1>3, <1>4, <1>5 DEF RingInv

LEMMA PopItemStep ==
    ASSUME RingInv, PopItem PROVE RingInv'
  <1>1. TypeOK'
    BY TypeStep DEF Next, Consumer, RingInv
  <1>2. PICK h \in Visible(seenHead, head) : tail # h /\ seenHead' = h
    BY DEF PopItem
  <1>3. ViewsInOrder'
    BY <1>2, LoadHeadKeepsOrder DEF RingInv, PopItem, producerVars, ViewsInOrder
  <1>4. ChecksStayValid'
    BY <1>2 DEF RingInv, PopItem, producerVars, ChecksStayValid
  <1>5. SlotsHoldItems'
    BY DEF RingInv, PopItem, producerVars, SlotsHoldItems
  <1> QED BY <1>1, <1>3, <1>4, <1>5 DEF RingInv

LEMMA PopReadStep ==
    ASSUME RingInv, PopRead PROVE RingInv'
  <1>1. TypeOK'
    BY TypeStep DEF Next, Consumer, RingInv
  <1>2. ViewsInOrder' /\ ChecksStayValid'
    BY DEF RingInv, PopRead, producerVars, ViewsInOrder, ChecksStayValid
  <1>3. SlotsHoldItems'
    BY DEF RingInv, PopRead, producerVars, SlotsHoldItems
  <1> QED BY <1>1, <1>2, <1>3 DEF RingInv

LEMMA PopPublishStep ==
    ASSUME RingInv, PopPublish PROVE RingInv'
  <1>1. TypeOK'
    BY TypeStep DEF Next, Consumer, RingInv
  <1>2. tail # seenHead
    BY DEF RingInv, PopPublish, ChecksStayValid
  <1>3. ViewsInOrder'
    BY <1>2, TakeKeepsOrder DEF RingInv, PopPublish, producerVars, ViewsInOrder
  <1>4. ChecksStayValid'
    BY DEF RingInv, PopPublish, producerVars, ChecksStayValid
  <1>5. tail # head
    <2>1. Dist(tail, seenHead) # 0 /\ Dist(tail, seenHead) \in Nat
      BY <1>2, DistType DEF RingInv, TypeOK
    <2> QED BY <2>1, OrderBounds, DistType DEF RingInv, TypeOK
  <1>6. Dist(tail', head) = Dist(tail, head) - 1
    BY <1>5, DistAdvanceStart DEF RingInv, PopPublish, TypeOK
  <1>7. ASSUME NEW k \in Indices, k < Dist(tail', head)
        PROVE  data[Wrap(tail' + k)] \in Items
    <2>0. Dist(tail, head) \in Nat /\ Dist(tail, head) < Capacity
      BY DistType DEF RingInv, TypeOK
    <2>1. /\ Dist(tail, head) \in Nat /\ Dist(tail, head) < Capacity
          /\ k \in Nat /\ Capacity \in Nat
      BY <2>0, CapacityAssumption DEF Indices
    <2>2. k + 1 < Dist(tail, head) /\ k + 1 \in Indices
      BY <1>6, <1>7, <2>1 DEF Indices
    <2>3. Wrap(tail' + k) = Wrap(tail + (k + 1))
      BY <2>1, <2>2, WrapWrap DEF RingInv, PopPublish, TypeOK
    <2> QED BY <2>2, <2>3 DEF RingInv, SlotsHoldItems
  <1>8. SlotsHoldItems'
    BY <1>7 DEF RingInv, PopPublish, producerVars, SlotsHoldItems
  <1> QED BY <1>1, <1>3, <1>4, <1>8 DEF RingInv

LEMMA RingInvStep == RingInv /\ [Next]_vars => RingInv'
  <1> SUFFICES ASSUME RingInv, [Next]_vars PROVE RingInv'
    OBVIOUS
  <1>1. CASE UNCHANGED vars
    BY <1>1 DEF vars, producerVars, consumerVars, RingInv, TypeOK,
                ViewsInOrder, ChecksStayValid, SlotsHoldItems
  <1>2. CASE Producer
    BY <1>2, PushCallStep, PushFullStep, PushRoomStep, PushWriteStep,
       PushPublishStep DEF Producer
  <1>3. CASE Consumer
    BY <1>3, PopEmptyStep, PopItemStep, PopReadStep, PopPublishStep DEF Consumer
  <1> QED BY <1>1, <1>2, <1>3 DEF Next

(***************************************************************************)
(* The inductive invariant holds in every reachable state.                 *)
(***************************************************************************)
THEOREM RingInvariant == Spec => []RingInv
  BY InitRingInv, RingInvStep, PTL DEF Spec

(* A consumer past its check has an item, so head is not the slot it reads. *)
LEMMA RingInvImpliesNoDataRace == RingInv => NoDataRace
  <1> SUFFICES ASSUME RingInv, cPc = "read" PROVE head # tail
    BY DEF NoDataRace
  <1>1. Dist(tail, seenHead) # 0 /\ Dist(tail, seenHead) \in Nat
    BY DistType DEF RingInv, ChecksStayValid, TypeOK
  <1>2. Dist(tail, head) # 0
    BY <1>1, OrderBounds, DistType DEF RingInv, TypeOK
  <1> QED BY <1>2, DistType DEF RingInv, TypeOK

(***************************************************************************)
(* Plain slot memory is never accessed by both threads at once, for every  *)
(* capacity and however stale the acquire loads are.                       *)
(***************************************************************************)
THEOREM DataRaceFreedom == Spec => []NoDataRace
  BY RingInvariant, RingInvImpliesNoDataRace, PTL

------------------------------------------------------------------------------
(* Refinement of the bounded FIFO queue.                                   *)

(* The slots in use, read as a sequence. *)
ContentsIsSlots ==
    /\ Dist(tail, head) \in Nat
    /\ Contents \in Seq(Items)
    /\ Len(Contents) = Dist(tail, head)
    /\ \A i \in 1..Dist(tail, head) :
          Contents[i] = data[Wrap(tail + (i - 1))]

LEMMA ContentsSeq == RingInv => ContentsIsSlots
  <1> SUFFICES ASSUME RingInv PROVE ContentsIsSlots
    OBVIOUS
  <1>1. Dist(tail, head) \in Nat /\ Dist(tail, head) < Capacity
    BY DistType DEF RingInv, TypeOK
  <1>2. ASSUME NEW i \in 1..Dist(tail, head)
        PROVE  /\ data[Wrap(tail + (i - 1))] \in Items
               /\ tail + i - 1 = tail + (i - 1)
    <2>1. i - 1 \in Indices /\ i - 1 < Dist(tail, head)
      BY <1>1, CapacityAssumption DEF Indices
    <2>2. tail + i - 1 = tail + (i - 1)
      BY <1>1 DEF RingInv, TypeOK, Indices
    <2> QED BY <2>1, <2>2 DEF RingInv, SlotsHoldItems
  <1>3. Contents = [i \in 1..Dist(tail, head) |-> data[Wrap(tail + (i - 1))]]
    BY <1>2 DEF Contents
  <1>4. Contents \in [1..Dist(tail, head) -> Items]
    BY <1>2, <1>3
  <1> QED
    BY <1>1, <1>3, <1>4 DEF ContentsIsSlots

(* Steps that move neither index nor any slot in use leave the queue alone. *)
LEMMA SameContents ==
    ASSUME RingInv, RingInv', head' = head, tail' = tail,
           \A k \in Indices : k < Dist(tail, head) =>
               data'[Wrap(tail + k)] = data[Wrap(tail + k)]
    PROVE  Contents' = Contents
  <1>1. Dist(tail, head) \in Nat /\ Dist(tail, head) < Capacity
    BY DistType DEF RingInv, TypeOK
  <1>2. ASSUME NEW i \in 1..Dist(tail, head)
        PROVE  data'[Wrap(tail + i - 1)] = data[Wrap(tail + i - 1)]
    <2>1. i - 1 \in Indices /\ i - 1 < Dist(tail, head)
      BY <1>1, CapacityAssumption DEF Indices
    <2>2. tail + i - 1 = tail + (i - 1)
      BY <1>1 DEF RingInv, TypeOK, Indices
    <2> QED BY <2>1, <2>2
  <1> QED BY <1>2 DEF Contents

LEMMA PushPublishAppends ==
    ASSUME RingInv, RingInv', PushPublish
    PROVE  Fifo!Put(arg)
  <1>1. Dist(seenTail, head) < Capacity - 1
    BY DEF RingInv, PushPublish, ChecksStayValid
  <1>2. Dist(tail, head) < Capacity - 1
    BY <1>1, OrderBounds, DistType, CapacityAssumption DEF RingInv, TypeOK
  <1>3. Dist(tail, head') = Dist(tail, head) + 1
    BY <1>2, DistAdvanceEnd DEF RingInv, PushPublish, TypeOK
  <1>4. /\ Contents \in Seq(Items)
        /\ Len(Contents) = Dist(tail, head)
        /\ \A i \in 1..Dist(tail, head) :
              Contents[i] = data[Wrap(tail + (i - 1))]
        /\ Dist(tail, head) \in Nat
    BY ContentsSeq DEF ContentsIsSlots
  <1>5. /\ Contents' \in Seq(Items)
        /\ Len(Contents') = Dist(tail, head) + 1
        /\ \A i \in 1..(Dist(tail, head) + 1) :
              Contents'[i] = data[Wrap(tail + (i - 1))]
    <2>1. tail' = tail /\ data' = data
      BY DEF PushPublish
    <2>2. /\ Contents' \in Seq(Items)
          /\ Len(Contents') = Dist(tail', head')
          /\ \A i \in 1..Dist(tail', head') :
                Contents'[i] = data'[Wrap(tail' + (i - 1))]
      <3>1. ContentsIsSlots'
        BY ContentsSeq, PTL
      <3> QED BY <3>1 DEF ContentsIsSlots
    <2> QED BY <1>3, <2>1, <2>2
  <1>6. arg \in Items /\ data[head] = arg
    BY DEF RingInv, PushPublish, SlotsHoldItems
  <1>7. Contents'[Dist(tail, head) + 1] = arg
    <2>1. (Dist(tail, head) + 1) - 1 = Dist(tail, head)
      BY <1>4
    <2> QED BY <1>4, <1>5, <1>6, <2>1, WrapDist DEF RingInv, TypeOK
  <1>8. \A i \in 1..Len(Contents) : Contents'[i] = Contents[i]
    BY <1>4, <1>5
  <1>9. Contents' = Append(Contents, arg)
    <2>1. /\ Append(Contents, arg) \in Seq(Items)
          /\ Len(Append(Contents, arg)) = Len(Contents) + 1
          /\ \A i \in 1..Len(Contents) : Append(Contents, arg)[i] = Contents[i]
          /\ Append(Contents, arg)[Len(Contents) + 1] = arg
      BY <1>4, <1>6, AppendProperties
    <2>2. ASSUME NEW i \in 1..Len(Contents')
          PROVE  Contents'[i] = Append(Contents, arg)[i]
      <3>1. i \in 1..Len(Contents) \/ i = Len(Contents) + 1
        BY <1>4, <1>5
      <3> QED BY <3>1, <2>1, <1>4, <1>7, <1>8
    <2> QED BY <1>4, <1>5, <2>1, <2>2, SeqEqual
  <1> QED
    BY <1>2, <1>4, <1>9 DEF Fifo!Put, PushPublish, consumerVars

LEMMA PopPublishTakesHead ==
    ASSUME RingInv, RingInv', PopPublish
    PROVE  Fifo!Get
  <1>1. tail # head
    <2>1. Dist(tail, seenHead) # 0 /\ Dist(tail, seenHead) \in Nat
      BY DistType DEF RingInv, TypeOK, PopPublish, ChecksStayValid
    <2> QED BY <2>1, OrderBounds, DistType DEF RingInv, TypeOK
  <1>2. Dist(tail, head) # 0 /\ Dist(tail, head) < Capacity
    BY <1>1, DistType DEF RingInv, TypeOK
  <1>3. Dist(tail', head') = Dist(tail, head) - 1
    BY <1>1, DistAdvanceStart DEF RingInv, PopPublish, producerVars, TypeOK
  <1>4. /\ Contents \in Seq(Items)
        /\ Len(Contents) = Dist(tail, head)
        /\ \A i \in 1..Dist(tail, head) :
              Contents[i] = data[Wrap(tail + (i - 1))]
        /\ Dist(tail, head) \in Nat
    BY ContentsSeq DEF ContentsIsSlots
  <1>5. /\ Contents' \in Seq(Items)
        /\ Len(Contents') = Dist(tail, head) - 1
        /\ \A i \in 1..(Dist(tail, head) - 1) :
              Contents'[i] = data[Wrap(Wrap(tail + 1) + (i - 1))]
    <2>1. ContentsIsSlots'
      BY ContentsSeq, PTL
    <2> QED BY <1>3, <2>1 DEF ContentsIsSlots, PopPublish
  <1>6. Contents # <<>>
    BY <1>2, <1>4, EmptySeq
  <1>7. ret' = Head(Contents)
    <2>1. Head(Contents) = Contents[1]
      BY <1>4, <1>6, HeadTailProperties
    <2>2. 1 \in 1..Dist(tail, head) /\ tail + (1 - 1) = tail
      BY <1>2, <1>4 DEF RingInv, TypeOK, Indices
    <2>3. Wrap(tail) = tail
      BY CapacityAssumption DEF RingInv, TypeOK, Wrap, Indices
    <2> QED
      BY <1>4, <2>1, <2>2, <2>3
         DEF PopPublish, RingInv, SlotsHoldItems
  <1>8. Contents' = Tail(Contents)
    <2>1. /\ Tail(Contents) \in Seq(Items)
          /\ Len(Tail(Contents)) = Len(Contents) - 1
          /\ \A i \in 1..Len(Tail(Contents)) : Tail(Contents)[i] = Contents[i + 1]
      BY <1>4, <1>6, HeadTailProperties
    <2>2. ASSUME NEW i \in 1..Len(Contents')
          PROVE  Contents'[i] = Tail(Contents)[i]
      <3>1. /\ i \in Nat /\ i - 1 \in Nat /\ (i - 1) + 1 = i
            /\ i \in 1..(Dist(tail, head) - 1) /\ i + 1 \in 1..Dist(tail, head)
            /\ (i + 1) - 1 = i /\ (i - 1) + 1 < Capacity
        BY <1>2, <1>4, <1>5, CapacityAssumption
      <3>2. Wrap(Wrap(tail + 1) + (i - 1)) = Wrap(tail + i)
        BY <3>1, WrapWrap DEF RingInv, TypeOK
      <3>3. Contents'[i] = data[Wrap(tail + i)]
        BY <1>5, <3>1, <3>2
      <3>4. Contents[i + 1] = data[Wrap(tail + i)]
        BY <1>4, <3>1
      <3> QED BY <1>4, <1>5, <2>1, <3>1, <3>3, <3>4
    <2> QED BY <1>4, <1>5, <2>1, <2>2, SeqEqual
  <1> QED
    BY <1>6, <1>7, <1>8 DEF Fifo!Get

(* The initial ring is the empty queue. *)
LEMMA InitRefines == Init => Fifo!Init
  BY CapacityAssumption DEF Init, Fifo!Init, Contents, Dist

(* Every step of the ring is a Put, a Get or leaves the queue unchanged. *)
LEMMA StepRefines ==
    RingInv /\ RingInv' /\ [Next]_vars => [Fifo!Next]_(Fifo!vars)
  <1> SUFFICES ASSUME RingInv, RingInv', [Next]_vars
               PROVE  [Fifo!Next]_(Fifo!vars)
    OBVIOUS
  <1>1. CASE UNCHANGED <<head, tail, data, ret>>
    BY <1>1, SameContents DEF Fifo!vars
  <1>2. CASE PushWrite
    <2>1. data' = [data EXCEPT ![head] = arg]
      BY <1>2 DEF PushWrite
    <2>2. \A k \in Indices : k < Dist(tail, head) =>
             data'[Wrap(tail + k)] = data[Wrap(tail + k)]
      BY <2>1, HeadSlotIsFree DEF RingInv, TypeOK
    <2>3. head' = head /\ tail' = tail /\ ret' = ret
      BY <1>2 DEF PushWrite, consumerVars
    <2> QED BY <2>2, <2>3, SameContents DEF Fifo!vars
  <1>3. CASE PushPublish
    <2>1. arg \in Items
      BY <1>3 DEF RingInv, PushPublish, SlotsHoldItems
    <2> QED BY <1>3, <2>1, PushPublishAppends DEF Fifo!Next
  <1>4. CASE PopPublish
    BY <1>4, PopPublishTakesHead DEF Fifo!Next
  <1> QED
    BY <1>1, <1>2, <1>3, <1>4
       DEF Next, Producer, Consumer, PushCall, PushFull, PushRoom, PopEmpty,
           PopItem, PopRead, producerVars, consumerVars, vars

(***************************************************************************)
(* The ring implements the bounded FIFO queue: nothing is lost, repeated,  *)
(* reordered or invented, for every capacity and every set of items.       *)
(***************************************************************************)
THEOREM RingImplementsFifo == Spec => ImplementsFifo
  BY InitRefines, StepRefines, RingInvariant, PTL
     DEF Spec, ImplementsFifo, Fifo!Spec

==============================================================================
