------------------------------- MODULE SpscRing -------------------------------
(***************************************************************************)
(* The lock-free ring between two threads: hft::SPSCRing                   *)
(* (hft_test/include/spsc_ring.h) and hft::SpscQueue                       *)
(* (frame_work/src/spsc_queue.h), which are the same algorithm.            *)
(*                                                                         *)
(* Every access to shared memory is a step of its own.  head_ and tail_    *)
(* are C++ atomics stored with release and loaded with acquire: such a     *)
(* load may return any value of the variable's modification order not      *)
(* older than the one the thread saw last, so a load by the OTHER thread   *)
(* picks any index from its last view up to the current one.  A thread's   *)
(* relaxed load of the index it alone writes returns its latest store.     *)
(* The slots are plain memory: that no two threads touch one slot at a     *)
(* time is a property to check (NoDataRace), not an assumption.            *)
(***************************************************************************)
EXTENDS Naturals

CONSTANTS
    Capacity,    \* number of slots, the template parameter
    Items,       \* the values pushed
    Blank        \* what an unwritten slot holds

(***************************************************************************)
(* Capacity is what the static_assert allows: a power of two.              *)
(***************************************************************************)
ASSUME CapacityAssumption ==
    /\ Capacity \in Nat \ {0}
    /\ \E k \in 0..Capacity : 2^k = Capacity

ASSUME BlankAssumption == Blank \notin Items

VARIABLES
    head,        \* head_: the slot the next push fills
    tail,        \* tail_: the slot the next pop empties
    data,        \* data_
    pPc,         \* where the producer is in push()
    arg,         \* the producer's argument v
    seenTail,    \* the last value of tail_ the producer loaded
    cPc,         \* where the consumer is in pop()
    seenHead,    \* the last value of head_ the consumer loaded
    copied,      \* the consumer's local copy of the slot
    ret          \* what the last successful pop returned

producerVars == <<pPc, arg, seenTail>>
consumerVars == <<cPc, seenHead, copied, ret>>
vars == <<head, tail, data, producerVars, consumerVars>>

Indices == 0..(Capacity - 1)
Values  == Items \cup {Blank}

(***************************************************************************)
(* i & mask() for the i < 2 * Capacity that occur.                         *)
(***************************************************************************)
Wrap(i) == IF i < Capacity THEN i ELSE i - Capacity

(***************************************************************************)
(* Steps forward from index a to index b; with a the tail and b the head   *)
(* it is what size() returns (SPSCRing's form of it).                      *)
(***************************************************************************)
Dist(a, b) == IF b >= a THEN b - a ELSE Capacity - (a - b)

(***************************************************************************)
(* The values an acquire load may return to a thread that last saw seen.   *)
(***************************************************************************)
Visible(seen, current) == {Wrap(seen + k) : k \in 0..Dist(seen, current)}

------------------------------------------------------------------------------
(***************************************************************************)
(* Seeded faults.  Each *Fault operator is a plausible wrong form of the   *)
(* definition it is named after; no specification uses one.  Checking a    *)
(* property with the fault in its definition's place shows that the        *)
(* property can fail (see the README).                                     *)
(***************************************************************************)
\* no test for a full ring: the check of next against tail_ is dropped
PushRoomFault ==
    /\ pPc = "check"
    /\ seenTail' \in Visible(seenTail, tail)
    /\ pPc' = "write"
    /\ UNCHANGED <<head, tail, data, arg, consumerVars>>

\* tail_ is released before the slot is copied
PopItemFault ==
    /\ cPc = "idle"
    /\ \E h \in Visible(seenHead, head) : tail # h /\ seenHead' = h
    /\ tail' = Wrap(tail + 1)
    /\ cPc' = "read"
    /\ UNCHANGED <<head, data, copied, ret, producerVars>>

\* the consumer waits for a second item before it takes the first
PopItemBatchFault ==
    /\ cPc = "idle"
    /\ \E h \in Visible(seenHead, head) : Dist(tail, h) > 1 /\ seenHead' = h
    /\ cPc' = "read"
    /\ UNCHANGED <<head, tail, data, copied, ret, producerVars>>

------------------------------------------------------------------------------
Init ==
    /\ head = 0 /\ tail = 0
    /\ data = [i \in Indices |-> Blank]
    /\ pPc = "idle" /\ arg = Blank /\ seenTail = 0
    /\ cPc = "idle" /\ seenHead = 0 /\ copied = Blank /\ ret = Blank

(* push(v) is called and computes next from its own head_. *)
PushCall(v) ==
    /\ pPc = "idle"
    /\ arg' = v
    /\ pPc' = "check"
    /\ UNCHANGED <<head, tail, data, seenTail, consumerVars>>

(* The acquire load of tail_ finds next == tail: push returns false. *)
PushFull ==
    /\ pPc = "check"
    /\ \E t \in Visible(seenTail, tail) :
         /\ Wrap(head + 1) = t
         /\ seenTail' = t
    /\ pPc' = "idle"
    /\ UNCHANGED <<head, tail, data, arg, consumerVars>>

(* The acquire load of tail_ leaves room. *)
PushRoom ==
    /\ pPc = "check"
    /\ \E t \in Visible(seenTail, tail) :
         /\ Wrap(head + 1) # t
         /\ seenTail' = t
    /\ pPc' = "write"
    /\ UNCHANGED <<head, tail, data, arg, consumerVars>>

(* data_[head] = v *)
PushWrite ==
    /\ pPc = "write"
    /\ data' = [data EXCEPT ![head] = arg]
    /\ pPc' = "publish"
    /\ UNCHANGED <<head, tail, arg, seenTail, consumerVars>>

(* head_.store(next, release); push returns true. *)
PushPublish ==
    /\ pPc = "publish"
    /\ head' = Wrap(head + 1)
    /\ pPc' = "idle"
    /\ UNCHANGED <<tail, data, arg, seenTail, consumerVars>>

(* pop()'s acquire load of head_ finds tail == head: it returns nothing. *)
PopEmpty ==
    /\ cPc = "idle"
    /\ \E h \in Visible(seenHead, head) :
         /\ tail = h
         /\ seenHead' = h
    /\ UNCHANGED <<head, tail, data, cPc, copied, ret, producerVars>>

(* The acquire load of head_ shows an item. *)
PopItem ==
    /\ cPc = "idle"
    /\ \E h \in Visible(seenHead, head) :
         /\ tail # h
         /\ seenHead' = h
    /\ cPc' = "read"
    /\ UNCHANGED <<head, tail, data, copied, ret, producerVars>>

(* v = data_[tail] *)
PopRead ==
    /\ cPc = "read"
    /\ copied' = data[tail]
    /\ cPc' = "publish"
    /\ UNCHANGED <<head, tail, data, seenHead, ret, producerVars>>

(* tail_.store(tail + 1, release); pop returns v. *)
PopPublish ==
    /\ cPc = "publish"
    /\ tail' = Wrap(tail + 1)
    /\ ret' = copied
    /\ cPc' = "idle"
    /\ UNCHANGED <<head, data, seenHead, copied, producerVars>>

Producer == (\E v \in Items : PushCall(v)) \/ PushFull \/ PushRoom
               \/ PushWrite \/ PushPublish
Consumer == PopEmpty \/ PopItem \/ PopRead \/ PopPublish

Next == Producer \/ Consumer

Spec == Init /\ [][Next]_vars

(***************************************************************************)
(* The consumer keeps polling (every consumer of the repository pops in a  *)
(* loop), and a published head_ becomes visible in the end: SF because     *)
(* loads that still return the old value may come in between.  Nothing is  *)
(* asked of the producer, which may stop anywhere, even inside push().     *)
(***************************************************************************)
FairSpec == Spec /\ SF_vars(PopItem) /\ WF_vars(PopRead) /\ WF_vars(PopPublish)

------------------------------------------------------------------------------
(***************************************************************************)
(* Types of all variables; indices never leave the array.                  *)
(***************************************************************************)
TypeOK ==
    /\ head \in Indices /\ tail \in Indices
    /\ seenTail \in Indices /\ seenHead \in Indices
    /\ data \in [Indices -> Values]
    /\ arg \in Values /\ copied \in Values /\ ret \in Values
    /\ pPc \in {"idle", "check", "write", "publish"}
    /\ cPc \in {"idle", "read", "publish"}

(***************************************************************************)
(* The plain slot accesses never collide: while the producer stores into   *)
(* data_[head] the consumer is not copying that slot.                      *)
(***************************************************************************)
NoDataRace == ~(pPc = "write" /\ cPc = "read" /\ head = tail)

(***************************************************************************)
(* The views lie in the order seenTail, tail, seenHead, head around the    *)
(* ring, within one lap: no thread mistakes a full ring for an empty one   *)
(* or a stale index for one of the next lap.                               *)
(***************************************************************************)
ViewsInOrder ==
    Dist(seenTail, tail) + Dist(tail, seenHead) + Dist(seenHead, head)
        = Dist(seenTail, head)

(***************************************************************************)
(* A producer past its check has a free slot beside the one it fills, and  *)
(* a consumer past its check has an item: whatever the other thread did    *)
(* since the check.                                                        *)
(***************************************************************************)
ChecksStayValid ==
    /\ pPc \in {"write", "publish"} => Dist(seenTail, head) < Capacity - 1
    /\ cPc \in {"read", "publish"} => tail # seenHead

(***************************************************************************)
(* What the local copies and the slots between tail and head hold.         *)
(***************************************************************************)
SlotsHoldItems ==
    /\ pPc # "idle" => arg \in Items
    /\ pPc = "publish" => data[head] = arg
    /\ cPc = "publish" => copied = data[tail]
    /\ \A k \in Indices : k < Dist(tail, head) => data[Wrap(tail + k)] \in Items

(* The inductive invariant. *)
RingInv == TypeOK /\ ViewsInOrder /\ ChecksStayValid /\ SlotsHoldItems

(***************************************************************************)
(* The ring is a FIFO queue of at most Capacity - 1 items: the slots from  *)
(* tail to head, in that order.  push takes effect at its release store,   *)
(* pop at its own.                                                         *)
(***************************************************************************)
Contents == [i \in 1..Dist(tail, head) |-> data[Wrap(tail + i - 1)]]

Fifo == INSTANCE BoundedFifo
            WITH queue <- Contents, got <- ret, Bound <- Capacity - 1

ImplementsFifo == Fifo!Spec

(***************************************************************************)
(* Items that were accepted keep being delivered, even if the producer     *)
(* stops inside a push().                                                  *)
(***************************************************************************)
AcceptedItemsAreServed == Fifo!Served

==============================================================================
