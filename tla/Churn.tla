-------------------------------- MODULE Churn --------------------------------
(***************************************************************************)
(* perf_lab/malloc_compare.cpp, run_once: threads that fill a live set,    *)
(* then allocate in batches and free as many random members, and free the  *)
(* rest.  The allocator is external: it hands out the lowest address that  *)
(* is not in use, so that memory freed by one thread is another's next.    *)
(***************************************************************************)
EXTENDS Integers, Sequences, FiniteSets, SequencesExt

CONSTANTS ChurnThreads,  \* the threads
          Requested,     \* the [allocs, live, batch] the options may ask for
          DefaultLive,   \* what a live set of 0 becomes (1024)
          DefaultBatch   \* what a batch of 0 becomes (64)

ASSUME ChurnAssumption ==
  /\ {DefaultLive, DefaultBatch} \subseteq Nat \ {0}
  /\ Requested \subseteq [allocs : Nat, live : Nat, batch : Nat]

VARIABLES
  opt,       \* the options of the run
  inUse,     \* addresses the allocator has handed out
  live,      \* each thread's vector of pointers
  allocIdx,  \* each thread's allocations so far
  cpc,       \* each thread: "warm", "batch", "free", "drain", "end"
  left,      \* allocations or frees left in the batch
  aborted    \* malloc failed, a pointer was freed that was not in use

churnVars == <<opt, inUse, live, allocIdx, cpc, left, aborted>>

LowestFree == CHOOSE a \in 1..Cardinality(inUse) + 1 :
                a \notin inUse /\ \A b \in 1..a - 1 : b \in inUse
Lesser(a, b) == IF a < b THEN a ELSE b

\* The end of parse_args: a live set or a batch of 0 gets a default.
Options(r) == [r EXCEPT !.live = IF @ = 0 THEN DefaultLive ELSE @,
                        !.batch = IF @ = 0 THEN DefaultBatch ELSE @]
Warm == Lesser(opt.live, opt.allocs)

ChurnInit ==
  /\ opt \in {Options(r) : r \in Requested}
  /\ inUse = {}
  /\ live = [t \in ChurnThreads |-> <<>>]
  /\ allocIdx = [t \in ChurnThreads |-> 0]
  /\ cpc = [t \in ChurnThreads |-> "warm"]
  /\ left = [t \in ChurnThreads |-> 0]
  /\ aborted = "no"

-----------------------------------------------------------------------------
\* malloc, touch, push_back; a null pointer aborts.
Allocated(t) ==
  /\ inUse' = inUse \cup {LowestFree}
  /\ live' = [live EXCEPT ![t] = Append(@, LowestFree)]
  /\ allocIdx' = [allocIdx EXCEPT ![t] = @ + 1]
MallocFails == aborted' = "no memory" /\ UNCHANGED <<opt, inUse, live, allocIdx, cpc, left>>

WarmUp(t) ==
  /\ cpc[t] = "warm" /\ allocIdx[t] < Warm
  /\ Allocated(t) /\ UNCHANGED <<opt, cpc, left, aborted>>

\* A batch, as long as there are allocations to make; then what is live is freed.
NextBatch(t) ==
  /\ \/ cpc[t] = "warm" /\ allocIdx[t] = Warm
     \/ cpc[t] = "free" /\ left[t] = 0
  /\ IF allocIdx[t] < opt.allocs
     THEN /\ left' = [left EXCEPT ![t] = Lesser(opt.batch, opt.allocs - allocIdx[t])]
          /\ cpc' = [cpc EXCEPT ![t] = "batch"]
     ELSE /\ cpc' = [cpc EXCEPT ![t] = "drain"] /\ UNCHANGED left
  /\ UNCHANGED <<opt, inUse, live, allocIdx, aborted>>

AllocateOne(t) ==
  /\ cpc[t] = "batch" /\ left[t] > 0
  /\ Allocated(t)
  /\ left' = [left EXCEPT ![t] = @ - 1]
  /\ UNCHANGED <<opt, cpc, aborted>>

\* The batch is allocated: as many are freed, or all there are.
StartFrees(t) ==
  LET last == (allocIdx[t] - Warm) % opt.batch
      batch == IF last = 0 THEN opt.batch ELSE last
  IN /\ cpc[t] = "batch" /\ left[t] = 0
     /\ left' = [left EXCEPT ![t] = Lesser(batch, Len(live[t]))]
     /\ cpc' = [cpc EXCEPT ![t] = "free"]
     /\ UNCHANGED <<opt, inUse, live, allocIdx, aborted>>

Frees(p) == /\ inUse' = inUse \ {p}
            /\ aborted' = IF p \in inUse THEN aborted ELSE "freed twice"

\* Fault: the last pointer is dropped without being put in the freed one's place.
FreeOneFault(t) ==
  /\ cpc[t] = "free" /\ left[t] > 0
  /\ \E i \in 1..Len(live[t]) :
       /\ Frees(live[t][i])
       /\ live' = [live EXCEPT ![t] = Front(@)]
  /\ left' = [left EXCEPT ![t] = @ - 1]
  /\ UNCHANGED <<opt, allocIdx, cpc>>

\* A random member is freed; the last takes its place.
FreeOne(t) ==
  /\ cpc[t] = "free" /\ left[t] > 0
  /\ \E i \in 1..Len(live[t]) :
       /\ Frees(live[t][i])
       /\ live' = [live EXCEPT ![t] = Front([@ EXCEPT ![i] = Last(live[t])])]
  /\ left' = [left EXCEPT ![t] = @ - 1]
  /\ UNCHANGED <<opt, allocIdx, cpc>>

FreeRest(t) ==
  /\ cpc[t] = "drain"
  /\ IF live[t] = <<>>
     THEN /\ cpc' = [cpc EXCEPT ![t] = "end"] /\ UNCHANGED <<inUse, live, aborted>>
     ELSE /\ Frees(Head(live[t])) /\ live' = [live EXCEPT ![t] = Tail(@)]
          /\ UNCHANGED cpc
  /\ UNCHANGED <<opt, allocIdx, left>>

ChurnNext ==
  /\ aborted = "no"
  /\ \/ \E t \in ChurnThreads :
          \/ WarmUp(t) \/ NextBatch(t) \/ AllocateOne(t)
          \/ StartFrees(t) \/ FreeOne(t) \/ FreeRest(t)
     \/ MallocFails

-----------------------------------------------------------------------------
(***************************************************************************)
(* Every pointer in use is in one thread's live set, once: none is freed   *)
(* twice, or while another thread has been given it, and none is left at   *)
(* the end.  The live set is what was asked for between batches, so the    *)
(* batches measure churn at a constant size.                               *)
(***************************************************************************)
ChurnIsBalanced ==
  /\ aborted # "freed twice"
  /\ inUse = UNION {ToSet(live[t]) : t \in ChurnThreads}
  /\ \A t \in ChurnThreads : IsInjective(live[t])
  /\ \A t, u \in ChurnThreads : t # u => ToSet(live[t]) \cap ToSet(live[u]) = {}
  /\ \A t \in ChurnThreads :
       /\ Len(live[t]) <= Warm + opt.batch
       /\ cpc[t] = "free" /\ left[t] = 0 => Len(live[t]) = Warm
       /\ cpc[t] = "end" => allocIdx[t] = opt.allocs /\ live[t] = <<>>
=============================================================================
