------------------------------ MODULE StoreLoad ------------------------------
(***************************************************************************)
(* mem_order/store_load.cpp: two threads, each stores one variable and     *)
(* loads the other, under three memory orders.  A store that is not        *)
(* seq_cst waits in its thread's store buffer while the load goes ahead.   *)
(***************************************************************************)
EXTENDS Integers, FiniteSets

CONSTANTS Modes,     \* subset of {"RELAXED", "ACQ_REL", "SEQ_CST"}
          MaxIters   \* iterations of a test (1000000)

ASSUME StoreLoadAssumption ==
  Modes \subseteq {"RELAXED", "ACQ_REL", "SEQ_CST"} /\ MaxIters \in Nat \ {0}

VARIABLES
  mode,      \* mode of the test
  iter,      \* iterations begun
  mem,       \* the variable each thread stores: x by t1, y by t2
  buffered,  \* whose store is still in its buffer
  tpc,       \* each thread: "store", "load", "end"
  reg,       \* r1 and r2
  seen       \* the outcomes, a set of <<r1, r2>>

litmusVars == <<mode, iter, mem, buffered, tpc, reg, seen>>

Threads == 1..2
OtherThread(t) == 3 - t
Zeros == [t \in Threads |-> 0]

LitmusInit ==
  /\ mode \in Modes /\ iter = 1
  /\ mem = Zeros /\ reg = Zeros
  /\ buffered = {} /\ tpc = [t \in Threads |-> "store"]
  /\ seen = {}

\* Fault: the seq_cst store is weakened to a release.
StoreOwnFault(t) ==
  /\ tpc[t] = "store" /\ tpc' = [tpc EXCEPT ![t] = "load"]
  /\ buffered' = buffered \cup {t}
  /\ UNCHANGED <<mode, iter, mem, reg, seen>>

StoreOwn(t) ==
  /\ tpc[t] = "store" /\ tpc' = [tpc EXCEPT ![t] = "load"]
  /\ IF mode = "SEQ_CST" THEN mem' = [mem EXCEPT ![t] = 1] /\ UNCHANGED buffered
     ELSE buffered' = buffered \cup {t} /\ UNCHANGED mem
  /\ UNCHANGED <<mode, iter, reg, seen>>

Drain(t) ==
  /\ t \in buffered
  /\ buffered' = buffered \ {t} /\ mem' = [mem EXCEPT ![t] = 1]
  /\ UNCHANGED <<mode, iter, tpc, reg, seen>>

Load(t) ==
  /\ tpc[t] = "load" /\ tpc' = [tpc EXCEPT ![t] = "end"]
  /\ reg' = [reg EXCEPT ![t] = mem[OtherThread(t)]]
  /\ UNCHANGED <<mode, iter, mem, buffered, seen>>

\* Both joined: the outcome is noted; four of them, or enough iterations, end it.
BothJoined == buffered = {} /\ \A t \in Threads : tpc[t] = "end"
Over == iter = MaxIters + 1
NextIteration ==
  /\ BothJoined /\ ~Over
  /\ seen' = seen \cup {<<reg[1], reg[2]>>}
  /\ iter' = IF Cardinality(seen') = 4 THEN MaxIters + 1 ELSE iter + 1
  /\ mem' = Zeros /\ reg' = Zeros
  /\ tpc' = [t \in Threads |-> IF iter' = MaxIters + 1 THEN "end" ELSE "store"]
  /\ UNCHANGED <<mode, buffered>>

LitmusNext == (\E t \in Threads : StoreOwn(t) \/ Drain(t) \/ Load(t)) \/ NextIteration

-----------------------------------------------------------------------------
(***************************************************************************)
(* Under seq_cst at least one thread sees the other's store, in every      *)
(* iteration: (0, 0) is never observed.                                    *)
(***************************************************************************)
SomeoneSeesTheOther ==
  mode = "SEQ_CST" =>
    /\ <<0, 0>> \notin seen
    /\ ~Over /\ (\A t \in Threads : tpc[t] = "end") => \E t \in Threads : reg[t] = 1
=============================================================================
