---------------------------- MODULE Logging_proofs ----------------------------
(***************************************************************************)
(* Proofs about the logger's shutdown, for any number of sources, queue    *)
(* capacity and round length.                                              *)
(***************************************************************************)
EXTENDS Logging, TLAPS

(***************************************************************************)
(* Counts of a queue before and after a push that may be refused ...       *)
(***************************************************************************)
LEMMA PushCounts ==
  ASSUME NEW n \in Nat, NEW q \in 0..n, NEW f \in 0..n, q + f <= n
  PROVE  LET full == IF q + f < n THEN q + 1 ELSE q
         IN  full \in 0..n /\ full >= q /\ full + f <= n
  OBVIOUS

(***************************************************************************)
(* ... and after a pop, with v of its lines in view and o of them owed.    *)
(***************************************************************************)
LEMMA PopCounts ==
  ASSUME NEW n \in Nat, NEW q \in 0..n, NEW f \in 0..n, NEW v \in 0..n,
         NEW o \in 0..n, q + f <= n, o <= v, v <= q, v > 0
  PROVE  LET rest == IF o > 0 THEN o - 1 ELSE 0
         IN  /\ q - 1 \in 0..n /\ f + 1 \in 0..n /\ v - 1 \in 0..n /\ rest \in 0..n
             /\ (q - 1) + (f + 1) <= n
             /\ rest <= v - 1 /\ v - 1 <= q - 1 /\ rest <= o
  OBVIOUS

(***************************************************************************)
(* The initial state: nothing queued, nothing owed.                        *)
(***************************************************************************)
LEMMA InitInv == LoggingInit => LoggingInv
  BY LoggingAssumption DEF LoggingInit, LoggingInv, LoggingTypeOK, Sources, KnownLinesArePrinted

(***************************************************************************)
(* Every step of every thread keeps the invariant; PrintLine and           *)
(* NextSource are the steps that touch what the logger still owes.         *)
(***************************************************************************)
LEMMA NextInv == LoggingInv /\ [LoggingNext]_logVars => LoggingInv'
<1> SUFFICES ASSUME LoggingInv, [LoggingNext]_logVars PROVE LoggingInv'
  OBVIOUS
<1> USE DEF LoggingInv, LoggingTypeOK, Sources, KnownLinesArePrinted
<1>0. /\ PerRound \in [Sources -> Nat \ {0}]
      /\ NSources \in Nat \ {0} /\ Slots \in Nat \ {0}
  BY LoggingAssumption
<1>1. ASSUME NEW s \in Sources, Check(s) PROVE LoggingInv'
  <2>1. left' \in [Sources -> Nat] /\ \A t \in Sources : left'[t] <= PerRound[t]
    <3>1. left' = left \/ left' = [left EXCEPT ![s] = PerRound[s]]
      BY <1>1 DEF Check
    <3>2. PerRound[s] \in Nat
      BY <1>0
    <3>3. left' \in [Sources -> Nat]
      BY <3>1, <3>2
    <3>4. ASSUME NEW t \in Sources PROVE left'[t] <= PerRound[t]
      <4>1. CASE left' = left
        BY <4>1
      <4>2. CASE left' = [left EXCEPT ![s] = PerRound[s]]
        <5>1. left'[t] = IF t = s THEN PerRound[s] ELSE left[t]
          BY <4>2
        <5>2. left[t] <= PerRound[t]
          OBVIOUS
        <5>3. PerRound[s] <= PerRound[s]
          BY <3>2
        <5>4. CASE t = s
          BY <5>1, <5>3, <5>4
        <5>5. CASE t # s
          BY <5>1, <5>2, <5>5
        <5>6. QED BY <5>4, <5>5
      <4>3. QED BY <3>1, <4>1, <4>2
    <3>5. QED BY <3>3, <3>4
  <2>2. srcPc' \in [Sources -> {"check", "round", "done"}]
    BY <1>1 DEF Check
  <2>3. QED BY <1>1, <2>1, <2>2 DEF Check
<1>2. ASSUME NEW s \in Sources, Log(s) PROVE LoggingInv'
  <2>1. left' \in [Sources -> Nat] /\ \A t \in Sources : left'[t] <= PerRound[t]
    <3>1. left' = [left EXCEPT ![s] = left[s] - 1] /\ left[s] - 1 \in Nat
      BY <1>2 DEF Log
    <3>2. ASSUME NEW t \in Sources PROVE left'[t] <= PerRound[t]
      BY SMTT(30), <1>0, <3>1
    <3>3. QED BY <3>1, <3>2
  <2>2. PICK f \in 0..freed[s] :
            /\ freed' = [freed EXCEPT ![s] = f]
            /\ queue' = IF queue[s] + f < Slots
                        THEN [queue EXCEPT ![s] = queue[s] + 1] ELSE queue
    BY <1>2 DEF Log
  <2>3. /\ f \in 0..Slots /\ freed[s] \in 0..Slots /\ queue[s] \in 0..Slots
        /\ queue[s] + f <= Slots
    BY SMTT(30), <1>0
  <2>4. /\ freed' \in [Sources -> 0..Slots] /\ queue' \in [Sources -> 0..Slots]
        /\ \A t \in Sources : queue'[t] >= queue[t] /\ queue'[t] + freed'[t] <= Slots
    <3> DEFINE full == IF queue[s] + f < Slots THEN queue[s] + 1 ELSE queue[s]
    <3>1. full \in 0..Slots /\ full >= queue[s] /\ full + f <= Slots
      BY <1>0, <2>3, PushCounts
    <3>2. queue' = [queue EXCEPT ![s] = full]
      BY <2>2
    <3> HIDE DEF full
    <3>3. freed' \in [Sources -> 0..Slots] /\ queue' \in [Sources -> 0..Slots]
      BY <2>2, <2>3, <3>1, <3>2
    <3>4. ASSUME NEW t \in Sources
          PROVE  queue'[t] >= queue[t] /\ queue'[t] + freed'[t] <= Slots
      <4>1. CASE t = s
        BY <2>2, <3>1, <3>2, <4>1
      <4>2. CASE t # s
        <5>1. queue'[t] = queue[t] /\ freed'[t] = freed[t]
          BY <2>2, <3>2, <4>2
        <5>2. queue[t] \in 0..Slots /\ queue[t] + freed[t] <= Slots
          OBVIOUS
        <5>3. QED BY <1>0, <5>1, <5>2
      <4>3. QED BY <4>1, <4>2
    <3>5. QED BY <3>3, <3>4
  <2>5. \A t \in Sources : owed'[t] <= seen'[t] /\ seen'[t] <= queue'[t]
    <3>1. owed' = owed /\ seen' = seen
      BY <1>2 DEF Log
    <3>2. ASSUME NEW t \in Sources PROVE owed[t] <= seen[t] /\ seen[t] <= queue'[t]
      <4>1. seen[t] \in 0..Slots /\ queue[t] \in 0..Slots /\ queue'[t] \in 0..Slots
        BY <2>4
      <4>2. QED BY <1>0, <2>4, <4>1
    <3>3. QED BY <3>1, <3>2
  <2>6. QED BY <1>2, <2>1, <2>4, <2>5 DEF Log
<1>3. ASSUME NEW s \in Sources, EndRound(s) PROVE LoggingInv'
  <2>1. left' \in [Sources -> Nat] /\ \A t \in Sources : left'[t] <= PerRound[t]
    <3>1. left' = [left EXCEPT ![s] = 0]
      BY <1>3 DEF EndRound
    <3>2. ASSUME NEW t \in Sources PROVE left'[t] <= PerRound[t]
      <4>1. left'[t] = (IF t = s THEN 0 ELSE left[t]) /\ left[t] <= PerRound[t]
        BY <3>1
      <4>2. PerRound[t] \in Nat
        BY <1>0
      <4>3. QED BY <4>1, <4>2
    <3>3. QED BY <3>1, <3>2
  <2>2. QED BY <1>3, <2>1 DEF EndRound
<1>4. CASE LoggerCheck
  <2>1. CASE running
    BY <1>0, <1>4, <2>1 DEF LoggerCheck, srcVars
  <2>2. CASE ~running
    <3>1. owed' = seen /\ logPc' = "last" /\ at' = 1 /\ at = 1
      BY <1>4, <2>2 DEF LoggerCheck
    <3>2. \A t \in Sources : seen[t] <= seen[t]
      BY <1>0
    <3>3. QED BY <1>0, <1>4, <2>2, <3>1, <3>2 DEF LoggerCheck, srcVars
  <2>3. QED BY <2>1, <2>2
<1>5. CASE PrintLine
  <2>1. PICK view \in [Sources -> 0..Slots] :
            /\ \A s \in Sources : seen[s] <= view[s] /\ view[s] <= queue[s]
            /\ view[at] > 0
            /\ seen' = [view EXCEPT ![at] = view[at] - 1]
    BY <1>5 DEF PrintLine
  <2> DEFINE rest == IF owed[at] > 0 THEN owed[at] - 1 ELSE 0
  <2>2. /\ queue' = [queue EXCEPT ![at] = queue[at] - 1]
        /\ freed' = [freed EXCEPT ![at] = freed[at] + 1]
        /\ owed' = [owed EXCEPT ![at] = rest]
    BY <1>5 DEF PrintLine
  <2>3. /\ at \in Sources /\ view[at] \in 0..Slots /\ queue[at] \in 0..Slots
        /\ freed[at] \in 0..Slots /\ owed[at] \in 0..Slots /\ seen[at] \in 0..Slots
        /\ queue[at] + freed[at] <= Slots
        /\ owed[at] <= seen[at] /\ seen[at] <= view[at] /\ view[at] <= queue[at]
        /\ view[at] > 0 /\ owed[at] <= view[at]
    BY SMTT(30), <1>0, <2>1
  <2>4. /\ queue[at] - 1 \in 0..Slots /\ freed[at] + 1 \in 0..Slots
        /\ view[at] - 1 \in 0..Slots /\ rest \in 0..Slots
        /\ (queue[at] - 1) + (freed[at] + 1) <= Slots
        /\ rest <= view[at] - 1 /\ view[at] - 1 <= queue[at] - 1 /\ rest <= owed[at]
    <3>1. Slots \in Nat
      BY <1>0
    <3>2. view[at] > 0 /\ owed[at] <= view[at]
      BY <2>3
    <3>3. QED BY ONLY <2>3, <3>1, <3>2, PopCounts DEF rest
  <2> HIDE DEF rest
  <2>5. /\ queue' \in [Sources -> 0..Slots] /\ freed' \in [Sources -> 0..Slots]
        /\ seen' \in [Sources -> 0..Slots] /\ owed' \in [Sources -> 0..Slots]
    BY <2>1, <2>2, <2>4
  <2>6. ASSUME NEW t \in Sources
        PROVE  /\ queue'[t] + freed'[t] <= Slots
               /\ owed'[t] <= seen'[t] /\ seen'[t] <= queue'[t] /\ owed'[t] <= owed[t]
    <3>1. CASE t = at
      BY <2>1, <2>2, <2>4, <3>1
    <3>2. CASE t # at
      <4>1. /\ queue'[t] = queue[t] /\ freed'[t] = freed[t] /\ seen'[t] = view[t]
            /\ owed'[t] = owed[t]
        BY <2>1, <2>2, <3>2
      <4>2. /\ owed[t] \in 0..Slots /\ seen[t] \in 0..Slots /\ view[t] \in 0..Slots
            /\ owed[t] <= seen[t] /\ seen[t] <= view[t] /\ view[t] <= queue[t]
            /\ queue[t] + freed[t] <= Slots
        BY <2>1
      <4>3. QED BY SMTT(30), <1>0, <4>1, <4>2
    <3>3. QED BY <3>1, <3>2
  <2>7. /\ logPc \in {"check", "drain"} => \A t \in Sources : owed'[t] = 0
        /\ logPc = "last" => \A t \in 1..at - 1 : owed'[t] = 0
    <3>1. ASSUME NEW t \in Sources, owed[t] = 0 PROVE owed'[t] = 0
      <4>1. owed'[t] \in 0..Slots /\ owed'[t] <= 0
        BY <2>5, <2>6, <3>1
      <4>2. QED BY SMTT(30), <1>0, <4>1
    <3>2. ASSUME logPc \in {"check", "drain"}, NEW t \in Sources PROVE owed'[t] = 0
      <4>1. owed[t] = 0
        BY <3>2
      <4>2. QED BY <3>1, <4>1
    <3>3. ASSUME logPc = "last", NEW t \in 1..at - 1 PROVE owed'[t] = 0
      <4>1. owed[t] = 0
        BY <3>3
      <4>2. t \in Sources
        BY <1>0, <2>3
      <4>3. QED BY <3>1, <4>1, <4>2
    <3>4. QED BY <3>2, <3>3
  <2>8. QED BY <1>5, <2>5, <2>6, <2>7 DEF PrintLine, Draining, srcVars
<1>6. CASE NextSource
  <2>1. owed[at] = 0
    <3>1. owed[at] \in 0..Slots /\ owed[at] <= 0
      BY <1>6 DEF NextSource
    <3>2. QED BY <1>0, <3>1
  <2>2. CASE at < NSources
    <3>1. at' \in Sources /\ at' = at + 1 /\ logPc' = logPc
      BY <1>0, <1>6, <2>2 DEF NextSource
    <3>2. logPc = "last" => \A t \in 1..at' - 1 : owed[t] = 0
      BY <2>1, <3>1
    <3>3. QED BY <1>6, <3>1, <3>2 DEF NextSource, Draining, srcVars
  <2>3. CASE ~(at < NSources)
    <3>1. at = NSources
      BY <1>0, <2>3
    <3>2. logPc = "last" => \A t \in Sources : owed[t] = 0
      BY <2>1, <3>1
    <3>3. at' \in Sources /\ at' = 1
      BY <1>0, <1>6, <2>3 DEF NextSource
    <3>4. QED BY <1>6, <2>3, <3>2, <3>3 DEF NextSource, Draining, srcVars
  <2>4. QED BY <2>2, <2>3
<1>7. CASE Stop
  BY <1>0, <1>7 DEF Stop, srcVars
<1>8. CASE UNCHANGED logVars
  BY <1>8 DEF logVars, srcVars
<1>9. CASE Exit
  BY <1>8, <1>9 DEF Exit
<1>10. QED
  BY <1>1, <1>2, <1>3, <1>4, <1>5, <1>6, <1>7, <1>8, <1>9
     DEF LoggingNext, Source, Logger

(***************************************************************************)
(* The invariant behind the last drain, with pops and pushes that may find *)
(* old indices.                                                            *)
(***************************************************************************)
THEOREM LoggingInvariant == LoggingSpec => []LoggingInv
<1>1. LoggingInit => LoggingInv
  BY InitInv
<1>2. LoggingInv /\ [LoggingNext]_logVars => LoggingInv'
  BY NextInv
<1>3. QED BY <1>1, <1>2, PTL DEF LoggingSpec

(***************************************************************************)
(* The extra drain_once prints every line the logger was bound to see when *)
(* it read that the flag is cleared.                                       *)
(***************************************************************************)
THEOREM LastDrainSuffices == LoggingSpec => []KnownLinesArePrinted
<1>1. LoggingInv => KnownLinesArePrinted
  BY DEF LoggingInv
<1>2. QED BY <1>1, LoggingInvariant, PTL

==============================================================================
