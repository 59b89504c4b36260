-------------------------- MODULE TradingLoop_proofs --------------------------
(***************************************************************************)
(* For any number of events, any position limit and any sizes of the rings *)
(* and of the connection's buffers, failing or not.  Three inductive       *)
(* invariants, each resting on the one before it:                          *)
(*                                                                         *)
(*   the types, the flow control and the doorbells: no wake-up of thread B *)
(*   is lost and nothing waits for room;                                   *)
(*                                                                         *)
(*   CountInv and InOrderInv: what is counted in each place the orders     *)
(*   pass through adds up, and the reports of the orders come back in the  *)
(*   order the orders left, so that the position stays in range;           *)
(*                                                                         *)
(*   AccountInv: every quantity on its way is the one in the order book,   *)
(*   so that every order is accounted for.                                 *)
(*                                                                         *)
(* Last, where everything can stop, and the ring of orders as a queue.     *)
(***************************************************************************)
EXTENDS TradingLoop, TLAPS, FiniteSetTheorems, SequenceTheorems

(* Taking the head of a sequence, in the form the steps use it. *)
LEMMA TakeHead ==
    ASSUME NEW S, NEW s \in Seq(S), s # <<>>
    PROVE  /\ Head(s) \in S
           /\ Tail(s) \in Seq(S)
           /\ Len(Tail(s)) = Len(s) - 1
           /\ Len(s) \in Nat /\ Len(s) > 0
  BY HeadTailProperties, LenProperties, EmptySeq

(* Appending to a sequence. *)
LEMMA AddLast ==
    ASSUME NEW S, NEW s \in Seq(S), NEW e \in S
    PROVE  /\ Append(s, e) \in Seq(S)
           /\ Len(Append(s, e)) = Len(s) + 1
           /\ Len(s) \in Nat
  BY AppendProperties, LenProperties

(* Ready handlers, in any order, are a sequence of handlers. *)
LEMMA HandlersType ==
    ASSUME NEW first \in SetToSeqs(ReadyHandlers)
    PROVE  Append(first, "bell") \in Seq({"bell", "read"})
  <1>1. ReadyHandlers \subseteq {"bell", "read"}
    BY DEF ReadyHandlers
  <1>2. IsFiniteSet({"bell", "read"})
    <2>1. IsFiniteSet({"bell"})
      BY FS_Singleton
    <2>2. IsFiniteSet({"bell"} \cup {"read"})
      BY <2>1, FS_AddElement
    <2>3. {"bell"} \cup {"read"} = {"bell", "read"}
      OBVIOUS
    <2> QED BY <2>2, <2>3
  <1>3. Cardinality(ReadyHandlers) \in Nat
    BY <1>1, <1>2, FS_Subset, FS_CardinalityType
  <1>4. first \in [1..Cardinality(ReadyHandlers) -> ReadyHandlers]
    BY DEF SetToSeqs
  <1>5. first \in Seq({"bell", "read"})
    <2>1. first \in [1..Cardinality(ReadyHandlers) -> {"bell", "read"}]
      BY <1>1, <1>4
    <2> QED BY <1>3, <2>1, SeqDef
  <1>6. "bell" \in {"bell", "read"}
    OBVIOUS
  <1> QED BY <1>5, <1>6, AddLast, Zenon

(* The empty sequence is one over any set. *)
LEMMA EmptyIsSeq ==
    ASSUME NEW S PROVE <<>> \in Seq(S) /\ Len(<<>>) = 0
  BY EmptySeq

(* Acknowledgements have odd numbers, fills even ones. *)
LEMMA NumberType ==
    ASSUME NEW e \in Execs
    PROVE  /\ e.id \in Nat /\ Number(e) \in Int
           /\ e.type = "Ack" => Number(e) % 2 = 1 /\ Number(e) = 2 * e.id - 1
           /\ e.type = "Fill" => Number(e) % 2 = 0 /\ Number(e) = 2 * e.id
           /\ e.type \in {"Ack", "Fill"}
  <1>1. e.id \in Nat /\ e.type \in {"Ack", "Fill"}
    BY DEF Execs
  <1>2. ASSUME NEW n \in Nat PROVE (2 * n - 1) % 2 = 1 /\ (2 * n) % 2 = 0
    BY SMTT(30)
  <1> QED BY <1>1, <1>2 DEF Number

LEMMA InitType == Init => TypeOK
  <1> SUFFICES ASSUME Init PROVE TypeOK
    OBVIOUS
  <1>1. /\ pending \in Seq(Execs) /\ toStrat \in Seq(Execs) /\ wireIn \in Seq(Execs)
        /\ toOms \in Seq(Nat)
        /\ todo \in Seq({"bell", "read"})
        /\ orders \in Seq([qty : Nat, state : {"Ack", "Fill"}, filled : Nat])
        /\ wireOut \in Seq([id : Nat, qty : Nat])
    BY EmptyIsSeq, Zenon DEF Init
  <1>2. Len(toOms) = 0 /\ Len(toStrat) = 0 /\ Len(wireIn) = 0
        /\ Len(wireOut) = 0 /\ Len(orders) = 0
    BY EmptyIsSeq, Zenon DEF Init
  <1>3. NoOrder \in [id : Nat, qty : Nat]
    BY DEF NoOrder
  <1>4. /\ event \in 0..MaxEvents /\ position \in Int /\ drained \in Nat /\ applied \in Int
        /\ missed \in [{"Ack", "Fill"} -> Nat]
        /\ bellB \in Nat /\ bellA \in Nat
        /\ nextId \in Nat \ {0} /\ nextId - 1 = 0
        /\ 0 <= RingSlots /\ 0 <= WireFrames
    BY TradingLoopAssumption DEF Init
  <1>5. /\ sending \in [id : Nat, qty : Nat] /\ xOrder \in [id : Nat, qty : Nat]
        /\ active \in BOOLEAN /\ running \in BOOLEAN /\ edge \in BOOLEAN
        /\ aPc = "bell" /\ bPc = "loop" /\ conn = "connecting" /\ xPc = "recv"
    BY <1>3 DEF Init
  <1> QED
    BY <1>1, <1>2, <1>4, <1>5 DEF TypeOK

------------------------------------------------------------------------------
(* Steps of thread A keep the types. *)
LEMMA ThreadAType ==
    ASSUME TypeOK, EventsLeft, ThreadA PROVE TypeOK'
  <1> USE DEF TypeOK
  <1>1. CASE DrainBellA
    BY <1>1 DEF DrainBellA, strategyVars, beyondA, omsVars, omsData, netVars, simexVars
  <1>2. CASE PopExec
    <2>1. /\ Head(toStrat) \in Execs /\ Tail(toStrat) \in Seq(Execs)
          /\ Len(Tail(toStrat)) = Len(toStrat) - 1 /\ Len(toStrat) \in Nat
      BY <1>2, TakeHead DEF PopExec
    <2>2. pending' \in Seq(Execs)
      BY <1>2, <2>1, AddLast DEF PopExec
    <2>3. toStrat' \in Seq(Execs) /\ Len(toStrat') <= RingSlots
      BY <1>2, <2>1, TradingLoopAssumption DEF PopExec
    <2> QED
      BY <1>2, <2>2, <2>3 DEF PopExec, beyondA, omsVars, omsData, netVars, simexVars
  <1>3. CASE PopNoExec
    BY <1>3 DEF PopNoExec, strategyVars, ringVars, beyondA, omsVars, omsData, netVars, simexVars
  <1>4. ASSUME NEW qty \in Nat, SendOrder(qty) PROVE TypeOK'
    BY <1>4, AddLast, TradingLoopAssumption
       DEF SendOrder, MaySend, beyondA, omsVars, omsData, netVars, simexVars
  <1>5. CASE DecideClose
    <2>1. Abs(position) \in Nat
      BY DEF Abs
    <2> QED BY <1>4, <1>5, <2>1 DEF DecideClose
  <1>6. CASE DecideEntry
    BY <1>4, <1>6 DEF DecideEntry
  <1>7. CASE DecideNothing
    BY <1>7 DEF DecideNothing, strategyVars, ringVars, beyondA, omsVars, omsData, netVars, simexVars
  <1>8. CASE RingDoorbell
    BY <1>8 DEF RingDoorbell, strategyVars, beyondA, omsVars, omsData, netVars, simexVars
  <1>9. CASE ApplyExec
    <2>1. Head(pending) \in Execs /\ Tail(pending) \in Seq(Execs)
      BY <1>9, TakeHead DEF ApplyExec
    <2>2. position' \in Int
      <3>1. Head(pending).qty \in Int
        BY <2>1, SMTT(30) DEF Execs
      <3>2. SideForCloid(Head(pending).id) \in {1, -1}
        BY DEF SideForCloid
      <3>3. position + SideForCloid(Head(pending).id) * Head(pending).qty \in Int
        BY <3>1, <3>2, SMTT(30)
      <3> QED BY <1>9, <3>3 DEF ApplyExec
    <2>3. active' \in BOOLEAN
      BY <1>9, Zenon DEF ApplyExec
    <2>4. pending' \in Seq(Execs) /\ drained' \in Nat
      BY <1>9, <2>1 DEF ApplyExec
    <2>6. applied' \in Int
      <3>1. Number(Head(pending)) \in Int
        BY <2>1, NumberType
      <3> QED BY <1>9, <3>1 DEF ApplyExec
    <2>5. UNCHANGED <<aPc, event, ringVars, beyondA>>
      BY <1>9 DEF ApplyExec
    <2> QED
      BY <2>2, <2>3, <2>4, <2>5, <2>6 DEF ringVars, beyondA, omsVars, omsData, netVars, simexVars
  <1>10. CASE EndEvent
    BY <1>10, TradingLoopAssumption
       DEF EndEvent, EventsLeft, ringVars, beyondA, omsVars, omsData, netVars, simexVars
  <1>11. CASE Join
    BY <1>11 DEF Join, strategyVars, ringVars, omsVars, omsData, netVars, simexVars
  <1>12. CASE Joined
    BY <1>12 DEF Joined, strategyVars, ringVars, beyondA, omsVars, omsData, netVars, simexVars
  <1> QED
    BY <1>1, <1>2, <1>3, <1>5, <1>6, <1>7, <1>8, <1>9, <1>10, <1>11, <1>12
       DEF ThreadA

(* What sequences of reports and orders become when a report is booked. *)
LEMMA BookedType ==
    ASSUME TypeOK, NEW ex \in Execs
    PROVE  /\ Booked(ex) \in Seq([qty : Nat, state : {"Ack", "Fill"}, filled : Nat])
           /\ Len(Booked(ex)) = Len(orders)
  <1> DEFINE Order == [qty : Nat, state : {"Ack", "Fill"}, filled : Nat]
             o == [qty |-> orders[ex.id].qty, state |-> ex.type,
                   filled |-> orders[ex.id].filled + ex.qty]
  <1>1. orders \in Seq(Order)
    BY DEF TypeOK
  <1>2. Booked(ex) = [orders EXCEPT ![ex.id] = o]
    BY DEF Booked
  <1>3. CASE ex.id \in 1..Len(orders)
    <2>1. orders[ex.id] \in Order
      BY <1>1, <1>3, ElementOfSeq
    <2>2. o \in Order
      BY <2>1 DEF Execs
    <2> HIDE DEF o, Order
    <2>3. [orders EXCEPT ![ex.id] = o] \in Seq(Order)
          /\ Len([orders EXCEPT ![ex.id] = o]) = Len(orders)
      BY <1>1, <1>3, <2>2, ExceptSeq
    <2> QED BY <1>2, <2>3 DEF Order
  <1>4. CASE ex.id \notin 1..Len(orders)
    <2> HIDE DEF o, Order
    <2>1. orders \in [1..Len(orders) -> Order]
      BY <1>1, LenProperties
    <2>2. [orders EXCEPT ![ex.id] = o] = orders
      BY <1>4, <2>1
    <2> QED BY <1>1, <1>2, <2>2 DEF Order
  <1> QED BY <1>3, <1>4

(* Steps of thread B keep the types. *)
LEMMA ThreadBType ==
    ASSUME TypeOK, ThreadB PROVE TypeOK'
  <1> USE DEF TypeOK, strategyVars, threadA, netVars, simexVars, omsData, ringVars
  <1>1. CASE LoopAgain
    BY <1>1 DEF LoopAgain
  <1>2. CASE LoopEnds
    BY <1>2 DEF LoopEnds
  <1>3. CASE EpollReports
    BY <1>3, HandlersType DEF EpollReports
  <1>4. CASE NextHandler
    <2>1. todo # <<>> => Head(todo) \in {"bell", "read"} /\ Tail(todo) \in Seq({"bell", "read"})
      <3>1. todo \in Seq({"bell", "read"})
        OBVIOUS
      <3> QED BY <3>1, TakeHead, Zenon
    <2>2. bPc' \in {"loop", "bell", "read"} /\ todo' \in Seq({"bell", "read"})
      <3>1. CASE todo = <<>>
        BY <1>4, <3>1 DEF NextHandler
      <3>2. CASE todo # <<>>
        BY <1>4, <2>1, <3>2 DEF NextHandler
      <3> QED BY <3>1, <3>2
    <2>3. UNCHANGED <<threadA, ringVars, running, omsData, netVars, simexVars>>
      BY <1>4 DEF NextHandler
    <2> QED BY <2>2, <2>3
  <1>5. CASE DrainBellB
    BY <1>5 DEF DrainBellB
  <1>6. CASE PopRequest
    <2>1. /\ Head(toOms) \in Nat /\ Tail(toOms) \in Seq(Nat)
          /\ Len(Tail(toOms)) = Len(toOms) - 1 /\ Len(toOms) \in Nat
      BY <1>6, TakeHead DEF PopRequest
    <2>2. /\ orders' \in Seq([qty : Nat, state : {"Ack", "Fill"}, filled : Nat])
          /\ Len(orders') = Len(orders) + 1 /\ Len(orders) \in Nat
      BY <1>6, <2>1, AddLast DEF PopRequest
    <2>3. toOms' = Tail(toOms) /\ Len(toOms') <= RingSlots
      BY <1>6, <2>1, TradingLoopAssumption DEF PopRequest
    <2> QED BY <1>6, <2>1, <2>2, <2>3 DEF PopRequest
  <1>7. CASE PopNoRequest
    BY <1>7 DEF PopNoRequest
  <1>8. CASE SendFrame
    <2>1. /\ wireOut' \in Seq([id : Nat, qty : Nat])
          /\ Len(wireOut') = Len(wireOut) + 1 /\ Len(wireOut) \in Nat
      BY <1>8, AddLast DEF SendFrame
    <2> QED BY <1>8, <2>1, TradingLoopAssumption DEF SendFrame, NoOrder
  <1>9. CASE SendLost
    BY <1>9 DEF SendLost, NoOrder
  <1>10. CASE SendKills
    BY <1>10 DEF SendKills
  <1>11. CASE ReadReport
    <2>1. /\ Head(wireIn) \in Execs /\ Tail(wireIn) \in Seq(Execs)
          /\ Len(Tail(wireIn)) = Len(wireIn) - 1 /\ Len(wireIn) \in Nat
      BY <1>11, TakeHead DEF ReadReport
    <2>2. toStrat' \in Seq(Execs) /\ Len(toStrat') <= RingSlots
      <3>1. \/ toStrat' = toStrat
            \/ toStrat' = Append(toStrat, Head(wireIn)) /\ Len(toStrat) < RingSlots
        BY ONLY <1>11 DEF ReadReport
      <3>2. /\ Append(toStrat, Head(wireIn)) \in Seq(Execs) /\ Len(toStrat) \in Nat
            /\ Len(Append(toStrat, Head(wireIn))) = Len(toStrat) + 1
        <4>1. toStrat \in Seq(Execs)
          OBVIOUS
        <4> QED BY ONLY <2>1, <4>1, AddLast
      <3>3. toStrat \in Seq(Execs) /\ Len(toStrat) <= RingSlots
        OBVIOUS
      <3> QED BY ONLY <3>1, <3>2, <3>3, TradingLoopAssumption
    <2>3. /\ orders' \in Seq([qty : Nat, state : {"Ack", "Fill"}, filled : Nat])
          /\ Len(orders') = Len(orders)
      BY <1>11, <2>1, BookedType DEF ReadReport
    <2>4. wireIn' = Tail(wireIn) /\ Len(wireIn') <= WireFrames
      BY <1>11, <2>1, TradingLoopAssumption DEF ReadReport
    <2>5. missed' \in [{"Ack", "Fill"} -> Nat]
      <3>1. missed' = missed \/ missed' = [missed EXCEPT ![Head(wireIn).type] = @ + 1]
        BY <1>11 DEF ReadReport
      <3>2. PICK t \in {"Ack", "Fill"} : t = Head(wireIn).type
        BY <2>1, NumberType
      <3>3. missed \in [{"Ack", "Fill"} -> Nat] /\ missed[t] + 1 \in Nat
        OBVIOUS
      <3>4. [missed EXCEPT ![t] = missed[t] + 1] \in [{"Ack", "Fill"} -> Nat]
        BY <3>3, Zenon
      <3> QED BY <3>1, <3>2, <3>3, <3>4
    <2> QED BY <1>11, <2>1, <2>2, <2>3, <2>4, <2>5 DEF ReadReport
  <1>12. CASE ReadAgain
    BY <1>12 DEF ReadAgain
  <1>13. CASE ReadEof
    BY <1>13 DEF ReadEof
  <1> QED
    BY <1>1, <1>2, <1>3, <1>4, <1>5, <1>6, <1>7, <1>8, <1>9, <1>10, <1>11,
       <1>12, <1>13 DEF ThreadB

(* Steps of the connection and of SimEx keep the types. *)
LEMMA SimExReportType ==
    ASSUME TypeOK, NEW type \in {"Ack", "Fill"}, NEW qty \in Nat,
           SimExReport(type, qty)
    PROVE  /\ wireIn' \in Seq(Execs) /\ Len(wireIn') <= WireFrames
           /\ edge' \in BOOLEAN
  <1> USE DEF TypeOK
  <1>1. CASE conn = "up" /\ Len(wireIn) < WireFrames
             /\ wireIn' = Append(wireIn, Exec(xOrder.id, type, qty)) /\ edge' = TRUE
    <2>1. Exec(xOrder.id, type, qty) \in Execs
      BY DEF Exec, Execs
    <2> QED BY <1>1, <2>1, AddLast, TradingLoopAssumption
  <1>2. CASE conn = "hangup" /\ UNCHANGED <<wireIn, edge>>
    BY <1>2
  <1> QED BY <1>1, <1>2 DEF SimExReport

LEMMA OutsideType ==
    ASSUME TypeOK,
           EpollTimesOut \/ EpollFails \/ Connect \/ Refuse \/ SimEx \/ SimExStops
             \/ ProcessOver
    PROVE  TypeOK'
  <1> USE DEF TypeOK, threadA, strategyVars, ringVars, omsVars, omsData
  <1>1. CASE EpollTimesOut
    <2>1. todo' \in Seq({"bell", "read"})
      BY <1>1, EmptyIsSeq, AddLast DEF EpollTimesOut
    <2> QED BY <1>1, <2>1 DEF EpollTimesOut, netVars, simexVars
  <1>2. CASE Connect
    BY <1>2 DEF Connect, simexVars
  <1>3. CASE Refuse
    BY <1>3 DEF Refuse
  <1>4. CASE SimExRecv
    <2>1. /\ Head(wireOut) \in [id : Nat, qty : Nat]
          /\ Tail(wireOut) \in Seq([id : Nat, qty : Nat])
          /\ Len(Tail(wireOut)) = Len(wireOut) - 1 /\ Len(wireOut) \in Nat
      BY <1>4, TakeHead DEF SimExRecv
    <2>2. /\ xOrder' \in [id : Nat, qty : Nat] /\ xPc' = "ack"
          /\ wireOut' \in Seq([id : Nat, qty : Nat]) /\ Len(wireOut') <= WireFrames
      BY <1>4, <2>1, TradingLoopAssumption, SMTT(30) DEF SimExRecv
    <2>3. UNCHANGED <<threadA, ringVars, running, omsVars, edge, conn, wireIn>>
      BY <1>4 DEF SimExRecv
    <2> QED BY <2>2, <2>3, SMTT(30)
  <1>5. CASE SimExAck
    BY <1>5, SimExReportType DEF SimExAck
  <1>6. CASE SimExFill
    <2>1. xOrder.qty \in Nat
      OBVIOUS
    <2> QED BY <1>6, <2>1, SimExReportType DEF SimExFill, NoOrder
  <1>7. CASE SimExClientGone
    <2>1. wireOut' \in Seq([id : Nat, qty : Nat]) /\ Len(wireOut') <= WireFrames
      BY <1>7, EmptyIsSeq, TradingLoopAssumption DEF SimExClientGone
    <2> QED BY <1>7, <2>1 DEF SimExClientGone
  <1>8. CASE SimExStops
    <2>1. wireOut' \in Seq([id : Nat, qty : Nat]) /\ Len(wireOut') <= WireFrames
      BY <1>8, EmptyIsSeq, TradingLoopAssumption DEF SimExStops
    <2> QED BY <1>8, <2>1 DEF SimExStops, NoOrder
  <1>9. CASE ProcessOver
    BY <1>9 DEF ProcessOver, vars, beyondA, netVars, simexVars
  <1>10. CASE SimExKilled
    BY <1>10 DEF SimExKilled, NoOrder, netVars
  <1>11. CASE EpollFails
    BY <1>11 DEF EpollFails, simexVars
  <1> QED
    BY <1>1, <1>2, <1>3, <1>4, <1>5, <1>6, <1>7, <1>8, <1>9, <1>10, <1>11 DEF SimEx

------------------------------------------------------------------------------
(* The main loop runs only while events are left. *)
LEMMA EventsLeftStep ==
    ASSUME TypeOK, EventsLeft, [Next]_vars PROVE EventsLeft'
  <1> USE DEF EventsLeft
  <1>1. CASE ThreadA
    BY <1>1 DEF TypeOK, ThreadA, DrainBellA, PopExec, PopNoExec, DecideClose,
       DecideEntry, SendOrder, DecideNothing, RingDoorbell, ApplyExec, EndEvent,
       Join, Joined, strategyVars
  <1>2. CASE ThreadB
    BY <1>2 DEF ThreadB, LoopAgain, LoopEnds, EpollReports, NextHandler,
       DrainBellB, PopRequest, PopNoRequest, SendFrame, SendLost, SendKills,
       ReadReport, ReadAgain, ReadEof, threadA, strategyVars
  <1>3. CASE EpollTimesOut \/ EpollFails \/ Connect \/ Refuse \/ SimEx \/ SimExStops
    BY <1>3 DEF EpollTimesOut, EpollFails, Connect, Refuse, SimEx, SimExRecv, SimExAck,
       SimExFill, SimExClientGone, SimExKilled, SimExStops, threadA, strategyVars
  <1>4. CASE ProcessOver \/ UNCHANGED vars
    BY <1>4 DEF ProcessOver, vars, threadA, strategyVars
  <1> QED BY <1>1, <1>2, <1>3, <1>4 DEF Next

(* Only a send adds to Sent, and it sets active_order_; only drain_execs   *)
(* clears active_order_, and it counts the update; taking a request from   *)
(* the ring gives it an id.                                                *)
LEMMA FlowControlStep ==
    ASSUME TypeOK, FlowControl, [Next]_vars PROVE FlowControl'
  <1> USE DEF FlowControl, Sent
  <1>1. Len(toOms) \in Nat /\ nextId \in Nat /\ drained \in Nat /\ active \in BOOLEAN
    BY LenProperties DEF TypeOK
  <1>2. ASSUME NEW qty \in Nat, SendOrder(qty) PROVE FlowControl'
    <2>1. Len(toOms') = Len(toOms) + 1
      BY <1>2, AddLast DEF SendOrder, TypeOK
    <2> QED
      BY <1>1, <1>2, <2>1 DEF SendOrder, MaySend, beyondA, omsVars, omsData
  <1>3. CASE DecideClose \/ DecideEntry
    <2>1. Abs(position) \in Nat
      BY DEF Abs, TypeOK
    <2> QED BY <1>2, <1>3, <2>1 DEF DecideClose, DecideEntry
  <1>4. CASE ApplyExec
    BY <1>1, <1>4 DEF ApplyExec, ringVars, beyondA, omsVars, omsData
  <1>5. CASE PopRequest
    <2>1. Len(toOms') = Len(toOms) - 1
      BY <1>5, TakeHead DEF PopRequest, TypeOK
    <2> QED BY <1>1, <1>5, <2>1 DEF PopRequest, threadA, strategyVars
  <1>6. CASE UNCHANGED <<nextId, toOms, drained, active>>
    BY <1>6
  <1> QED
    BY <1>3, <1>4, <1>5, <1>6
       DEF Next, ThreadA, DrainBellA, PopExec, PopNoExec, DecideNothing,
           RingDoorbell, EndEvent, Join, Joined,
           ThreadB, LoopAgain, LoopEnds, EpollReports, NextHandler, DrainBellB,
           PopNoRequest, SendFrame, SendLost, SendKills, ReadReport, ReadAgain,
           ReadEof, EpollTimesOut, EpollFails, Connect, Refuse, SimEx, SimExRecv, SimExAck,
           SimExFill, SimExClientGone, SimExKilled, SimExStops, ProcessOver,
           threadA, strategyVars, ringVars, omsVars, omsData, beyondA, vars

LEMMA LoopInvStep == LoopInv /\ [Next]_vars => LoopInv'
  <1> SUFFICES ASSUME LoopInv, [Next]_vars PROVE LoopInv'
    OBVIOUS
  <1>1. TypeOK'
    <2>1. CASE UNCHANGED vars
      BY <2>1 DEF LoopInv, TypeOK, vars, threadA, strategyVars, ringVars, omsVars,
         omsData, netVars, simexVars
    <2> QED BY <2>1, ThreadAType, ThreadBType, OutsideType DEF LoopInv, Next
  <1> QED BY <1>1, EventsLeftStep, FlowControlStep DEF LoopInv

LEMMA InitLoopInv == Init => LoopInv
  <1> SUFFICES ASSUME Init PROVE EventsLeft /\ FlowControl
    BY InitType DEF LoopInv
  <1>1. Len(toOms) = 0
    BY EmptyIsSeq, Zenon DEF Init
  <1> QED
    BY <1>1, TradingLoopAssumption DEF Init, EventsLeft, FlowControl, Sent

(***************************************************************************)
(* The loop's inductive invariant holds in every reachable state.          *)
(***************************************************************************)
THEOREM LoopInvariant == Spec => []LoopInv
  BY InitLoopInv, LoopInvStep, PTL DEF Spec

(***************************************************************************)
(* Types, for every number of events and all buffer sizes, in particular   *)
(* that neither ring and neither direction of the connection overfills.    *)
(***************************************************************************)
THEOREM TypeCorrect == Spec => []TypeOK
  BY LoopInvariant, PTL DEF LoopInv

(***************************************************************************)
(* However updates and orders race, and whether or not the ring drops any  *)
(* or SimEx fails: all orders but one are paid for by handled updates.     *)
(***************************************************************************)
THEOREM FlowIsControlled == Spec => []FlowControl
  BY LoopInvariant, PTL DEF LoopInv

------------------------------------------------------------------------------
(* A push leads to "ring", ringing raises the doorbell, and only thread B, *)
(* about to empty the ring, silences it.                                   *)
LEMMA NoRequestSleepsStep ==
    ASSUME TypeOK, NoRequestSleeps, [Next]_vars PROVE NoRequestSleeps'
  <1> USE DEF NoRequestSleeps
  <1>1. bellB \in Nat
    BY DEF TypeOK
  <1>2. CASE DecideClose \/ DecideEntry
    BY <1>2 DEF DecideClose, DecideEntry, SendOrder
  <1>3. CASE RingDoorbell
    BY <1>1, <1>3 DEF RingDoorbell
  <1>4. CASE DrainBellB \/ PopRequest \/ PopNoRequest \/ SendFrame \/ SendLost \/ SendKills
    BY <1>4 DEF DrainBellB, PopRequest, PopNoRequest, SendFrame, SendLost, SendKills, ringVars
  <1>5. CASE DrainBellA \/ PopExec \/ PopNoExec \/ DecideNothing \/ ApplyExec
             \/ EndEvent \/ Join \/ Joined
    BY <1>5 DEF DrainBellA, PopExec, PopNoExec, DecideNothing, ApplyExec, EndEvent,
       Join, Joined, ringVars, beyondA, omsVars
  <1>6. CASE LoopAgain \/ LoopEnds \/ EpollReports \/ NextHandler
             \/ ReadReport \/ ReadAgain \/ ReadEof \/ EpollTimesOut \/ EpollFails
    BY <1>6 DEF LoopAgain, LoopEnds, EpollReports, NextHandler, ReadReport,
       ReadAgain, ReadEof, EpollTimesOut, EpollFails, ringVars, threadA
  <1>7. CASE Connect \/ Refuse \/ SimEx \/ SimExStops \/ ProcessOver \/ UNCHANGED vars
    BY <1>7 DEF Connect, Refuse, SimEx, SimExRecv, SimExAck, SimExFill,
       SimExClientGone, SimExKilled, SimExStops, ProcessOver, vars, ringVars,
       threadA, omsVars
  <1> QED
    BY <1>2, <1>3, <1>4, <1>5, <1>6, <1>7 DEF Next, ThreadA, ThreadB

(***************************************************************************)
(* No request sleeps in the ring, for any sizes of rings and buffers.      *)
(***************************************************************************)
THEOREM RequestsAreAnnounced == Spec => []NoRequestSleeps
  <1>1. Init => NoRequestSleeps
    BY DEF Init, NoRequestSleeps
  <1>2. TypeOK /\ NoRequestSleeps /\ [Next]_vars => NoRequestSleeps'
    BY NoRequestSleepsStep
  <1> QED
    BY <1>1, <1>2, TypeCorrect, PTL DEF Spec

------------------------------------------------------------------------------
(***************************************************************************)
(* Reports: what makes NoReportSleeps inductive is that no handler is left *)
(* to be called when thread B gets back to epoll_wait.                     *)
(***************************************************************************)
ReportInv ==
    /\ NoReportSleeps
    /\ bPc \in {"loop", "wait"} => todo = <<>>

(* SetToSeqs puts every handler that is ready on the list. *)
LEMMA AllReadyAreCalled ==
    ASSUME NEW first \in SetToSeqs(ReadyHandlers), "read" \in ReadyHandlers
    PROVE  \E i \in DOMAIN Append(first, "bell") : Append(first, "bell")[i] = "read"
  <1>1. /\ first \in [1..Cardinality(ReadyHandlers) -> ReadyHandlers]
        /\ \A i, j \in 1..Cardinality(ReadyHandlers) : i # j => first[i] # first[j]
    BY DEF SetToSeqs
  <1>2. ReadyHandlers = {"read"} \/ ReadyHandlers = {"read"} \cup {"bell"}
    BY DEF ReadyHandlers
  <1>3. IsFiniteSet({"read"}) /\ Cardinality({"read"}) = 1
    BY FS_Singleton
  <1>4. Cardinality({"read"} \cup {"bell"}) = 2
    BY <1>3, FS_AddElement
  <1>5. Cardinality(ReadyHandlers) \in {1, 2}
    BY <1>2, <1>3, <1>4
  <1>6. first \in Seq(ReadyHandlers) /\ Len(first) = Cardinality(ReadyHandlers)
    BY <1>1, <1>5
  <1>7. PICK k \in 1..Cardinality(ReadyHandlers) : first[k] = "read"
    <2>1. CASE ReadyHandlers = {"read"}
      BY <1>1, <1>3, <2>1
    <2>2. CASE ReadyHandlers = {"read"} \cup {"bell"}
      <3>1. first[1] \in {"read", "bell"} /\ first[2] \in {"read", "bell"} /\ first[1] # first[2]
        BY <1>1, <1>4, <2>2
      <3> QED BY <1>4, <2>2, <3>1
    <2> QED BY <1>2, <2>1, <2>2
  <1> QED BY <1>5, <1>6, <1>7

(* Taking a handler that is not the read leaves the read on the list. *)
LEMMA ReadStaysOnTheList ==
    ASSUME todo \in Seq({"bell", "read"}), todo # <<>>, Head(todo) # "read",
           NEW i \in DOMAIN todo, todo[i] = "read"
    PROVE  \E j \in DOMAIN Tail(todo) : Tail(todo)[j] = "read"
  <1>1. i \in 2..Len(todo)
    OBVIOUS
  <1>2. i - 1 \in 1..Len(Tail(todo)) /\ Tail(todo)[i - 1] = todo[i]
    BY <1>1
  <1> QED BY <1>2

LEMMA ReportInvStep ==
    ASSUME TypeOK, ReportInv, [Next]_vars PROVE ReportInv'
  <1> USE DEF ReportInv, NoReportSleeps
  <1>1. CASE EpollReports
    <2>1. wireIn # <<>> => "read" \in ReadyHandlers
      BY <1>1 DEF EpollReports, ReadyHandlers, Readable
    <2> QED BY <1>1, <2>1, AllReadyAreCalled DEF EpollReports
  <1>2. CASE NextHandler
    <2>1. CASE todo = <<>>
      BY <1>2, <2>1 DEF NextHandler, netVars
    <2>2. CASE todo # <<>>
      <3>1. /\ bPc' = Head(todo) /\ todo' = Tail(todo) /\ bPc = "handle"
            /\ wireIn' = wireIn /\ edge' = edge
        BY <1>2, <2>2 DEF NextHandler, netVars
      <3>2. todo \in Seq({"bell", "read"}) /\ Head(todo) \in {"bell", "read"}
        BY <2>2, TakeHead, Zenon DEF TypeOK
      <3> QED BY <2>2, <3>1, <3>2, ReadStaysOnTheList
    <2> QED BY <2>1, <2>2
  <1>3. CASE EpollTimesOut \/ EpollFails
    BY <1>3 DEF EpollTimesOut, EpollFails, netVars
  <1>4. CASE ReadReport \/ ReadAgain \/ ReadEof
    BY <1>4 DEF ReadReport, ReadAgain, ReadEof, netVars
  <1>5. CASE LoopAgain \/ LoopEnds \/ DrainBellB \/ PopRequest \/ PopNoRequest
             \/ SendFrame \/ SendLost \/ SendKills
    BY <1>5 DEF LoopAgain, LoopEnds, DrainBellB, PopRequest, PopNoRequest,
       SendFrame, SendLost, SendKills, netVars
  <1>6. CASE ThreadA
    BY <1>6 DEF ThreadA, DrainBellA, PopExec, PopNoExec, DecideClose, DecideEntry,
       SendOrder, DecideNothing, RingDoorbell, ApplyExec, EndEvent, Join, Joined,
       beyondA, omsVars, netVars
  <1>7. CASE SimExAck \/ SimExFill
    BY <1>7 DEF SimExAck, SimExFill, SimExReport, omsVars
  <1>8. CASE Connect \/ Refuse \/ SimExRecv \/ SimExClientGone \/ SimExKilled
             \/ SimExStops \/ ProcessOver \/ UNCHANGED vars
    BY <1>8 DEF Connect, Refuse, SimExRecv, SimExClientGone, SimExKilled, SimExStops,
       ProcessOver, vars, omsVars, netVars
  <1> QED
    BY <1>1, <1>2, <1>3, <1>4, <1>5, <1>6, <1>7, <1>8 DEF Next, ThreadB, SimEx

(***************************************************************************)
(* No report sleeps on the edge-triggered socket.                          *)
(***************************************************************************)
THEOREM ReportsAreRead == Spec => []NoReportSleeps
  <1>1. Init => ReportInv
    BY DEF Init, ReportInv, NoReportSleeps
  <1>2. TypeOK /\ ReportInv /\ [Next]_vars => ReportInv'
    BY ReportInvStep
  <1>3. ReportInv => NoReportSleeps
    BY DEF ReportInv
  <1> QED
    BY <1>1, <1>2, <1>3, TypeCorrect, PTL DEF Spec

------------------------------------------------------------------------------
(***************************************************************************)
(* Counting.  An event sends one order at most, and an order is answered   *)
(* by two reports, each owed by whoever has the order or already on its    *)
(* way.  So the wire, and the ring, have room for all there can be.        *)
(***************************************************************************)
Alive == conn \in {"connecting", "up"}

(* Steps on which no order and no report moves. *)
Quiet ==
    /\ UNCHANGED <<position, pending, drained, applied, toOms, toStrat, missed, nextId,
                   orders, sending, wireOut, wireIn, xPc, xOrder>>
    /\ bPc' = "send" <=> bPc = "send"
    /\ Alive' => Alive

(* Steps after which nothing reaches SimEx, or the strategy, any more. *)
Lost ==
    /\ ~Alive'
    /\ UNCHANGED <<position, pending, drained, applied, toOms, toStrat, missed, nextId,
                   orders, wireIn>>
    /\ wireOut' \in {wireOut, <<>>}
    /\ bPc' = "send" => bPc = "send" /\ sending' = sending
    /\ (xPc' = xPc /\ xOrder' = xOrder) \/ xPc' = "gone"

LEMMA StepKinds ==
    ASSUME TypeOK, [Next]_vars
    PROVE  \/ Quiet \/ Lost
           \/ DecideClose \/ DecideEntry \/ PopExec \/ ApplyExec
           \/ PopRequest \/ SendFrame \/ ReadReport
           \/ SimExRecv \/ SimExAck \/ SimExFill
  <1> USE DEF Quiet, Lost, Alive
  <1>1. CASE DrainBellA \/ PopNoExec \/ DecideNothing \/ RingDoorbell \/ EndEvent
             \/ Join \/ Joined
    BY <1>1 DEF DrainBellA, PopNoExec, DecideNothing, RingDoorbell, EndEvent, Join, Joined,
       strategyVars, ringVars, beyondA, omsVars, omsData, netVars, simexVars
  <1>2. CASE LoopAgain \/ LoopEnds \/ EpollReports \/ DrainBellB \/ PopNoRequest
             \/ ReadAgain \/ ReadEof \/ EpollTimesOut \/ EpollFails
    BY <1>2 DEF LoopAgain, LoopEnds, EpollReports, DrainBellB, PopNoRequest, ReadAgain,
       ReadEof, EpollTimesOut, EpollFails, threadA, strategyVars, ringVars, omsData, netVars,
       simexVars
  <1>3. CASE NextHandler
    <2>1. todo # <<>> => Head(todo) \in {"bell", "read"}
      BY TakeHead, Zenon DEF TypeOK
    <2> QED BY <1>3, <2>1 DEF NextHandler, threadA, strategyVars, ringVars, omsData,
            netVars, simexVars
  <1>4. CASE SendLost \/ SendKills
    BY <1>4 DEF SendLost, SendKills, threadA, strategyVars, ringVars, omsData, netVars, simexVars
  <1>5. CASE Refuse \/ SimExClientGone \/ SimExKilled \/ SimExStops
    BY <1>5 DEF Refuse, SimExClientGone, SimExKilled, SimExStops, threadA, strategyVars,
       ringVars, omsVars, omsData, netVars
  <1>6. CASE Connect \/ ProcessOver \/ UNCHANGED vars
    BY <1>6 DEF Connect, ProcessOver, vars, threadA, strategyVars, ringVars, omsVars,
       omsData, netVars, simexVars
  <1> QED
    BY <1>1, <1>2, <1>3, <1>4, <1>5, <1>6 DEF Next, ThreadA, ThreadB, SimEx

(* An event sends one order at most. *)
OrdersPerEvent ==
    /\ Sent <= MaxEvents
    /\ aPc \in {"bell", "pop", "decide"} => Sent <= event
    /\ aPc \in {"ring", "apply"} => Sent <= event + 1

LEMMA SentStep ==
    ASSUME TypeOK, [Next]_vars, ~(DecideClose \/ DecideEntry)
    PROVE  Sent' = Sent
  <1> USE DEF Sent
  <1>1. CASE PopRequest
    <2>1. Len(toOms') = Len(toOms) - 1 /\ Len(toOms) \in Nat
      BY <1>1, TakeHead DEF PopRequest, TypeOK
    <2>2. nextId' = nextId + 1 /\ nextId \in Nat
      BY <1>1 DEF PopRequest, TypeOK
    <2> QED BY <2>1, <2>2
  <1>2. CASE UNCHANGED <<nextId, toOms>>
    BY <1>2
  <1>3. ~PopRequest => UNCHANGED <<nextId, toOms>>
    BY StepKinds
       DEF Quiet, Lost, PopExec, ApplyExec, SendFrame, ReadReport, SimExRecv, SimExAck,
           SimExFill, threadA, strategyVars, ringVars, omsVars, omsData, beyondA
  <1> QED BY <1>1, <1>2, <1>3

LEMMA OrdersPerEventStep ==
    ASSUME LoopInv, OrdersPerEvent, [Next]_vars PROVE OrdersPerEvent'
  <1>1. /\ Sent \in Int /\ event \in Nat
        /\ aPc \in {"bell", "pop", "decide", "ring", "apply"} => event + 1 <= MaxEvents
    BY LenProperties, TradingLoopAssumption DEF LoopInv, TypeOK, EventsLeft, Sent
  <1>2. ASSUME NEW qty \in Nat, SendOrder(qty), aPc = "decide" PROVE OrdersPerEvent'
    <2>1. Len(toOms') = Len(toOms) + 1 /\ Len(toOms) \in Nat
      BY <1>2, AddLast DEF SendOrder, LoopInv, TypeOK
    <2>2. Sent' = Sent + 1
      BY <1>2, <2>1 DEF SendOrder, beyondA, omsVars, omsData, Sent, LoopInv, TypeOK
    <2>3. event' = event /\ aPc' = "ring"
      BY <1>2 DEF SendOrder
    <2> QED BY <1>1, <1>2, <2>2, <2>3, TradingLoopAssumption DEF OrdersPerEvent
  <1>3. CASE DecideClose \/ DecideEntry
    <2>1. Abs(position) \in Nat
      BY DEF Abs, LoopInv, TypeOK
    <2> QED BY <1>2, <1>3, <2>1 DEF DecideClose, DecideEntry
  <1>4. CASE ~(DecideClose \/ DecideEntry)
    <2>1. Sent' = Sent
      BY <1>4, SentStep DEF LoopInv
    <2>2. CASE ThreadA
      <3>1. CASE DrainBellA \/ PopExec \/ PopNoExec \/ DecideNothing \/ RingDoorbell
                 \/ ApplyExec
        BY <1>1, <2>1, <3>1 DEF OrdersPerEvent, DrainBellA, PopExec, PopNoExec,
           DecideNothing, RingDoorbell, ApplyExec, strategyVars
      <3>2. CASE EndEvent \/ Join \/ Joined
        BY <1>1, <2>1, <3>2 DEF OrdersPerEvent, EndEvent, Join, Joined
      <3> QED BY <1>4, <2>2, <3>1, <3>2 DEF ThreadA
    <2>3. CASE UNCHANGED threadA
      BY <2>1, <2>3 DEF OrdersPerEvent, threadA, strategyVars
    <2>4. CASE SendKills
      BY <2>1, <2>4 DEF OrdersPerEvent, SendKills
    <2> QED
      BY <2>2, <2>3, <2>4
         DEF Next, ThreadB, LoopAgain, LoopEnds, EpollReports, NextHandler, DrainBellB,
             PopRequest, PopNoRequest, SendFrame, SendLost, ReadReport, ReadAgain,
             ReadEof, EpollTimesOut, EpollFails, Connect, Refuse, SimEx, SimExRecv, SimExAck,
             SimExFill, SimExClientGone, SimExKilled, SimExStops, ProcessOver, vars
  <1> QED BY <1>3, <1>4

InSimEx == IF xPc \in {"ack", "fill"} THEN 1 ELSE 0
InSend  == IF bPc = "send" THEN 1 ELSE 0
Owed    == CASE xPc = "ack" -> 2 [] xPc = "fill" -> 1 [] OTHER -> 0

(* Two reports at most for every order the OMS has taken. *)
Budget ==
    drained + Len(pending) + Len(toStrat) + Len(wireIn)
        + Owed + 2 * (Len(wireOut) + InSend) <= 2 * (nextId - 1)

CountInv == LoopInv /\ OrdersPerEvent /\ Budget

LEMMA Counts ==
    ASSUME TypeOK
    PROVE  /\ drained \in Nat /\ nextId \in Nat /\ Len(toOms) \in Nat
           /\ Len(pending) \in Nat /\ Len(toStrat) \in Nat
           /\ Len(wireIn) \in Nat /\ Len(wireOut) \in Nat
           /\ Owed \in {0, 1, 2} /\ InSend \in {0, 1} /\ InSimEx \in {0, 1}
  BY LenProperties DEF TypeOK, Owed, InSend, InSimEx

(* A report leaves SimEx for the wire, or for nowhere. *)
LEMMA ReportIsCounted ==
    ASSUME TypeOK, NEW type, NEW qty, type \in {"Ack", "Fill"}, qty \in Nat,
           SimExReport(type, qty)
    PROVE  Len(wireIn') \in {Len(wireIn), Len(wireIn) + 1}
  <1>1. Exec(xOrder.id, type, qty) \in Execs
    BY DEF Exec, Execs, TypeOK
  <1> QED BY <1>1, AddLast DEF SimExReport, TypeOK

LEMMA BudgetStep ==
    ASSUME TypeOK, Budget, [Next]_vars PROVE Budget'
  <1> USE DEF Budget
  <1>1. /\ drained \in Nat /\ nextId \in Nat
        /\ Len(pending) \in Nat /\ Len(toStrat) \in Nat
        /\ Len(wireIn) \in Nat /\ Len(wireOut) \in Nat
        /\ Owed \in {0, 1, 2} /\ InSend \in {0, 1}
    BY Counts
  <1>2. CASE Quiet
    BY <1>2 DEF Quiet, Owed, InSend
  <1>3. CASE Lost
    <2>1. Len(wireOut') \in {Len(wireOut), 0}
      BY <1>3, EmptyIsSeq, Zenon DEF Lost
    <2>2. InSend' \in {0, InSend} /\ Owed' \in {0, Owed}
      BY <1>3 DEF Lost, InSend, Owed
    <2>3. UNCHANGED <<drained, pending, toStrat, wireIn, nextId>>
      BY <1>3 DEF Lost
    <2>4. /\ Len(wireOut') \in Nat /\ Len(wireOut') <= Len(wireOut)
          /\ InSend' \in Nat /\ InSend' <= InSend
          /\ Owed' \in Nat /\ Owed' <= Owed
      BY <1>1, <2>1, <2>2
    <2> HIDE DEF Budget
    <2> QED BY <1>1, <2>3, <2>4, SMTT(30) DEF Budget
  <1>4. CASE DecideClose \/ DecideEntry
    BY <1>4 DEF DecideClose, DecideEntry, SendOrder, beyondA, omsVars, omsData, netVars,
       simexVars, Owed, InSend
  <1>5. CASE PopExec
    <2>1. Len(pending') = Len(pending) + 1 /\ Len(toStrat') = Len(toStrat) - 1
      BY <1>5, TakeHead, AddLast DEF PopExec, TypeOK
    <2> QED
      BY <1>1, <1>5, <2>1 DEF PopExec, beyondA, omsVars, omsData, netVars, simexVars, Owed, InSend
  <1>6. CASE ApplyExec
    <2>1. Len(pending') = Len(pending) - 1 /\ drained' = drained + 1
      BY <1>6, TakeHead DEF ApplyExec, TypeOK
    <2> QED
      BY <1>1, <1>6, <2>1
         DEF ApplyExec, ringVars, beyondA, omsVars, omsData, netVars, simexVars, Owed, InSend
  <1>7. CASE PopRequest
    <2>1. InSend' = 1 /\ InSend = 0 /\ nextId' = nextId + 1 /\ Owed' = Owed
      BY <1>7 DEF PopRequest, InSend, Owed, simexVars
    <2>2. UNCHANGED <<drained, pending, toStrat, wireIn, wireOut>>
      BY <1>7 DEF PopRequest, threadA, strategyVars, netVars
    <2> QED BY <1>1, <2>1, <2>2
  <1>8. CASE SendFrame
    <2>1. Len(wireOut') = Len(wireOut) + 1
      BY <1>8, AddLast DEF SendFrame, TypeOK
    <2>2. InSend' = 0 /\ InSend = 1 /\ Owed' = Owed
      BY <1>8 DEF SendFrame, InSend, Owed, simexVars
    <2>3. UNCHANGED <<drained, pending, toStrat, wireIn, nextId>>
      BY <1>8 DEF SendFrame, threadA, strategyVars, ringVars
    <2> QED BY <1>1, <2>1, <2>2, <2>3
  <1>9. CASE ReadReport
    <2>1. Len(wireIn') = Len(wireIn) - 1 /\ Len(toStrat') \in {Len(toStrat), Len(toStrat) + 1}
      <3>1. Head(wireIn) \in Execs /\ Len(wireIn') = Len(wireIn) - 1
        BY <1>9, TakeHead DEF ReadReport, TypeOK
      <3>2. Len(Append(toStrat, Head(wireIn))) = Len(toStrat) + 1
        BY <3>1, AddLast DEF TypeOK
      <3>3. toStrat' = toStrat \/ toStrat' = Append(toStrat, Head(wireIn))
        BY <1>9 DEF ReadReport
      <3> QED BY <3>1, <3>2, <3>3
    <2>2. UNCHANGED <<drained, pending, wireOut, nextId, Owed, InSend>>
      BY <1>9 DEF ReadReport, threadA, strategyVars, simexVars, Owed, InSend
    <2> QED BY <1>1, <2>1, <2>2
  <1>10. CASE SimExRecv
    <2>1. Len(wireOut') = Len(wireOut) - 1
      BY <1>10, TakeHead DEF SimExRecv, TypeOK
    <2>2. Owed' = 2 /\ Owed = 0
      BY <1>10 DEF SimExRecv, Owed
    <2>3. UNCHANGED <<drained, pending, toStrat, wireIn, nextId, InSend>>
      BY <1>10 DEF SimExRecv, threadA, strategyVars, ringVars, omsVars, omsData, InSend
    <2> QED BY <1>1, <2>1, <2>2, <2>3
  <1>11. CASE SimExAck \/ SimExFill
    <2>1. Len(wireIn') \in {Len(wireIn), Len(wireIn) + 1}
      <3>1. CASE SimExAck
        BY <3>1, ReportIsCounted DEF SimExAck
      <3>2. CASE SimExFill
        <4>1. xOrder.qty \in Nat
          BY DEF TypeOK
        <4> QED BY <3>2, <4>1, ReportIsCounted DEF SimExFill
      <3> QED BY <1>11, <3>1, <3>2
    <2>2. Owed' = Owed - 1
      BY <1>11 DEF SimExAck, SimExFill, Owed
    <2>3. UNCHANGED <<drained, pending, toStrat, wireOut, nextId, InSend>>
      BY <1>11 DEF SimExAck, SimExFill, threadA, strategyVars, ringVars, omsVars, omsData, InSend
    <2> QED BY <1>1, <2>1, <2>2, <2>3
  <1> QED
    BY <1>2, <1>3, <1>4, <1>5, <1>6, <1>7, <1>8, <1>9, <1>10, <1>11, StepKinds

LEMMA InitCountInv == Init => CountInv
  <1> SUFFICES ASSUME Init PROVE OrdersPerEvent /\ Budget
    BY InitLoopInv DEF CountInv
  <1>1. /\ Len(toOms) = 0 /\ Len(pending) = 0 /\ Len(toStrat) = 0
        /\ Len(wireIn) = 0 /\ Len(wireOut) = 0
    BY EmptyIsSeq, Zenon DEF Init
  <1>2. Owed = 0 /\ InSend = 0
    BY DEF Init, Owed, InSend
  <1> QED
    BY <1>1, <1>2, TradingLoopAssumption DEF Init, OrdersPerEvent, Budget, Sent

LEMMA CountInvStep == CountInv /\ [Next]_vars => CountInv'
  BY LoopInvStep, OrdersPerEventStep, BudgetStep DEF CountInv, LoopInv

THEOREM CountInvariant == Spec => []CountInv
  BY InitCountInv, CountInvStep, PTL DEF Spec

(* What the budget and flow control leave for one buffer. *)
LEMMA RoomLeft ==
    ASSUME CountInv
    PROVE  /\ Len(wireOut) + InSend <= MaxEvents
           /\ xPc \in {"ack", "fill"} => Len(wireIn) <= MaxEvents
           /\ Len(toStrat) + Len(wireIn) <= MaxEvents + 1
  <1>1. /\ drained \in Nat /\ nextId \in Nat /\ Len(toOms) \in Nat
        /\ Len(pending) \in Nat /\ Len(toStrat) \in Nat
        /\ Len(wireIn) \in Nat /\ Len(wireOut) \in Nat
        /\ Owed \in {0, 1, 2} /\ InSend \in {0, 1} /\ MaxEvents \in Nat
    BY Counts, TradingLoopAssumption DEF CountInv, LoopInv
  <1>2. (nextId - 1) + Len(toOms) <= MaxEvents
    BY DEF CountInv, OrdersPerEvent, Sent
  <1>3. (nextId - 1) + Len(toOms) <= drained + 1
    BY <1>1 DEF CountInv, LoopInv, FlowControl, Sent
  <1>4. drained + Len(pending) + Len(toStrat) + Len(wireIn)
            + Owed + 2 * (Len(wireOut) + InSend) <= 2 * (nextId - 1)
    BY DEF CountInv, Budget
  <1>5. xPc \in {"ack", "fill"} => Owed >= 1
    BY DEF Owed
  <1> QED BY <1>1, <1>2, <1>3, <1>4, <1>5

(***************************************************************************)
(* With room on the wire for one frame more than there are events, neither *)
(* send_all nor SimEx's send ever waits.                                   *)
(***************************************************************************)
THEOREM SendersFindRoom == Spec => []SendsNeverWait
  <1>1. CountInv => SendsNeverWait
    <2> SUFFICES ASSUME CountInv, WireFrames > MaxEvents
                 PROVE  /\ bPc = "send" => Len(wireOut) < WireFrames
                        /\ xPc \in {"ack", "fill"} => Len(wireIn) < WireFrames
      BY DEF SendsNeverWait
    <2>1. Len(wireOut) \in Nat /\ Len(wireIn) \in Nat /\ MaxEvents \in Nat /\ WireFrames \in Nat
      BY Counts, TradingLoopAssumption DEF CountInv, LoopInv
    <2>2. bPc = "send" => InSend = 1
      BY DEF InSend
    <2> QED BY <2>1, <2>2, RoomLeft
  <1> QED BY <1>1, CountInvariant, PTL

------------------------------------------------------------------------------
(***************************************************************************)
(* Order.  While the connection lives, the orders the OMS has numbered are *)
(* those SimEx has done with, the one it is handling, those on the wire    *)
(* and the one being sent, in this order and without a gap.                *)
(***************************************************************************)
Done == (nextId - 1) - InSend - Len(wireOut) - InSimEx

OrdersInLine ==
    Alive =>
        /\ Done \in Nat /\ xPc # "gone"
        /\ IF xPc = "recv" THEN xOrder = NoOrder ELSE xOrder.id = Done + 1
        /\ \A i \in 1..Len(wireOut) : wireOut[i].id = Done + InSimEx + i
        /\ IF bPc = "send" THEN sending.id = nextId - 1 ELSE sending = NoOrder

(* Steps that move no order. *)
OrdersStay ==
    /\ UNCHANGED <<nextId, sending, wireOut, xPc, xOrder>>
    /\ bPc' = "send" <=> bPc = "send"
    /\ Alive' => Alive

LEMMA OrderSteps ==
    ASSUME TypeOK, [Next]_vars, Alive'
    PROVE  \/ OrdersStay \/ PopRequest \/ SendFrame \/ SimExRecv
           \/ SimExAck \/ SimExFill
  <1> USE DEF OrdersStay, Alive
  <1>1. CASE Quiet
    BY <1>1 DEF Quiet
  <1>2. CASE DecideClose \/ DecideEntry \/ PopExec \/ ApplyExec \/ ReadReport
    BY <1>2 DEF DecideClose, DecideEntry, SendOrder, PopExec, ApplyExec, ReadReport,
       beyondA, omsVars, omsData, netVars, simexVars
  <1> QED BY <1>1, <1>2, StepKinds DEF Lost

LEMMA OrdersInLineStep ==
    ASSUME TypeOK, OrdersInLine, [Next]_vars PROVE OrdersInLine'
  <1> SUFFICES ASSUME Alive' PROVE OrdersInLine'
    BY DEF OrdersInLine
  <1>1. /\ nextId \in Nat /\ Len(wireOut) \in Nat /\ wireOut \in Seq([id : Nat, qty : Nat])
        /\ InSend \in {0, 1} /\ InSimEx \in {0, 1} /\ Done \in Int
        /\ xPc \in {"recv", "ack", "fill", "gone"}
    BY Counts, SMTT(30) DEF TypeOK, Done
  <1>2. CASE OrdersStay
    BY <1>2 DEF OrdersStay, OrdersInLine, Done, InSend, InSimEx
  <1>3. CASE PopRequest
    <2>1. Alive /\ nextId' = nextId + 1 /\ InSend = 0 /\ InSend' = 1
          /\ bPc' = "send" /\ sending'.id = nextId
      BY <1>3 DEF PopRequest, Alive, netVars, InSend
    <2>2. UNCHANGED <<wireOut, xPc, xOrder, InSimEx>>
      BY <1>3 DEF PopRequest, netVars, simexVars, InSimEx
    <2>3. Done' = Done
      BY <1>1, <2>1, <2>2 DEF Done
    <2> QED BY <1>1, <2>1, <2>2, <2>3 DEF OrdersInLine
  <1>4. CASE SendFrame
    <2>1. Alive /\ nextId' = nextId /\ InSend = 1 /\ InSend' = 0
          /\ bPc = "send" /\ bPc' = "pop" /\ sending' = NoOrder
      BY <1>4 DEF SendFrame, Alive, InSend
    <2>2. UNCHANGED <<xPc, xOrder, InSimEx>>
      BY <1>4 DEF SendFrame, simexVars, InSimEx
    <2>3. wireOut' = Append(wireOut, sending) /\ Len(wireOut') = Len(wireOut) + 1
      BY <1>4, AddLast DEF SendFrame, TypeOK
    <2>4. Done' = Done
      BY <1>1, <2>1, <2>2, <2>3 DEF Done
    <2>5. sending.id = Done + InSimEx + Len(wireOut) + 1
      <3>1. sending.id = nextId - 1
        BY <2>1 DEF OrdersInLine
      <3> QED BY <1>1, <2>1, <3>1 DEF Done
    <2>6. ASSUME NEW i \in 1..Len(wireOut') PROVE wireOut'[i].id = Done + InSimEx + i
      <3>1. CASE i = Len(wireOut) + 1
        BY <1>1, <2>3, <2>5, <3>1
      <3>2. CASE i \in 1..Len(wireOut)
        <4>1. wireOut'[i] = wireOut[i]
          BY <1>1, <2>3, <3>2
        <4> QED BY <2>1, <3>2, <4>1 DEF OrdersInLine
      <3> QED BY <1>1, <2>3, <3>1, <3>2
    <2> QED BY <2>1, <2>2, <2>4, <2>6 DEF OrdersInLine
  <1>5. CASE SimExRecv
    <2>1. Alive /\ xPc = "recv" /\ xPc' = "ack" /\ InSimEx = 0 /\ InSimEx' = 1
          /\ wireOut # <<>> /\ xOrder' = Head(wireOut) /\ wireOut' = Tail(wireOut)
      BY <1>5 DEF SimExRecv, Alive, InSimEx
    <2>2. UNCHANGED <<nextId, bPc, sending, InSend>>
      BY <1>5 DEF SimExRecv, omsVars, omsData, InSend
    <2>3. Len(wireOut') = Len(wireOut) - 1 /\ Len(wireOut) > 0
      BY <1>1, <2>1, TakeHead
    <2>4. Done' = Done
      BY <1>1, <2>1, <2>2, <2>3 DEF Done
    <2>5. xOrder'.id = Done + 1
      BY <1>1, <2>1, <2>3 DEF OrdersInLine
    <2>6. ASSUME NEW i \in 1..Len(wireOut') PROVE wireOut'[i].id = Done + 1 + i
      <3>1. i + 1 \in 1..Len(wireOut) /\ wireOut'[i] = wireOut[i + 1]
        BY <1>1, <2>1, <2>3
      <3> QED BY <1>1, <2>1, <3>1 DEF OrdersInLine
    <2> QED BY <2>1, <2>2, <2>4, <2>5, <2>6 DEF OrdersInLine
  <1>6. CASE SimExAck
    <2>1. Alive /\ xPc = "ack" /\ xPc' = "fill" /\ InSimEx = 1 /\ InSimEx' = 1
      BY <1>6 DEF SimExAck, Alive, InSimEx
    <2>2. UNCHANGED <<nextId, bPc, sending, InSend, wireOut, xOrder>>
      BY <1>6 DEF SimExAck, omsVars, omsData, InSend
    <2>3. Done' = Done
      BY <2>1, <2>2 DEF Done
    <2> QED BY <2>1, <2>2, <2>3 DEF OrdersInLine
  <1>7. CASE SimExFill
    <2>1. Alive /\ xPc = "fill" /\ xPc' = "recv" /\ InSimEx = 1 /\ InSimEx' = 0
          /\ xOrder' = NoOrder
      BY <1>7 DEF SimExFill, Alive, InSimEx
    <2>2. UNCHANGED <<nextId, bPc, sending, InSend, wireOut>>
      BY <1>7 DEF SimExFill, omsVars, omsData, InSend
    <2>3. Done' = Done + 1
      BY <1>1, <2>1, <2>2 DEF Done
    <2> QED BY <1>1, <2>1, <2>2, <2>3 DEF OrdersInLine
  <1> QED BY <1>2, <1>3, <1>4, <1>5, <1>6, <1>7, OrderSteps

LEMMA InitOrdersInLine == Init => OrdersInLine
  <1> SUFFICES ASSUME Init PROVE OrdersInLine
    OBVIOUS
  <1>1. Len(wireOut) = 0
    BY EmptyIsSeq, Zenon DEF Init
  <1>2. InSend = 0 /\ InSimEx = 0
    BY DEF Init, InSend, InSimEx
  <1> QED BY <1>1, <1>2 DEF Init, OrdersInLine, Done

------------------------------------------------------------------------------
(***************************************************************************)
(* Reports.  What is queued for the strategy only loses its head to        *)
(* drain_execs and gains what thread B reads, unless the ring refuses it.  *)
(***************************************************************************)
LEMMA MoveHead ==
    ASSUME NEW S, NEW s \in Seq(S), NEW t \in Seq(S), t # <<>>
    PROVE  Append(s, Head(t)) \o Tail(t) = s \o t
  <1> DEFINE h == <<Head(t)>>
  <1>1. /\ Head(t) \in S /\ Tail(t) \in Seq(S) /\ Len(t) \in Nat /\ Len(t) > 0
        /\ Head(t) = t[1]
    BY TakeHead
  <1>2. h \in Seq(S)
    BY <1>1
  <1>3. Append(s, Head(t)) = s \o h
    BY <1>1, AppendIsConcat
  <1>4. h \o Tail(t) = t
    <2>1. SubSeq(t, 1, Len(t)) = <<t[1]>> \o SubSeq(t, 1 + 1, Len(t))
      BY <1>1, SubSeqRecursiveFirst
    <2>2. SubSeq(t, 1, Len(t)) = t /\ Tail(t) = SubSeq(t, 2, Len(t))
      BY SubSeqFull, TailIsSubSeq
    <2> QED BY <1>1, <2>1, <2>2
  <1> HIDE DEF h
  <1>5. (s \o h) \o Tail(t) = s \o (h \o Tail(t))
    BY <1>1, <1>2, ConcatAssociative
  <1> QED BY <1>3, <1>4, <1>5

(* The head of the first part is the head of the whole. *)
LEMMA DropHead ==
    ASSUME NEW S, NEW s \in Seq(S), NEW t \in Seq(S), s # <<>>
    PROVE  /\ s \o t # <<>> /\ Head(s \o t) = Head(s)
           /\ Tail(s) \o t = Tail(s \o t)
  <1>1. /\ Tail(s) \in Seq(S) /\ Len(Tail(s)) = Len(s) - 1
        /\ Len(s) \in Nat /\ Len(s) > 0 /\ Len(t) \in Nat
        /\ \A i \in 1..Len(Tail(s)) : Tail(s)[i] = s[i + 1]
    BY TakeHead, HeadTailProperties, LenProperties
  <1>2. /\ s \o t \in Seq(S) /\ Len(s \o t) = Len(s) + Len(t)
        /\ \A i \in 1..Len(s) + Len(t) :
              (s \o t)[i] = IF i <= Len(s) THEN s[i] ELSE t[i - Len(s)]
    BY ConcatProperties
  <1>3. s \o t # <<>>
    BY <1>1, <1>2, EmptySeq
  <1>4. Head(s \o t) = Head(s)
    <2>1. Head(s \o t) = (s \o t)[1] /\ Head(s) = s[1]
      OBVIOUS
    <2> QED BY <1>1, <1>2, <2>1
  <1>5. /\ Tail(s) \o t \in Seq(S) /\ Len(Tail(s) \o t) = Len(s) - 1 + Len(t)
        /\ \A i \in 1..Len(s) - 1 + Len(t) :
              (Tail(s) \o t)[i] = IF i <= Len(s) - 1 THEN Tail(s)[i] ELSE t[i - (Len(s) - 1)]
    BY <1>1, ConcatProperties
  <1>6. /\ Tail(s \o t) \in Seq(S) /\ Len(Tail(s \o t)) = Len(s) + Len(t) - 1
        /\ \A i \in 1..Len(s) + Len(t) - 1 : Tail(s \o t)[i] = (s \o t)[i + 1]
    BY <1>2, <1>3, HeadTailProperties
  <1>7. ASSUME NEW i \in 1..Len(s) - 1 + Len(t) PROVE (Tail(s) \o t)[i] = Tail(s \o t)[i]
    <2>1. Tail(s \o t)[i] = (s \o t)[i + 1] /\ i + 1 \in 1..Len(s) + Len(t)
      BY <1>1, <1>6
    <2>2. CASE i <= Len(s) - 1
      BY <1>1, <1>2, <1>5, <2>1, <2>2
    <2>3. CASE i > Len(s) - 1
      <3>1. i - (Len(s) - 1) = (i + 1) - Len(s)
        BY <1>1
      <3>2. (s \o t)[i + 1] = t[(i + 1) - Len(s)]
        BY <1>1, <1>2, <2>1, <2>3
      <3>3. (Tail(s) \o t)[i] = t[i - (Len(s) - 1)]
        BY <1>1, <1>5, <2>3
      <3> QED BY <2>1, <3>1, <3>2, <3>3
    <2> QED BY <1>1, <2>2, <2>3
  <1>8. Tail(s) \o t = Tail(s \o t)
    <2>1. Len(Tail(s) \o t) = Len(Tail(s \o t))
      BY <1>1, <1>5, <1>6
    <2> QED BY <1>5, <1>6, <1>7, <2>1, SeqEqual
  <1> QED BY <1>3, <1>4, <1>8

(* What is appended to the last part is appended to the whole. *)
LEMMA AddToLast ==
    ASSUME NEW S, NEW s \in Seq(S), NEW t \in Seq(S), NEW e \in S
    PROVE  s \o Append(t, e) = Append(s \o t, e)
  <1>1. Append(t, e) = t \o <<e>> /\ Append(s \o t, e) = (s \o t) \o <<e>>
    BY AppendIsConcat, ConcatProperties
  <1>2. <<e>> \in Seq(S)
    OBVIOUS
  <1> QED BY <1>1, <1>2, ConcatAssociative

LEMMA TransitType ==
    ASSUME TypeOK
    PROVE  /\ pending \in Seq(Execs) /\ toStrat \in Seq(Execs) /\ wireIn \in Seq(Execs)
           /\ Len(wireIn) \in Nat
           /\ Queue \in Seq(Execs) /\ Len(Queue) \in Nat
           /\ Len(Queue) = Len(pending) + Len(toStrat)
           /\ \A i \in 1..Len(Queue) : Queue[i] \in Execs
           /\ \A i \in 1..Len(wireIn) : wireIn[i] \in Execs
  <1>1. pending \in Seq(Execs) /\ toStrat \in Seq(Execs) /\ wireIn \in Seq(Execs)
    BY DEF TypeOK
  <1>2. Queue \in Seq(Execs) /\ Len(Queue) = Len(pending) + Len(toStrat)
    BY <1>1, ConcatProperties DEF Queue
  <1> QED BY <1>1, <1>2, LenProperties, ElementOfSeq

LEMMA ReceivedType ==
    ASSUME TypeOK
    PROVE  /\ missed["Ack"] \in Nat /\ missed["Fill"] \in Nat /\ applied \in Int
           /\ drained \in Nat /\ Received \in Nat
           /\ Received = drained + Len(Queue) + missed["Ack"] + missed["Fill"]
  <1>1. /\ missed["Ack"] \in Nat /\ missed["Fill"] \in Nat /\ drained \in Nat /\ applied \in Int
        /\ Len(pending) \in Nat /\ Len(toStrat) \in Nat
    BY Counts DEF TypeOK
  <1>2. Len(Queue) = Len(pending) + Len(toStrat)
    BY TransitType
  <1>3. Received = drained + Len(Queue) + missed["Ack"] + missed["Fill"]
    BY <1>1, <1>2, SMTT(30) DEF Received
  <1>4. Received \in Nat
    BY <1>1, SMTT(30) DEF Received
  <1> QED BY <1>1, <1>3, <1>4

(* The same of the state after a step. *)
LEMMA ReceivedNext ==
    ASSUME TypeOK'
    PROVE  /\ missed'["Ack"] \in Nat /\ missed'["Fill"] \in Nat /\ drained' \in Nat
           /\ Len(Queue') \in Nat
           /\ Received' = drained' + Len(Queue') + missed'["Ack"] + missed'["Fill"]
  <1>1. /\ missed'["Ack"] \in Nat /\ missed'["Fill"] \in Nat /\ drained' \in Nat
        /\ pending' \in Seq(Execs) /\ toStrat' \in Seq(Execs)
    BY DEF TypeOK
  <1>2. Len(Queue') = Len(pending') + Len(toStrat')
    BY <1>1, ConcatProperties DEF Queue
  <1>3. Len(pending') \in Nat /\ Len(toStrat') \in Nat
    BY <1>1, LenProperties
  <1>4. Received' = drained' + Len(Queue') + missed'["Ack"] + missed'["Fill"]
    BY <1>1, <1>2, <1>3, SMTT(30) DEF Received
  <1> QED BY <1>1, <1>2, <1>3, <1>4

(* Steps on which no update moves, or only from the ring to pending_execs_. *)
QueueStays ==
    /\ UNCHANGED <<position, drained, applied, missed, wireIn>>
    /\ Queue' = Queue
    /\ ~SimExAck /\ ~SimExFill

(* drain_execs takes the first update of the queue. *)
QueueShrinks ==
    /\ Queue # <<>> /\ Queue' = Tail(Queue)
    /\ applied' = Number(Head(Queue)) /\ drained' = drained + 1
    /\ UNCHANGED <<missed, wireIn>>
    /\ ~SimExAck /\ ~SimExFill

(* A report leaves the socket for the end of the queue, or is refused. *)
QueueGrows ==
    /\ wireIn # <<>> /\ wireIn' = Tail(wireIn)
    /\ \/ Queue' = Append(Queue, Head(wireIn)) /\ missed' = missed
       \/ Queue' = Queue /\ missed' = [missed EXCEPT ![Head(wireIn).type] = @ + 1]
    /\ UNCHANGED <<position, drained, applied>>
    /\ ~SimExAck /\ ~SimExFill

(* SimEx's report joins the socket, or is lost with the connection. *)
SendsReport(type, qty) ==
    /\ \/ conn = "up" /\ wireIn' = Append(wireIn, Exec(xOrder.id, type, qty))
       \/ conn = "hangup" /\ wireIn' = wireIn
    /\ UNCHANGED <<position, drained, applied, missed, Queue>>

LEMMA PopExecMoves ==
    ASSUME TypeOK, PopExec PROVE Queue' = Queue
  <1>1. Append(pending, Head(toStrat)) \o Tail(toStrat) = pending \o toStrat
    BY TransitType, MoveHead DEF PopExec
  <1> QED
    BY <1>1 DEF PopExec, Queue

LEMMA ReadReportMoves ==
    ASSUME TypeOK, ReadReport PROVE QueueGrows
  <1> DEFINE h == Head(wireIn)
  <1>1. h \in Execs /\ Tail(wireIn) \in Seq(Execs)
    BY TakeHead DEF ReadReport, TypeOK
  <1>2. pending \o Append(toStrat, h) = Append(pending \o toStrat, h)
    BY <1>1, TransitType, AddToLast
  <1>3. /\ wireIn # <<>> /\ wireIn' = Tail(wireIn) /\ xPc' = xPc
        /\ UNCHANGED <<position, drained, applied, pending>>
        /\ \/ toStrat' = Append(toStrat, h) /\ missed' = missed
           \/ toStrat' = toStrat /\ missed' = [missed EXCEPT ![h.type] = @ + 1]
    BY DEF ReadReport, threadA, strategyVars, simexVars
  <1>4. ~SimExAck /\ ~SimExFill
    BY <1>3 DEF SimExAck, SimExFill
  <1> HIDE DEF h
  <1>5. \/ Queue' = Append(Queue, h) /\ missed' = missed
        \/ Queue' = Queue /\ missed' = [missed EXCEPT ![h.type] = @ + 1]
    BY <1>2, <1>3 DEF Queue
  <1> QED BY <1>3, <1>4, <1>5 DEF QueueGrows, h

LEMMA ApplyExecTakes ==
    ASSUME TypeOK, ApplyExec
    PROVE  QueueShrinks /\ Head(Queue) = Head(pending)
  <1>1. pending # <<>> /\ pending' = Tail(pending) /\ UNCHANGED <<toStrat, wireIn, missed, xPc>>
    BY DEF ApplyExec, ringVars, beyondA, netVars, simexVars
  <1>2. /\ pending \o toStrat # <<>> /\ Head(pending \o toStrat) = Head(pending)
        /\ Tail(pending) \o toStrat = Tail(pending \o toStrat)
    BY <1>1, TransitType, DropHead
  <1>3. ~SimExAck /\ ~SimExFill
    BY <1>1 DEF SimExAck, SimExFill
  <1>4. drained' = drained + 1 /\ applied' = Number(Head(pending))
    BY DEF ApplyExec
  <1> QED BY <1>1, <1>2, <1>3, <1>4 DEF QueueShrinks, Queue

LEMMA QueueSteps ==
    ASSUME TypeOK, [Next]_vars
    PROVE  \/ QueueStays
           \/ ApplyExec /\ QueueShrinks
           \/ ReadReport /\ QueueGrows
           \/ SimExAck /\ SendsReport("Ack", 0)
           \/ SimExFill /\ SendsReport("Fill", xOrder.qty)
  <1>1. CASE Quiet
    BY <1>1 DEF Quiet, QueueStays, Queue, SimExAck, SimExFill
  <1>2. CASE Lost /\ ~SimExAck /\ ~SimExFill
    BY <1>2 DEF Lost, QueueStays, Queue
  <1>3. CASE DecideClose \/ DecideEntry \/ PopRequest \/ SendFrame \/ SimExRecv
    <2>1. UNCHANGED <<position, drained, applied, missed, wireIn, pending, toStrat>>
      BY <1>3 DEF DecideClose, DecideEntry, SendOrder, PopRequest, SendFrame,
         SimExRecv, threadA, strategyVars, ringVars, beyondA, netVars
    <2>2. ~SimExAck /\ ~SimExFill
      BY <1>3 DEF DecideClose, DecideEntry, SendOrder, PopRequest, SendFrame, SimExRecv,
         beyondA, simexVars, SimExAck, SimExFill
    <2> QED BY <2>1, <2>2 DEF QueueStays, Queue
  <1>4. CASE PopExec
    <2>1. UNCHANGED <<position, drained, applied, missed, wireIn, xPc>>
      BY <1>4 DEF PopExec, beyondA, netVars, simexVars
    <2>2. ~SimExAck /\ ~SimExFill
      BY <2>1 DEF SimExAck, SimExFill
    <2> QED BY <1>4, <2>1, <2>2, PopExecMoves DEF QueueStays
  <1>5. ASSUME SimExAck \/ SimExFill
        PROVE  UNCHANGED <<position, drained, applied, missed, Queue>>
    BY <1>5 DEF SimExAck, SimExFill, threadA, strategyVars, ringVars, Queue
  <1>6. CASE SimExAck
    BY <1>5, <1>6 DEF SimExAck, SimExReport, SendsReport
  <1>7. CASE SimExFill
    BY <1>5, <1>7 DEF SimExFill, SimExReport, SendsReport
  <1> QED
    BY <1>1, <1>2, <1>3, <1>4, <1>6, <1>7, ReadReportMoves, ApplyExecTakes, StepKinds

(* The reports SimEx has sent are those of the orders it is done with, and *)
(* the acknowledgement of the one it is about to fill.                     *)
Reported == 2 * Done + (IF xPc = "fill" THEN 1 ELSE 0)

LEMMA ReportedStep ==
    ASSUME TypeOK, [Next]_vars, Alive'
    PROVE  /\ Alive /\ Reported \in Int
           /\ Reported' = IF SimExAck \/ SimExFill THEN Reported + 1 ELSE Reported
  <1>1. /\ nextId \in Nat /\ Len(wireOut) \in Nat
        /\ InSend \in {0, 1} /\ InSimEx \in {0, 1}
        /\ Done \in Int /\ Reported \in Int
    BY Counts DEF Done, Reported
  <1>2. CASE OrdersStay
    <2>1. ~SimExAck /\ ~SimExFill
      BY <1>2 DEF OrdersStay, SimExAck, SimExFill
    <2> QED BY <1>1, <1>2, <2>1 DEF OrdersStay, Reported, Done, InSend, InSimEx
  <1>3. CASE PopRequest
    <2>1. /\ nextId' = nextId + 1 /\ InSend = 0 /\ InSend' = 1
          /\ UNCHANGED <<conn, wireOut, xPc, InSimEx>> /\ ~SimExAck /\ ~SimExFill
      BY <1>3 DEF PopRequest, netVars, simexVars, InSend, InSimEx, SimExAck, SimExFill
    <2> QED BY <1>1, <2>1 DEF Reported, Done, Alive
  <1>4. CASE SendFrame
    <2>1. /\ InSend = 1 /\ InSend' = 0
          /\ UNCHANGED <<conn, nextId, xPc, InSimEx>> /\ ~SimExAck /\ ~SimExFill
      BY <1>4 DEF SendFrame, simexVars, InSend, InSimEx, SimExAck, SimExFill
    <2>2. Len(wireOut') = Len(wireOut) + 1
      BY <1>4, AddLast DEF SendFrame, TypeOK
    <2> QED BY <1>1, <2>1, <2>2 DEF Reported, Done, Alive
  <1>5. CASE SimExRecv
    <2>1. /\ xPc = "recv" /\ xPc' = "ack" /\ InSimEx = 0 /\ InSimEx' = 1
          /\ UNCHANGED <<conn, nextId, InSend>> /\ ~SimExAck /\ ~SimExFill
      BY <1>5 DEF SimExRecv, omsVars, omsData, InSend, InSimEx, SimExAck, SimExFill
    <2>2. Len(wireOut') = Len(wireOut) - 1
      BY <1>5, TakeHead DEF SimExRecv, TypeOK
    <2> QED BY <1>1, <2>1, <2>2 DEF Reported, Done, Alive
  <1>6. CASE SimExAck
    <2>1. /\ xPc = "ack" /\ xPc' = "fill" /\ InSimEx = 1 /\ InSimEx' = 1
          /\ UNCHANGED <<conn, nextId, wireOut, InSend>>
      BY <1>6 DEF SimExAck, omsVars, omsData, InSend, InSimEx
    <2> QED BY <1>1, <1>6, <2>1 DEF Reported, Done, Alive
  <1>7. CASE SimExFill
    <2>1. /\ xPc = "fill" /\ xPc' = "recv" /\ InSimEx = 1 /\ InSimEx' = 0
          /\ UNCHANGED <<conn, nextId, wireOut, InSend>>
      BY <1>7 DEF SimExFill, omsVars, omsData, InSend, InSimEx
    <2> QED BY <1>1, <1>7, <2>1 DEF Reported, Done, Alive
  <1>8. Alive
    BY <1>2, <1>3, <1>4, <1>5, <1>6, <1>7, OrderSteps
       DEF OrdersStay, PopRequest, SendFrame, SimExRecv, SimExAck, SimExFill, netVars, Alive
  <1> QED BY <1>1, <1>2, <1>3, <1>4, <1>5, <1>6, <1>7, <1>8, OrderSteps

(* The update e is the k-th report: Ack 1, Fill 1, Ack 2, Fill 2, ... *)
IsReport(e, k) == Number(e) = k

ReportsInLine ==
    /\ \A i \in 1..Len(Queue) : applied < Number(Queue[i]) /\ Number(Queue[i]) <= Received
    /\ \A i, j \in 1..Len(Queue) : i < j => Number(Queue[i]) < Number(Queue[j])
    /\ applied <= Received
    /\ \A i \in 1..Len(wireIn) : IsReport(wireIn[i], Received + i)
    /\ Alive => Received + Len(wireIn) = Reported

(* The report SimEx sends next carries the next number. *)
LEMMA NextReport ==
    ASSUME TypeOK, OrdersInLine, Alive, NEW qty,
           xPc \in {"ack", "fill"}
    PROVE  IsReport(Exec(xOrder.id, IF xPc = "ack" THEN "Ack" ELSE "Fill", qty), Reported + 1)
  <1>1. xOrder.id = Done + 1 /\ Done \in Nat
    BY DEF OrdersInLine
  <1> QED BY <1>1 DEF IsReport, Number, Exec, Reported

(* A refusal counts as received as well. *)
LEMMA ReceivedGrows ==
    ASSUME TypeOK, TypeOK', QueueGrows
    PROVE  Received' = Received + 1 /\ Len(wireIn') = Len(wireIn) - 1
  <1>1. /\ missed["Ack"] \in Nat /\ missed["Fill"] \in Nat /\ drained \in Nat
        /\ Received = drained + Len(Queue) + missed["Ack"] + missed["Fill"]
        /\ Received' = drained' + Len(Queue') + missed'["Ack"] + missed'["Fill"]
        /\ Len(Queue) \in Nat /\ Queue \in Seq(Execs)
    BY ReceivedType, ReceivedNext, TransitType
  <1>2. /\ Head(wireIn) \in Execs /\ Len(wireIn') = Len(wireIn) - 1
        /\ drained' = drained
    BY TransitType, TakeHead DEF QueueGrows
  <1>3. CASE Queue' = Append(Queue, Head(wireIn)) /\ missed' = missed
    <2>1. Len(Queue') = Len(Queue) + 1
      BY <1>1, <1>2, <1>3, AddLast
    <2> QED BY <1>1, <1>2, <1>3, <2>1
  <1>4. CASE Queue' = Queue /\ missed' = [missed EXCEPT ![Head(wireIn).type] = @ + 1]
    <2>1. Head(wireIn).type \in {"Ack", "Fill"} /\ missed \in [{"Ack", "Fill"} -> Nat]
      BY <1>2, NumberType DEF TypeOK
    <2>2. missed'["Ack"] + missed'["Fill"] = missed["Ack"] + missed["Fill"] + 1
      <3>1. CASE Head(wireIn).type = "Ack"
        <4>1. missed'["Ack"] = missed["Ack"] + 1 /\ missed'["Fill"] = missed["Fill"]
          BY <1>4, <2>1, <3>1
        <4> QED BY <1>1, <4>1
      <3>2. CASE Head(wireIn).type = "Fill"
        <4>1. missed'["Ack"] = missed["Ack"] /\ missed'["Fill"] = missed["Fill"] + 1
          BY <1>4, <2>1, <3>2
        <4> QED BY <1>1, <4>1
      <3> QED BY <2>1, <3>1, <3>2
    <2>3. missed'["Ack"] \in Nat /\ missed'["Fill"] \in Nat
      BY ReceivedNext
    <2> QED BY <1>1, <1>2, <1>4, <2>2, <2>3
  <1> QED BY <1>2, <1>3, <1>4 DEF QueueGrows

LEMMA ReceivedStays ==
    ASSUME TypeOK, TypeOK', UNCHANGED <<drained, missed, Queue>>
    PROVE  Received' = Received
  BY ReceivedType, ReceivedNext

LEMMA ReceivedShrinks ==
    ASSUME TypeOK, TypeOK', QueueShrinks
    PROVE  Received' = Received /\ Len(Queue') = Len(Queue) - 1 /\ Len(Queue) > 0
  <1>1. Len(Queue') = Len(Queue) - 1 /\ Len(Queue) > 0
    BY TransitType, TakeHead DEF QueueShrinks
  <1> QED BY <1>1, ReceivedType, ReceivedNext, TransitType DEF QueueShrinks

(* An element of the queue after a step. *)
LEMMA ShrunkQueue ==
    ASSUME TypeOK, TypeOK', QueueShrinks, NEW i \in 1..Len(Queue')
    PROVE  i + 1 \in 1..Len(Queue) /\ Queue'[i] = Queue[i + 1] /\ 1 \in 1..Len(Queue)
  BY TransitType, ReceivedShrinks, HeadTailProperties DEF QueueShrinks

LEMMA ShrunkWire ==
    ASSUME TypeOK, TypeOK', QueueGrows, NEW i \in 1..Len(wireIn')
    PROVE  i + 1 \in 1..Len(wireIn) /\ wireIn'[i] = wireIn[i + 1]
  BY TransitType, ReceivedGrows, HeadTailProperties DEF QueueGrows

LEMMA ReportsInLineStep ==
    ASSUME TypeOK, TypeOK', OrdersInLine, ReportsInLine, [Next]_vars
    PROVE  ReportsInLine'
  <1>1. /\ Queue \in Seq(Execs) /\ Len(Queue) \in Nat
        /\ wireIn \in Seq(Execs) /\ Len(wireIn) \in Nat
        /\ applied \in Int /\ Received \in Nat
        /\ \A i \in 1..Len(Queue) : Number(Queue[i]) \in Int
    BY TransitType, ReceivedType, NumberType
  <1>2. Alive' => Alive /\ Reported \in Int
                  /\ Reported' = IF SimExAck \/ SimExFill THEN Reported + 1 ELSE Reported
    BY ReportedStep
  <1>3. CASE QueueStays
    <2>1. Received' = Received /\ UNCHANGED <<Queue, wireIn, applied>>
      BY <1>3, ReceivedStays DEF QueueStays
    <2>2. Alive' => Received' + Len(wireIn') = Reported'
      BY <1>2, <1>3, <2>1 DEF QueueStays, ReportsInLine
    <2> QED BY <2>1, <2>2 DEF ReportsInLine
  <1>4. CASE QueueShrinks
    <2>1. Received' = Received /\ wireIn' = wireIn /\ applied' = Number(Queue[1])
      BY <1>4, ReceivedShrinks DEF QueueShrinks
    <2>2. ASSUME NEW i \in 1..Len(Queue')
          PROVE  applied' < Number(Queue'[i]) /\ Number(Queue'[i]) <= Received'
      BY <1>1, <1>4, <2>1, <2>2, ShrunkQueue DEF ReportsInLine
    <2>3. ASSUME NEW i \in 1..Len(Queue'), NEW j \in 1..Len(Queue'), i < j
          PROVE  Number(Queue'[i]) < Number(Queue'[j])
      <3>1. /\ i + 1 \in 1..Len(Queue) /\ Queue'[i] = Queue[i + 1]
            /\ j + 1 \in 1..Len(Queue) /\ Queue'[j] = Queue[j + 1]
        BY <1>4, ShrunkQueue
      <3> QED BY <2>3, <3>1 DEF ReportsInLine
    <2>4. applied' <= Received'
      <3>1. 1 \in 1..Len(Queue)
        BY <1>1, <1>4, ReceivedShrinks
      <3> QED BY <2>1, <3>1 DEF ReportsInLine
    <2>5. Alive' => Received' + Len(wireIn') = Reported'
      BY <1>2, <1>4, <2>1 DEF QueueShrinks, ReportsInLine
    <2> QED BY <2>1, <2>2, <2>3, <2>4, <2>5 DEF ReportsInLine
  <1>5. CASE QueueGrows
    <2>1. Received' = Received + 1 /\ Len(wireIn') = Len(wireIn) - 1 /\ applied' = applied
      BY <1>5, ReceivedGrows DEF QueueGrows
    <2>2. ASSUME NEW i \in 1..Len(wireIn') PROVE IsReport(wireIn'[i], Received' + i)
      <3>1. i + 1 \in 1..Len(wireIn) /\ wireIn'[i] = wireIn[i + 1]
        BY <1>5, ShrunkWire
      <3>2. Received' + i = Received + (i + 1)
        BY <1>1, <2>1
      <3> QED BY <3>1, <3>2 DEF ReportsInLine
    <2>3. Alive' => Received' + Len(wireIn') = Reported'
      BY <1>1, <1>2, <1>5, <2>1 DEF QueueGrows, ReportsInLine
    <2>4. CASE Queue' = Queue
      BY <1>1, <2>1, <2>2, <2>3, <2>4 DEF ReportsInLine
    <2>5. CASE Queue' = Append(Queue, Head(wireIn))
      <3>1. Head(wireIn) \in Execs /\ Head(wireIn) = wireIn[1] /\ 1 \in 1..Len(wireIn)
        BY <1>1, <1>5, TakeHead DEF QueueGrows
      <3>2. Number(Head(wireIn)) = Received + 1
        BY <3>1 DEF ReportsInLine, IsReport
      <3>3. /\ Len(Queue') = Len(Queue) + 1
            /\ Queue'[Len(Queue) + 1] = Head(wireIn)
            /\ \A i \in 1..Len(Queue) : Queue'[i] = Queue[i]
        BY <1>1, <2>5, <3>1, AppendProperties
      <3>4. ASSUME NEW i \in 1..Len(Queue')
            PROVE  \/ i \in 1..Len(Queue) /\ Queue'[i] = Queue[i]
                   \/ i = Len(Queue) + 1 /\ Number(Queue'[i]) = Received + 1
        BY <1>1, <3>2, <3>3
      <3>5. ASSUME NEW i \in 1..Len(Queue')
            PROVE  applied' < Number(Queue'[i]) /\ Number(Queue'[i]) <= Received'
        <4>1. CASE i \in 1..Len(Queue) /\ Queue'[i] = Queue[i]
          <5>1. /\ applied < Number(Queue[i]) /\ Number(Queue[i]) <= Received
                /\ Number(Queue[i]) \in Int
            BY <1>1, <4>1 DEF ReportsInLine
          <5> QED BY <1>1, <2>1, <4>1, <5>1
        <4>2. CASE Number(Queue'[i]) = Received + 1
          <5>1. applied <= Received
            BY DEF ReportsInLine
          <5> QED BY <1>1, <2>1, <4>2, <5>1
        <4> QED BY <3>4, <4>1, <4>2
      <3>6. ASSUME NEW i \in 1..Len(Queue'), NEW j \in 1..Len(Queue'), i < j
            PROVE  Number(Queue'[i]) < Number(Queue'[j])
        <4>1. i \in 1..Len(Queue) /\ Queue'[i] = Queue[i]
          BY <1>1, <3>3, <3>6
        <4>2. CASE j \in 1..Len(Queue) /\ Queue'[j] = Queue[j]
          BY <3>6, <4>1, <4>2 DEF ReportsInLine
        <4>3. CASE Number(Queue'[j]) = Received + 1
          BY <1>1, <4>1, <4>3 DEF ReportsInLine
        <4> QED BY <3>4, <4>2, <4>3
      <3>7. applied' <= Received'
        BY <1>1, <2>1 DEF ReportsInLine
      <3> QED BY <2>2, <2>3, <3>5, <3>6, <3>7 DEF ReportsInLine
    <2> QED BY <1>5, <2>4, <2>5 DEF QueueGrows
  <1>6. ASSUME NEW type \in {"Ack", "Fill"}, NEW qty, xPc \in {"ack", "fill"},
               type = IF xPc = "ack" THEN "Ack" ELSE "Fill", Exec(xOrder.id, type, qty) \in Execs,
               SimExAck \/ SimExFill, SendsReport(type, qty)
        PROVE  ReportsInLine'
    <2>1. Received' = Received /\ UNCHANGED <<Queue, applied>>
      BY <1>6, ReceivedStays DEF SendsReport
    <2>2. CASE conn = "up" /\ wireIn' = Append(wireIn, Exec(xOrder.id, type, qty))
      <3>1. /\ Len(wireIn') = Len(wireIn) + 1
            /\ wireIn'[Len(wireIn) + 1] = Exec(xOrder.id, type, qty)
            /\ \A i \in 1..Len(wireIn) : wireIn'[i] = wireIn[i]
        BY <1>1, <1>6, <2>2, AppendProperties
      <3>2. Alive /\ Received + Len(wireIn) = Reported
        BY <2>2 DEF Alive, ReportsInLine
      <3>3. ASSUME NEW i \in 1..Len(wireIn') PROVE IsReport(wireIn'[i], Received + i)
        <4>1. CASE i = Len(wireIn) + 1
          <5>1. Received + i = Reported + 1
            BY <1>1, <3>2, <4>1
          <5> QED BY <1>6, <3>1, <3>2, <4>1, <5>1, NextReport
        <4>2. CASE i \in 1..Len(wireIn)
          BY <3>1, <4>2 DEF ReportsInLine
        <4> QED BY <1>1, <3>1, <4>1, <4>2
      <3>4. Alive' => Received' + Len(wireIn') = Reported'
        BY <1>1, <1>2, <1>6, <2>1, <3>1, <3>2
      <3> QED BY <2>1, <3>3, <3>4 DEF ReportsInLine
    <2>3. CASE conn = "hangup" /\ wireIn' = wireIn
      BY <1>2, <2>1, <2>3 DEF Alive, ReportsInLine
    <2> QED BY <1>6, <2>2, <2>3 DEF SendsReport
  <1>7. xOrder.id \in Nat /\ xOrder.qty \in Nat
    BY DEF TypeOK
  <1>8. CASE SimExAck /\ SendsReport("Ack", 0)
    <2>1. Exec(xOrder.id, "Ack", 0) \in Execs /\ xPc = "ack"
      BY <1>7, <1>8 DEF Exec, Execs, SimExAck
    <2> QED BY <1>6, <1>8, <2>1
  <1>9. CASE SimExFill /\ SendsReport("Fill", xOrder.qty)
    <2>1. Exec(xOrder.id, "Fill", xOrder.qty) \in Execs /\ xPc = "fill"
      BY <1>7, <1>9 DEF Exec, Execs, SimExFill
    <2> QED BY <1>6, <1>9, <2>1
  <1> QED BY <1>3, <1>4, <1>5, <1>8, <1>9, QueueSteps

(* As long as the ring has refused no fill, one update of the queue leads  *)
(* to the next, from the last one applied to the last one received: the    *)
(* only numbers passed over are those of acknowledgements.                 *)
LeadsTo(a, b) == b = a + 1 \/ (b = a + 2 /\ b % 2 = 0)

Reached(i) == IF i = 0 THEN applied ELSE Number(Queue[i])

NoFillSkipped ==
    /\ \A i \in 1..Len(Queue) : LeadsTo(Reached(i - 1), Number(Queue[i]))
    /\ \/ Received = Reached(Len(Queue))
       \/ Received = Reached(Len(Queue)) + 1 /\ Received % 2 = 1

LEMMA MissedFill ==
    ASSUME TypeOK, [Next]_vars, missed'["Fill"] = 0
    PROVE  missed["Fill"] = 0
  <1>1. missed["Fill"] \in Nat /\ missed \in [{"Ack", "Fill"} -> Nat]
    BY ReceivedType DEF TypeOK
  <1>2. CASE missed' = missed
    BY <1>2
  <1>3. CASE QueueGrows /\ missed' # missed
    <2>1. Head(wireIn).type \in {"Ack", "Fill"}
      BY <1>3, TransitType, TakeHead, NumberType DEF QueueGrows
    <2>2. missed' = [missed EXCEPT ![Head(wireIn).type] = @ + 1]
      BY <1>3 DEF QueueGrows
    <2> QED BY <1>1, <2>1, <2>2
  <1> QED BY <1>2, <1>3, QueueSteps DEF QueueStays, QueueShrinks, SendsReport

LEMMA NoFillSkippedStep ==
    ASSUME TypeOK, TypeOK', ReportsInLine, NoFillSkipped, [Next]_vars, missed'["Fill"] = 0
    PROVE  NoFillSkipped'
  <1>1. /\ Queue \in Seq(Execs) /\ Len(Queue) \in Nat
        /\ wireIn \in Seq(Execs) /\ Len(wireIn) \in Nat
        /\ applied \in Int /\ Received \in Nat
        /\ \A i \in 1..Len(Queue) : Number(Queue[i]) \in Int
        /\ Reached(Len(Queue)) \in Int
    BY TransitType, ReceivedType, NumberType DEF Reached
  <1>2. CASE UNCHANGED <<Queue, applied, drained, missed>>
    <2>1. Received' = Received
      BY <1>2, ReceivedStays
    <2> QED BY <1>2, <2>1 DEF NoFillSkipped, Reached
  <1>3. CASE QueueShrinks
    <2>1. /\ Received' = Received /\ Len(Queue') = Len(Queue) - 1 /\ Len(Queue) > 0
          /\ applied' = Number(Queue[1])
      BY <1>3, ReceivedShrinks DEF QueueShrinks
    <2>2. ASSUME NEW i \in 0..Len(Queue') PROVE Reached(i)' = Reached(i + 1)
      <3>1. CASE i = 0
        BY <2>1, <3>1 DEF Reached
      <3>2. CASE i \in 1..Len(Queue')
        <4>1. Queue'[i] = Queue[i + 1]
          BY <1>3, <3>2, ShrunkQueue
        <4> QED BY <3>2, <4>1 DEF Reached
      <3> QED BY <1>1, <2>1, <3>1, <3>2
    <2>3. Reached(Len(Queue))' = Reached(Len(Queue))
      <3>1. Len(Queue') \in 0..Len(Queue') /\ Len(Queue') + 1 = Len(Queue)
        BY <1>1, <2>1
      <3> QED BY <2>2, <3>1
    <2>4. ASSUME NEW i \in 1..Len(Queue') PROVE LeadsTo(Reached(i - 1)', Number(Queue'[i]))
      <3>1. /\ i + 1 \in 1..Len(Queue) /\ Queue'[i] = Queue[i + 1]
            /\ i - 1 \in 0..Len(Queue') /\ (i - 1) + 1 = (i + 1) - 1
        BY <1>1, <1>3, <2>1, ShrunkQueue
      <3> QED BY <2>2, <3>1 DEF NoFillSkipped
    <2> QED BY <2>1, <2>3, <2>4 DEF NoFillSkipped
  <1>4. CASE QueueGrows
    <2>1. Received' = Received + 1 /\ applied' = applied
      BY <1>4, ReceivedGrows DEF QueueGrows
    <2>2. Head(wireIn) \in Execs /\ Head(wireIn) = wireIn[1] /\ 1 \in 1..Len(wireIn)
      BY <1>1, <1>4, TakeHead DEF QueueGrows
    <2>3. PICK e \in Execs : e = Head(wireIn)
      BY <2>2
    <2>4. Number(e) = Received + 1
      BY <2>2, <2>3 DEF ReportsInLine, IsReport
    <2>5. CASE Queue' = Append(Queue, Head(wireIn)) /\ missed' = missed
      <3>1. /\ Len(Queue') = Len(Queue) + 1
            /\ Queue'[Len(Queue) + 1] = e
            /\ \A i \in 1..Len(Queue) : Queue'[i] = Queue[i]
        BY <1>1, <2>2, <2>3, <2>5, AppendProperties
      <3>2. ASSUME NEW i \in 0..Len(Queue) PROVE Reached(i)' = Reached(i)
        BY <1>1, <2>1, <3>1 DEF Reached
      <3>3. Reached(Len(Queue))' = Received'
        <4>1. Len(Queue') # 0 /\ Queue'[Len(Queue')] = e
          BY <1>1, <3>1
        <4>2. Reached(Len(Queue))' = Number(Queue'[Len(Queue')])
          BY <4>1 DEF Reached
        <4> QED BY <2>1, <2>4, <4>1, <4>2
      <3>4. LeadsTo(Reached(Len(Queue)), Number(e))
        <4>1. CASE Received = Reached(Len(Queue))
          BY <2>4, <4>1 DEF LeadsTo
        <4>2. CASE Received = Reached(Len(Queue)) + 1 /\ Received % 2 = 1
          <5>1. Received + 1 = Reached(Len(Queue)) + 2
            BY <1>1, <4>2
          <5>2. (Received + 1) % 2 = 0
            BY <1>1, <4>2, SMTT(30)
          <5> QED BY <2>4, <5>1, <5>2 DEF LeadsTo
        <4> QED BY <4>1, <4>2 DEF NoFillSkipped
      <3>5. ASSUME NEW i \in 1..Len(Queue') PROVE LeadsTo(Reached(i - 1)', Number(Queue'[i]))
        <4>1. CASE i \in 1..Len(Queue)
          <5>1. i - 1 \in 0..Len(Queue) /\ Queue'[i] = Queue[i]
            BY <1>1, <3>1, <4>1
          <5> QED BY <3>2, <4>1, <5>1 DEF NoFillSkipped
        <4>2. CASE i = Len(Queue) + 1
          <5>1. i - 1 = Len(Queue) /\ Len(Queue) \in 0..Len(Queue) /\ Queue'[i] = e
            BY <1>1, <3>1, <4>2
          <5>2. i - 1 \in 0..Len(Queue)
            BY <1>1, <5>1
          <5>3. Reached(i - 1)' = Reached(Len(Queue))
            BY <3>2, <5>1, <5>2
          <5> QED BY <3>4, <5>1, <5>3
        <4>3. i \in 1..Len(Queue) \/ i = Len(Queue) + 1
          BY <1>1, <3>1
        <4> QED BY <4>1, <4>2, <4>3
      <3> QED BY <3>3, <3>5 DEF NoFillSkipped
    <2>6. CASE Queue' = Queue /\ missed' = [missed EXCEPT ![Head(wireIn).type] = @ + 1]
      <3>1. e.type = "Ack"
        <4>1. ASSUME e.type = "Fill" PROVE FALSE
          <5>1. missed \in [{"Ack", "Fill"} -> Nat]
            BY DEF TypeOK
          <5>2. missed'["Fill"] = missed["Fill"] + 1 /\ missed["Fill"] \in Nat
            BY <2>3, <2>6, <4>1, <5>1
          <5> QED BY <5>2
        <4> QED BY <4>1, NumberType
      <3>2. (Received + 1) % 2 = 1
        BY <2>4, <3>1, NumberType
      <3>3. Received % 2 = 0
        BY <1>1, <3>2
      <3>4. Received = Reached(Len(Queue))
        BY <3>3 DEF NoFillSkipped
      <3>5. Received' = Reached(Len(Queue)) + 1 /\ Received' % 2 = 1
        BY <2>1, <3>2, <3>4
      <3> QED BY <2>1, <2>6, <3>5 DEF NoFillSkipped, Reached
    <2> QED BY <1>4, <2>5, <2>6 DEF QueueGrows
  <1> QED BY <1>2, <1>3, <1>4, QueueSteps DEF QueueStays, SendsReport

(* Until then every order, and so every fill, is for one unit: closing     *)
(* sells what Abs(position_) says, and that is never more than one.        *)
FillsOfOne == {e \in Execs : e.type = "Fill" => e.qty = 1}

AllForOne ==
    /\ toOms \in Seq({1})
    /\ bPc = "send" => sending.qty = 1
    /\ wireOut \in Seq([id : Nat, qty : {1}])
    /\ xPc \in {"ack", "fill"} => xOrder.qty = 1
    /\ Queue \in Seq(FillsOfOne)
    /\ wireIn \in Seq(FillsOfOne)

(* Two numbers are one order, and its fill turned the position. *)
PositionInv ==
    \E n \in Nat : position = -(n % 2) /\ applied \in {2 * n, 2 * n + 1}

InLine == NoFillSkipped /\ AllForOne /\ PositionInv

InOrderInv ==
    /\ CountInv
    /\ OrdersInLine
    /\ ReportsInLine
    /\ missed["Fill"] = 0 => InLine

LEMMA OrdersForOne ==
    ASSUME TypeOK, AllForOne, PositionInv, [Next]_vars
    PROVE  /\ toOms' \in Seq({1})
           /\ bPc' = "send" => sending'.qty = 1
           /\ wireOut' \in Seq([id : Nat, qty : {1}])
           /\ xPc' \in {"ack", "fill"} => xOrder'.qty = 1
  <1> DEFINE Orders == [id : Nat, qty : {1}]
  <1> USE DEF AllForOne
  <1>1. CASE Quiet
    BY <1>1 DEF Quiet
  <1>2. CASE Lost
    <2>1. wireOut' \in Seq(Orders)
      BY <1>2, EmptyIsSeq, Zenon DEF Lost
    <2> QED BY <1>2, <2>1 DEF Lost
  <1>3. CASE DecideClose \/ DecideEntry
    <2>1. position \in {0, -1}
      <3>1. PICK n \in Nat : position = -(n % 2)
        BY DEF PositionInv
      <3> QED BY <3>1
    <2>2. DecideClose => Abs(position) = 1
      BY <2>1 DEF DecideClose, Abs
    <2>3. SendOrder(1)
      BY <1>3, <2>2 DEF DecideClose, DecideEntry
    <2>4. toOms' \in Seq({1})
      BY <2>3, AddLast DEF SendOrder
    <2> QED BY <2>3, <2>4 DEF SendOrder, beyondA, omsVars, omsData, netVars, simexVars
  <1>4. CASE PopExec \/ ApplyExec \/ ReadReport
    BY <1>4 DEF PopExec, ApplyExec, ReadReport, ringVars, beyondA, omsVars, omsData,
       netVars, simexVars
  <1>5. CASE PopRequest
    <2>1. Head(toOms) \in {1} /\ Tail(toOms) \in Seq({1})
      BY <1>5, TakeHead DEF PopRequest
    <2> QED BY <1>5, <2>1 DEF PopRequest, netVars, simexVars
  <1>6. CASE SendFrame
    <2>1. sending \in Orders
      BY <1>6 DEF SendFrame, TypeOK
    <2>2. wireOut' \in Seq(Orders)
      BY <1>6, <2>1, AddLast DEF SendFrame
    <2> QED BY <1>6, <2>2 DEF SendFrame, ringVars, simexVars
  <1>7. CASE SimExRecv
    <2>1. Head(wireOut) \in Orders /\ Tail(wireOut) \in Seq(Orders)
      BY <1>7, TakeHead DEF SimExRecv
    <2> QED BY <1>7, <2>1 DEF SimExRecv, ringVars, omsVars, omsData
  <1>8. CASE SimExAck \/ SimExFill
    BY <1>8 DEF SimExAck, SimExFill, ringVars, omsVars, omsData
  <1> QED BY <1>1, <1>2, <1>3, <1>4, <1>5, <1>6, <1>7, <1>8, StepKinds

LEMMA AllForOneStep ==
    ASSUME TypeOK, AllForOne, PositionInv, [Next]_vars
    PROVE  AllForOne'
  <1>1. Queue \in Seq(FillsOfOne) /\ wireIn \in Seq(FillsOfOne)
    BY DEF AllForOne
  <1>2. Queue' \in Seq(FillsOfOne) /\ wireIn' \in Seq(FillsOfOne)
    <2>1. CASE QueueStays
      BY <1>1, <2>1 DEF QueueStays
    <2>2. CASE QueueShrinks
      BY <1>1, <2>2, TakeHead DEF QueueShrinks
    <2>3. CASE QueueGrows
      <3>1. Head(wireIn) \in FillsOfOne /\ Tail(wireIn) \in Seq(FillsOfOne)
        BY <1>1, <2>3, TakeHead DEF QueueGrows
      <3> QED BY <1>1, <2>3, <3>1, AddLast DEF QueueGrows
    <2>4. ASSUME NEW type, NEW qty, SendsReport(type, qty),
                 Exec(xOrder.id, type, qty) \in FillsOfOne
          PROVE  Queue' \in Seq(FillsOfOne) /\ wireIn' \in Seq(FillsOfOne)
      BY <1>1, <2>4, AddLast DEF SendsReport
    <2>5. CASE SimExAck /\ SendsReport("Ack", 0)
      <3>1. Exec(xOrder.id, "Ack", 0) \in FillsOfOne
        BY DEF TypeOK, Exec, Execs, FillsOfOne
      <3> QED BY <2>4, <2>5, <3>1
    <2>6. CASE SimExFill /\ SendsReport("Fill", xOrder.qty)
      <3>1. Exec(xOrder.id, "Fill", xOrder.qty) \in FillsOfOne
        BY <2>6 DEF TypeOK, Exec, Execs, FillsOfOne, AllForOne, SimExFill
      <3> QED BY <2>4, <2>6, <3>1
    <2> QED BY <2>1, <2>2, <2>3, <2>5, <2>6, QueueSteps
  <1> QED BY <1>2, OrdersForOne DEF AllForOne

LEMMA PositionStep ==
    ASSUME TypeOK, InLine, [Next]_vars
    PROVE  PositionInv'
  <1>1. PICK n \in Nat : position = -(n % 2) /\ applied \in {2 * n, 2 * n + 1}
    BY DEF InLine, PositionInv
  <1>2. CASE UNCHANGED <<position, applied>>
    BY <1>1, <1>2 DEF PositionInv
  <1>3. CASE ApplyExec
    <2> DEFINE ex == Head(pending)
    <2>1. PICK e : e = ex
      OBVIOUS
    <2>2. e \in FillsOfOne /\ LeadsTo(applied, Number(e))
      <3>1. Queue # <<>> /\ Head(Queue) = ex
        BY <1>3, ApplyExecTakes DEF QueueShrinks
      <3>2. Queue \in Seq(FillsOfOne)
        BY DEF InLine, AllForOne
      <3>3. e = Queue[1] /\ e \in FillsOfOne /\ Len(Queue) \in Nat /\ Len(Queue) > 0
        BY <2>1, <3>1, <3>2, TakeHead
      <3>4. 1 \in 1..Len(Queue) /\ Reached(1 - 1) = applied
        BY <3>3 DEF Reached
      <3> QED BY <3>3, <3>4 DEF InLine, NoFillSkipped
    <2>3. /\ applied' = Number(e)
          /\ position' = IF e.type = "Fill"
                           THEN position + SideForCloid(e.id) * e.qty
                           ELSE position
      BY <1>3, <2>1 DEF ApplyExec
    <2>4. e \in Execs /\ e.id \in Nat /\ e.type \in {"Ack", "Fill"}
      BY <2>2, NumberType DEF FillsOfOne
    <2>5. CASE e.type = "Ack"
      <3>1. Number(e) = 2 * e.id - 1 /\ Number(e) % 2 = 1
        BY <2>4, <2>5, NumberType
      <3>2. Number(e) = applied + 1
        BY <2>2, <3>1 DEF LeadsTo
      <3>3. applied' = 2 * n + 1
        BY <1>1, <2>3, <2>4, <3>1, <3>2
      <3> QED BY <1>1, <2>3, <2>5, <3>3 DEF PositionInv
    <2>6. CASE e.type = "Fill"
      <3>1. Number(e) = 2 * e.id /\ e.qty = 1
        BY <2>2, <2>4, <2>6, NumberType DEF FillsOfOne
      <3>2. Number(e) \in {applied + 1, applied + 2}
        BY <2>2 DEF LeadsTo
      <3>3. e.id = n + 1
        BY <1>1, <2>4, <3>1, <3>2
      <3>4. position' = -((n + 1) % 2)
        <4>1. CASE n % 2 = 0
          <5>1. (n + 1) % 2 = 1
            BY <4>1
          <5> QED BY <1>1, <2>3, <2>6, <3>1, <3>3, <4>1, <5>1 DEF SideForCloid
        <4>2. CASE n % 2 = 1
          <5>1. (n + 1) % 2 = 0
            BY <4>2
          <5> QED BY <1>1, <2>3, <2>6, <3>1, <3>3, <4>2, <5>1 DEF SideForCloid
        <4> QED BY <4>1, <4>2
      <3>5. applied' \in {2 * (n + 1), 2 * (n + 1) + 1} /\ n + 1 \in Nat
        BY <2>3, <3>1, <3>3
      <3> QED BY <3>4, <3>5 DEF PositionInv
    <2> QED BY <2>4, <2>5, <2>6
  <1> QED
    BY <1>2, <1>3, QueueSteps DEF QueueStays, QueueGrows, SendsReport

LEMMA InitInOrderInv == Init => InOrderInv
  <1> SUFFICES ASSUME Init PROVE ReportsInLine /\ InLine
    BY InitCountInv, InitOrdersInLine DEF InOrderInv
  <1>1. Queue = <<>>
    <2>1. <<>> \o <<>> = <<>>
      BY ConcatEmptySeq, EmptyIsSeq
    <2> QED BY <2>1 DEF Init, Queue
  <1>2. /\ Len(Queue) = 0 /\ Len(wireOut) = 0 /\ Len(wireIn) = 0
        /\ Len(pending) = 0 /\ Len(toStrat) = 0
    BY <1>1, EmptyIsSeq, Zenon DEF Init
  <1>3. Queue \in Seq(FillsOfOne) /\ wireIn \in Seq(FillsOfOne) /\ toOms \in Seq({1})
        /\ wireOut \in Seq([id : Nat, qty : {1}])
    BY <1>1, EmptyIsSeq, Zenon DEF Init
  <1>4. Received = 0 /\ applied = 0
    BY <1>2 DEF Init, Received
  <1>5. ReportsInLine
    BY <1>2, <1>4 DEF Init, ReportsInLine, Reported, Done, InSend, InSimEx
  <1>6. NoFillSkipped
    BY <1>2, <1>4 DEF NoFillSkipped, Reached
  <1>7. AllForOne
    BY <1>3 DEF Init, AllForOne
  <1>8. PositionInv
    BY DEF Init, PositionInv
  <1> QED BY <1>5, <1>6, <1>7, <1>8 DEF InLine

LEMMA InOrderInvStep == InOrderInv /\ [Next]_vars => InOrderInv'
  <1> SUFFICES ASSUME InOrderInv, [Next]_vars PROVE InOrderInv'
    OBVIOUS
  <1>1. TypeOK /\ CountInv /\ OrdersInLine /\ ReportsInLine
    BY DEF InOrderInv, CountInv, LoopInv
  <1>2. CountInv' /\ OrdersInLine' /\ TypeOK'
    BY <1>1, CountInvStep, OrdersInLineStep DEF CountInv, LoopInv
  <1>3. ReportsInLine'
    BY <1>1, <1>2, ReportsInLineStep
  <1>4. ASSUME missed'["Fill"] = 0 PROVE InLine'
    <2>1. InLine
      BY <1>1, <1>4, MissedFill DEF InOrderInv
    <2> QED
      BY <1>1, <1>2, <1>4, <2>1, NoFillSkippedStep, AllForOneStep, PositionStep DEF InLine
  <1> QED BY <1>2, <1>3, <1>4 DEF InOrderInv

(***************************************************************************)
(* The inductive invariant of orders and reports.                          *)
(***************************************************************************)
THEOREM InOrderInvariant == Spec => []InOrderInv
  BY InitInOrderInv, InOrderInvStep, PTL DEF Spec

(***************************************************************************)
(* However threads and SimEx interleave, even if SimEx stops and at any    *)
(* size of the ring, the reports Ack 1, Fill 1, Ack 2, Fill 2, ... reach   *)
(* the strategy in order, and only those the ring refused are missing.     *)
(***************************************************************************)
THEOREM ReportsComeInOrder == Spec => []ReportsInOrder
  <1>1. InOrderInv => ReportsInOrder
    <2> SUFFICES ASSUME InOrderInv PROVE ReportsInOrder
      OBVIOUS
    <2>1. TypeOK /\ ReportsInLine
      BY DEF InOrderInv, CountInv, LoopInv
    <2>2. /\ Queue \in Seq(Execs) /\ Len(Queue) \in Nat
          /\ wireIn \in Seq(Execs) /\ Len(wireIn) \in Nat
          /\ applied \in Int /\ Received \in Nat
          /\ \A i \in 1..Len(Queue) : Number(Queue[i]) \in Int
      BY <2>1, TransitType, ReceivedType, NumberType
    <2>3. /\ Len(InTransit) = Len(Queue) + Len(wireIn)
          /\ \A i \in 1..Len(Queue) + Len(wireIn) :
                InTransit[i] = IF i <= Len(Queue) THEN Queue[i] ELSE wireIn[i - Len(Queue)]
      BY <2>2, ConcatProperties DEF InTransit
    <2>4. ASSUME NEW i \in 1..Len(InTransit), i <= Len(Queue)
          PROVE  i \in 1..Len(Queue) /\ InTransit[i] = Queue[i]
      BY <2>2, <2>3, <2>4
    <2>5. ASSUME NEW i \in 1..Len(InTransit), i > Len(Queue)
          PROVE  Number(InTransit[i]) = Received + (i - Len(Queue)) /\ i - Len(Queue) > 0
      <3>1. i - Len(Queue) \in 1..Len(wireIn) /\ InTransit[i] = wireIn[i - Len(Queue)]
        BY <2>2, <2>3, <2>5
      <3> QED BY <2>1, <3>1 DEF ReportsInLine, IsReport
    <2>6. ASSUME NEW i \in 1..Len(InTransit) PROVE applied < Number(InTransit[i])
      <3>1. CASE i <= Len(Queue)
        BY <2>1, <2>4, <3>1 DEF ReportsInLine
      <3>2. CASE i > Len(Queue)
        <4>1. applied <= Received
          BY <2>1 DEF ReportsInLine
        <4> QED BY <2>2, <2>5, <3>2, <4>1
      <3> QED BY <2>2, <3>1, <3>2
    <2>7. ASSUME NEW i \in 1..Len(InTransit), NEW j \in 1..Len(InTransit), i < j
          PROVE  Number(InTransit[i]) < Number(InTransit[j])
      <3>1. CASE j <= Len(Queue)
        <4>1. i <= Len(Queue)
          BY <2>2, <2>7, <3>1
        <4> QED BY <2>1, <2>4, <2>7, <3>1, <4>1 DEF ReportsInLine
      <3>2. CASE i <= Len(Queue) /\ j > Len(Queue)
        <4>1. Number(InTransit[i]) <= Received /\ Number(InTransit[i]) \in Int
          BY <2>1, <2>2, <2>4, <3>2 DEF ReportsInLine
        <4>2. Number(InTransit[j]) = Received + (j - Len(Queue)) /\ j - Len(Queue) > 0
          BY <2>5, <3>2
        <4> QED BY <2>2, <4>1, <4>2
      <3>3. CASE i > Len(Queue)
        <4>1. j > Len(Queue)
          BY <2>2, <2>7, <3>3
        <4>2. /\ Number(InTransit[i]) = Received + (i - Len(Queue))
              /\ Number(InTransit[j]) = Received + (j - Len(Queue))
          BY <2>5, <3>3, <4>1
        <4> QED BY <2>2, <2>7, <4>2
      <3> QED BY <2>2, <3>1, <3>2, <3>3
    <2> QED BY <2>1, <2>6, <2>7 DEF ReportsInOrder, ReportsInLine, IsReport
  <1> QED BY <1>1, InOrderInvariant, PTL

(***************************************************************************)
(* The strategy's position alternates between flat and one short, for any  *)
(* position limit, any size of the ring and any number of orders in        *)
(* flight, until the ring refuses a fill.                                  *)
(***************************************************************************)
THEOREM PositionStaysInRange == Spec => []PositionAlternates
  <1>1. InOrderInv => PositionAlternates
    <2> SUFFICES ASSUME InOrderInv, missed["Fill"] = 0
                 PROVE  position = -((applied \div 2) % 2)
      BY DEF PositionAlternates
    <2>1. PICK n \in Nat : position = -(n % 2) /\ applied \in {2 * n, 2 * n + 1}
      BY DEF InOrderInv, InLine, PositionInv
    <2>2. applied \div 2 = n
      BY <2>1
    <2> QED BY <2>1, <2>2
  <1> QED BY <1>1, InOrderInvariant, PTL

------------------------------------------------------------------------------
(***************************************************************************)
(* Accounting.  Quantities follow their orders: what is sent, handled and  *)
(* reported is what the OMS has recorded under that id.                    *)
(***************************************************************************)
QtyKept(o) == o.id \in 1..(nextId - 1) /\ o.qty = orders[o.id].qty

GoodReport(e) ==
    /\ e.id \in 1..(nextId - 1)
    /\ e.qty = IF e.type = "Ack" THEN 0 ELSE orders[e.id].qty

QtysKept ==
    /\ bPc = "send" => QtyKept(sending)
    /\ \A i \in 1..Len(wireOut) : QtyKept(wireOut[i])
    /\ xPc \in {"ack", "fill"} => QtyKept(xOrder)
    /\ \A i \in 1..Len(wireIn) : GoodReport(wireIn[i])

(* The only steps that change orders_ append to it or book a report. *)
LEMMA OrdersStep ==
    ASSUME TypeOK, [Next]_vars
    PROVE  PopRequest \/ ReadReport \/ UNCHANGED <<orders, nextId>>
  BY StepKinds
     DEF Quiet, Lost, DecideClose, DecideEntry, SendOrder, PopExec, ApplyExec, SendFrame,
         SimExRecv, SimExAck, SimExFill, ringVars, beyondA, omsVars, omsData

LEMMA PopRequestOrders ==
    ASSUME TypeOK, PopRequest
    PROVE  /\ nextId' = nextId + 1
           /\ \A id \in 1..(nextId - 1) : orders'[id] = orders[id]
           /\ orders'[nextId] = [qty |-> Head(toOms), state |-> "Ack", filled |-> 0]
  <1> DEFINE o == [qty |-> Head(toOms), state |-> "Ack", filled |-> 0]
  <1>1. o \in [qty : Nat, state : {"Ack", "Fill"}, filled : Nat]
    BY TakeHead DEF PopRequest, TypeOK
  <1>2. orders' = Append(orders, o) /\ nextId' = nextId + 1
    BY DEF PopRequest
  <1>3. /\ orders \in Seq([qty : Nat, state : {"Ack", "Fill"}, filled : Nat])
        /\ Len(orders) = nextId - 1 /\ nextId \in Nat
    BY DEF TypeOK
  <1> HIDE DEF o
  <1>4. /\ \A id \in 1..Len(orders) : orders'[id] = orders[id]
        /\ orders'[Len(orders) + 1] = o
    BY <1>1, <1>2, <1>3, AppendProperties
  <1>5. Len(orders) + 1 = nextId
    BY <1>3
  <1> QED BY <1>2, <1>3, <1>4, <1>5 DEF o

LEMMA BookedOrders ==
    ASSUME TypeOK, NEW e \in Execs, e.id \in 1..(nextId - 1), ReadReport, e = Head(wireIn)
    PROVE  /\ nextId' = nextId
           /\ \A id \in 1..(nextId - 1) : id # e.id => orders'[id] = orders[id]
           /\ orders'[e.id] = [qty |-> orders[e.id].qty, state |-> e.type,
                               filled |-> orders[e.id].filled + e.qty]
  <1>1. /\ nextId' = nextId
        /\ orders' = [orders EXCEPT ![e.id] =
                         [qty |-> orders[e.id].qty, state |-> e.type,
                          filled |-> orders[e.id].filled + e.qty]]
    BY DEF ReadReport, Booked
  <1>2. DOMAIN orders = 1..(nextId - 1)
    BY LenProperties DEF TypeOK
  <1> QED BY <1>1, <1>2

LEMMA QtysStay ==
    ASSUME TypeOK, QtysKept, [Next]_vars
    PROVE  \A id \in 1..(nextId - 1) :
              id \in 1..(nextId' - 1) /\ orders'[id].qty = orders[id].qty
  <1>1. nextId \in Nat
    BY DEF TypeOK
  <1>2. CASE PopRequest
    BY <1>1, <1>2, PopRequestOrders
  <1>3. CASE ReadReport
    <2>1. PICK e : e = Head(wireIn)
      OBVIOUS
    <2>2. e \in Execs /\ e.id \in 1..(nextId - 1)
      <3>1. wireIn \in Seq(Execs) /\ wireIn # <<>>
        BY <1>3 DEF ReadReport, TypeOK
      <3>2. e \in Execs /\ e = wireIn[1] /\ 1 \in 1..Len(wireIn)
        BY <2>1, <3>1, TakeHead
      <3> QED BY <3>2 DEF QtysKept, GoodReport
    <2>3. /\ nextId' = nextId
          /\ \A id \in 1..(nextId - 1) : id # e.id => orders'[id] = orders[id]
          /\ orders'[e.id] = [qty |-> orders[e.id].qty, state |-> e.type,
                              filled |-> orders[e.id].filled + e.qty]
      BY <1>3, <2>1, <2>2, BookedOrders, Zenon
    <2> QED BY <2>3
  <1>4. CASE UNCHANGED <<orders, nextId>>
    BY <1>4
  <1> QED BY <1>2, <1>3, <1>4, OrdersStep

LEMMA QtysKeptStep ==
    ASSUME TypeOK, QtysKept, [Next]_vars PROVE QtysKept'
  <1> USE DEF QtysKept, QtyKept, GoodReport
  <1>1. \A id \in 1..(nextId - 1) :
           id \in 1..(nextId' - 1) /\ orders'[id].qty = orders[id].qty
    BY QtysStay
  <1>2. /\ wireOut \in Seq([id : Nat, qty : Nat]) /\ Len(wireOut) \in Nat
        /\ wireIn \in Seq(Execs) /\ Len(wireIn) \in Nat /\ nextId \in Nat \ {0}
    BY Counts DEF TypeOK
  <1>3. CASE UNCHANGED <<sending, wireOut, wireIn, xPc, xOrder>> /\ (bPc' = "send" => bPc = "send")
    BY <1>1, <1>3
  <1>4. CASE Quiet \/ DecideClose \/ DecideEntry \/ PopExec \/ ApplyExec
    BY <1>3, <1>4 DEF Quiet, DecideClose, DecideEntry, SendOrder, PopExec, ApplyExec,
       beyondA, omsVars, omsData, netVars, simexVars
  <1>5. CASE Lost
    <2>1. wireOut' = wireOut \/ Len(wireOut') = 0
      BY <1>5, EmptyIsSeq, Zenon DEF Lost
    <2>2. \A i \in 1..Len(wireOut') : QtyKept(wireOut[i]) /\ wireOut'[i] = wireOut[i]
      BY <2>1
    <2> QED BY <1>1, <1>5, <2>2 DEF Lost
  <1>6. CASE PopRequest
    <2>1. sending'.id = nextId /\ sending'.qty = Head(toOms) /\ nextId' = nextId + 1
      BY <1>6 DEF PopRequest
    <2>2. orders'[nextId].qty = Head(toOms)
      BY <1>6, PopRequestOrders
    <2>3. QtyKept(sending)'
      BY <1>2, <2>1, <2>2
    <2>4. UNCHANGED <<wireOut, wireIn, xPc, xOrder>>
      BY <1>6 DEF PopRequest, netVars, simexVars
    <2> QED BY <1>1, <2>3, <2>4, SMTT(30)
  <1>7. CASE SendFrame
    <2>1. /\ bPc = "send" /\ bPc' = "pop" /\ wireOut' = Append(wireOut, sending)
          /\ UNCHANGED <<wireIn, xPc, xOrder>>
      BY <1>7 DEF SendFrame, simexVars
    <2>2. ASSUME NEW i \in 1..Len(wireOut') PROVE QtyKept(wireOut'[i])
      <3>1. sending \in [id : Nat, qty : Nat]
        BY DEF TypeOK
      <3>2. /\ Len(wireOut') = Len(wireOut) + 1 /\ wireOut'[Len(wireOut) + 1] = sending
            /\ \A j \in 1..Len(wireOut) : wireOut'[j] = wireOut[j]
        BY <1>2, <2>1, <3>1, AppendProperties
      <3>3. i \in 1..Len(wireOut) \/ i = Len(wireOut) + 1
        BY <1>2, <3>2
      <3> QED BY <2>1, <3>2, <3>3
    <2> QED BY <1>1, <2>1, <2>2, SMTT(30)
  <1>8. CASE ReadReport
    <2>1. wireIn # <<>> /\ wireIn' = Tail(wireIn)
          /\ UNCHANGED <<bPc, sending, wireOut, xPc, xOrder>>
      BY <1>8 DEF ReadReport, simexVars
    <2>2. ASSUME NEW i \in 1..Len(wireIn') PROVE GoodReport(wireIn'[i])
      <3>1. i + 1 \in 1..Len(wireIn) /\ wireIn'[i] = wireIn[i + 1]
        BY <1>2, <2>1, HeadTailProperties
      <3> QED BY <3>1
    <2> QED BY <1>1, <2>1, <2>2
  <1>9. CASE SimExRecv
    <2>1. wireOut # <<>> /\ wireOut' = Tail(wireOut) /\ xOrder' = Head(wireOut)
          /\ UNCHANGED <<bPc, sending, wireIn>>
      BY <1>9 DEF SimExRecv, omsVars, omsData
    <2>2. ASSUME NEW i \in 1..Len(wireOut') PROVE QtyKept(wireOut'[i])
      <3>1. i + 1 \in 1..Len(wireOut) /\ wireOut'[i] = wireOut[i + 1]
        BY <1>2, <2>1, HeadTailProperties, SMTT(30)
      <3> QED BY <3>1
    <2>3. xOrder' = wireOut[1] /\ 1 \in 1..Len(wireOut)
      BY <1>2, <2>1, TakeHead
    <2> QED BY <1>1, <2>1, <2>2, <2>3, SMTT(30)
  <1>10. ASSUME NEW type \in {"Ack", "Fill"}, NEW qty, SimExReport(type, qty),
                xOrder.id \in 1..(nextId - 1),
                qty = IF type = "Ack" THEN 0 ELSE orders[xOrder.id].qty,
                Exec(xOrder.id, type, qty) \in Execs
         PROVE  \A i \in 1..Len(wireIn') : GoodReport(wireIn'[i])
    <2>1. GoodReport(Exec(xOrder.id, type, qty))
      BY <1>10 DEF Exec
    <2>2. CASE wireIn' = Append(wireIn, Exec(xOrder.id, type, qty))
      <3> SUFFICES ASSUME NEW i \in 1..Len(wireIn') PROVE GoodReport(wireIn'[i])
        OBVIOUS
      <3>1. /\ Len(wireIn') = Len(wireIn) + 1
            /\ wireIn'[Len(wireIn) + 1] = Exec(xOrder.id, type, qty)
            /\ \A j \in 1..Len(wireIn) : wireIn'[j] = wireIn[j]
        BY <1>2, <1>10, <2>2, AppendProperties
      <3>2. i \in 1..Len(wireIn) \/ i = Len(wireIn) + 1
        BY <1>2, <3>1
      <3> QED BY <2>1, <3>1, <3>2
    <2>3. CASE wireIn' = wireIn
      BY <2>3
    <2> QED BY <1>10, <2>2, <2>3 DEF SimExReport
  <1>11. CASE SimExAck \/ SimExFill
    <2>1. /\ xPc \in {"ack", "fill"} /\ QtyKept(xOrder)
          /\ UNCHANGED <<bPc, sending, wireOut, nextId, orders>>
          /\ xPc' = "recv" \/ xOrder' = xOrder
      BY <1>11 DEF SimExAck, SimExFill, omsVars, omsData
    <2>2. \A i \in 1..Len(wireIn') : GoodReport(wireIn'[i])
      <3>1. CASE SimExAck
        <4>1. Exec(xOrder.id, "Ack", 0) \in Execs
          BY DEF Exec, Execs, TypeOK
        <4> QED BY <1>10, <2>1, <3>1, <4>1 DEF SimExAck
      <3>2. CASE SimExFill
        <4>1. Exec(xOrder.id, "Fill", xOrder.qty) \in Execs
          BY DEF Exec, Execs, TypeOK
        <4> QED BY <1>10, <2>1, <3>2, <4>1 DEF SimExFill
      <3> QED BY <1>11, <3>1, <3>2
    <2> QED BY <1>1, <2>1, <2>2
  <1> QED BY <1>4, <1>5, <1>6, <1>7, <1>8, <1>9, <1>11, StepKinds

(***************************************************************************)
(* While the connection lives, the OMS has read the reports up to number   *)
(* Read, the rest is on the wire, and an order is booked as filled exactly *)
(* if its fill has been read.                                              *)
(***************************************************************************)
Read == Reported - Len(wireIn)

BookedUpTo(id, k) ==
    IF 2 * id <= k THEN orders[id].filled = orders[id].qty /\ orders[id].state = "Fill"
                   ELSE orders[id].filled = 0 /\ orders[id].state = "Ack"

BookedInLine ==
    Alive =>
        /\ Read \in Nat
        /\ \A i \in 1..Len(wireIn) : IsReport(wireIn[i], Read + i)
        /\ \A id \in 1..(nextId - 1) : BookedUpTo(id, Read)

AccountInv == TypeOK /\ OrdersInLine /\ QtysKept /\ BookedInLine

(* An acknowledgement changes no order's account, a fill that of its order. *)
LEMMA BookingReport ==
    ASSUME TypeOK, QtysKept, BookedInLine, ReadReport, Alive, NEW r, r = Read
    PROVE  \A id \in 1..(nextId - 1) : BookedUpTo(id, r + 1)'
  <1>1. PICK e : e = Head(wireIn)
    OBVIOUS
  <1>2. e \in Execs /\ e = wireIn[1] /\ 1 \in 1..Len(wireIn)
    BY <1>1, TakeHead DEF ReadReport, TypeOK
  <1>3. GoodReport(e) /\ IsReport(e, r + 1) /\ r \in Nat
    BY <1>2 DEF QtysKept, BookedInLine
  <1>4. /\ e.id \in 1..(nextId - 1) /\ e.type \in {"Ack", "Fill"}
        /\ e.qty = IF e.type = "Ack" THEN 0 ELSE orders[e.id].qty
        /\ r + 1 = IF e.type = "Ack" THEN 2 * e.id - 1 ELSE 2 * e.id
    BY <1>2, <1>3 DEF GoodReport, IsReport, Number, Execs
  <1>5. /\ \A id \in 1..(nextId - 1) : id # e.id => orders'[id] = orders[id]
        /\ orders'[e.id] = [qty |-> orders[e.id].qty, state |-> e.type,
                            filled |-> orders[e.id].filled + e.qty]
    BY <1>1, <1>2, <1>4, BookedOrders, Zenon
  <1>6. nextId \in Nat /\ orders[e.id].qty \in Nat
    <2>1. e.id \in 1..Len(orders)
      BY <1>4 DEF TypeOK
    <2>2. orders[e.id] \in [qty : Nat, state : {"Ack", "Fill"}, filled : Nat]
      BY <2>1, ElementOfSeq DEF TypeOK
    <2> QED BY <2>2 DEF TypeOK
  <1>7. \A id \in 1..(nextId - 1) : BookedUpTo(id, r)
    BY DEF BookedInLine
  <1> SUFFICES ASSUME NEW id \in 1..(nextId - 1) PROVE BookedUpTo(id, r + 1)'
    OBVIOUS
  <1>8. CASE id # e.id
    <2>1. 2 * id <= r + 1 <=> 2 * id <= r
      BY <1>3, <1>4, <1>6, <1>8
    <2> QED BY <1>5, <1>7, <1>8, <2>1 DEF BookedUpTo
  <1>9. CASE id = e.id
    <2>1. orders[id].filled = 0
      BY <1>3, <1>4, <1>6, <1>7, <1>9 DEF BookedUpTo
    <2>2. CASE e.type = "Ack"
      <3>1. e.qty = 0 /\ ~(2 * id <= r + 1)
        BY <1>3, <1>4, <1>6, <1>9, <2>2
      <3> QED BY <1>5, <1>9, <2>1, <2>2, <3>1 DEF BookedUpTo
    <2>3. CASE e.type = "Fill"
      <3>1. e.qty = orders[id].qty /\ 2 * id <= r + 1
        BY <1>3, <1>4, <1>6, <1>9, <2>3
      <3>2. orders'[id].filled = orders'[id].qty /\ orders'[id].state = "Fill"
        BY <1>5, <1>6, <1>9, <2>1, <2>3, <3>1
      <3> QED BY <3>1, <3>2 DEF BookedUpTo
    <2> QED BY <1>4, <2>2, <2>3
  <1> QED BY <1>8, <1>9

LEMMA BookedInLineStep ==
    ASSUME AccountInv, [Next]_vars PROVE BookedInLine'
  <1> SUFFICES ASSUME Alive' PROVE BookedInLine'
    BY DEF BookedInLine
  <1>1. TypeOK /\ OrdersInLine /\ QtysKept /\ BookedInLine
    BY DEF AccountInv
  <1>2. /\ Alive /\ Reported \in Int
        /\ Reported' = IF SimExAck \/ SimExFill THEN Reported + 1 ELSE Reported
    BY <1>1, ReportedStep
  <1>3. /\ Len(wireIn) \in Nat /\ wireIn \in Seq(Execs) /\ nextId \in Nat \ {0}
        /\ Len(wireOut) \in Nat /\ InSend \in {0, 1} /\ InSimEx \in {0, 1}
    BY <1>1, Counts DEF TypeOK
  <1>4. PICK r : r = Read
    OBVIOUS
  <1>5. /\ r \in Nat /\ Reported = r + Len(wireIn)
        /\ \A i \in 1..Len(wireIn) : IsReport(wireIn[i], r + i)
        /\ \A id \in 1..(nextId - 1) : BookedUpTo(id, r)
    <2>1. Read \in Nat /\ Reported = Read + Len(wireIn)
      BY <1>1, <1>2, <1>3 DEF BookedInLine, Read
    <2> QED BY <1>1, <1>2, <1>4, <2>1 DEF BookedInLine
  <1>6. ASSUME UNCHANGED <<orders, nextId>>
        PROVE  \A id \in 1..(nextId' - 1) : BookedUpTo(id, r)'
    BY <1>5, <1>6 DEF BookedUpTo
  <1>7. CASE UNCHANGED <<orders, nextId, wireIn>> /\ ~SimExAck /\ ~SimExFill
    <2>1. Read' = r
      BY <1>2, <1>4, <1>7 DEF Read
    <2> QED BY <1>5, <1>6, <1>7, <2>1 DEF BookedInLine, BookedUpTo
  <1>8. CASE PopRequest
    <2>1. wireIn' = wireIn /\ ~SimExAck /\ ~SimExFill
      BY <1>8 DEF PopRequest, netVars, simexVars, SimExAck, SimExFill
    <2>2. Read' = r
      BY <1>2, <1>4, <2>1 DEF Read
    <2>3. /\ nextId' = nextId + 1
          /\ \A id \in 1..(nextId - 1) : orders'[id] = orders[id]
          /\ orders'[nextId] = [qty |-> Head(toOms), state |-> "Ack", filled |-> 0]
      BY <1>1, <1>8, PopRequestOrders
    <2>4. 2 * nextId > r
      BY <1>2, <1>3, <1>5 DEF Reported, Done
    <2>5. ASSUME NEW id \in 1..(nextId' - 1) PROVE BookedUpTo(id, r)'
      <3>1. CASE id = nextId
        BY <1>3, <1>5, <2>3, <2>4, <3>1 DEF BookedUpTo
      <3>2. CASE id \in 1..(nextId - 1)
        BY <1>5, <2>3, <3>2 DEF BookedUpTo
      <3> QED BY <1>3, <2>3, <3>1, <3>2
    <2> QED BY <1>5, <2>1, <2>2, <2>5 DEF BookedInLine, BookedUpTo
  <1>9. CASE ReadReport
    <2>1. wireIn # <<>> /\ wireIn' = Tail(wireIn) /\ ~SimExAck /\ ~SimExFill /\ nextId' = nextId
      BY <1>9 DEF ReadReport, simexVars, SimExAck, SimExFill
    <2>2. Len(wireIn') = Len(wireIn) - 1
      BY <1>3, <2>1, TakeHead
    <2>3. Read' = r + 1
      BY <1>2, <1>3, <1>5, <2>1, <2>2 DEF Read
    <2>4. \A id \in 1..(nextId - 1) : BookedUpTo(id, r + 1)'
      BY <1>1, <1>2, <1>4, <1>9, BookingReport
    <2>5. ASSUME NEW i \in 1..Len(wireIn') PROVE IsReport(wireIn'[i], (r + 1) + i)
      <3>1. i + 1 \in 1..Len(wireIn) /\ wireIn'[i] = wireIn[i + 1]
        BY <1>3, <2>1, <2>2, HeadTailProperties
      <3>2. (r + 1) + i = r + (i + 1)
        BY <1>5
      <3> QED BY <1>5, <3>1, <3>2
    <2> QED BY <1>5, <2>1, <2>3, <2>4, <2>5 DEF BookedInLine, BookedUpTo
  <1>10. CASE SimExAck \/ SimExFill
    <2> DEFINE type == IF xPc = "ack" THEN "Ack" ELSE "Fill"
               qty == IF xPc = "ack" THEN 0 ELSE xOrder.qty
    <2>1. /\ xPc \in {"ack", "fill"} /\ SimExReport(type, qty)
          /\ UNCHANGED <<orders, nextId>>
      BY <1>10 DEF SimExAck, SimExFill, omsVars, omsData
    <2>2. wireIn' = Append(wireIn, Exec(xOrder.id, type, qty))
      BY <1>2, <2>1 DEF SimExReport, Alive
    <2>3. Exec(xOrder.id, type, qty) \in Execs
      BY <1>1 DEF Exec, Execs, TypeOK
    <2>4. IsReport(Exec(xOrder.id, type, qty), Reported + 1)
      BY <1>1, <1>2, <2>1, NextReport
    <2> HIDE DEF type, qty
    <2>5. /\ Len(wireIn') = Len(wireIn) + 1
          /\ wireIn'[Len(wireIn) + 1] = Exec(xOrder.id, type, qty)
          /\ \A i \in 1..Len(wireIn) : wireIn'[i] = wireIn[i]
      BY <1>3, <2>2, <2>3, AppendProperties
    <2>6. Read' = r
      BY <1>2, <1>3, <1>5, <1>10, <2>5 DEF Read
    <2>7. ASSUME NEW i \in 1..Len(wireIn') PROVE IsReport(wireIn'[i], r + i)
      <3>1. CASE i = Len(wireIn) + 1
        <4>1. r + i = Reported + 1
          BY <1>3, <1>5, <3>1
        <4> QED BY <2>4, <2>5, <3>1, <4>1
      <3>2. CASE i \in 1..Len(wireIn)
        BY <1>5, <2>5, <3>2
      <3> QED BY <1>3, <2>5, <3>1, <3>2
    <2> QED BY <1>5, <1>6, <2>1, <2>6, <2>7 DEF BookedInLine, BookedUpTo
  <1>11. CASE Quiet \/ DecideClose \/ DecideEntry \/ PopExec \/ ApplyExec \/ SendFrame \/ SimExRecv
    <2>1. UNCHANGED <<orders, nextId, wireIn>>
      BY <1>11 DEF Quiet, DecideClose, DecideEntry, SendOrder, PopExec, ApplyExec, SendFrame,
         SimExRecv, ringVars, beyondA, omsVars, omsData, netVars
    <2> QED BY <1>7, <1>10, <2>1
  <1> QED BY <1>1, <1>8, <1>9, <1>10, <1>11, StepKinds DEF Lost

LEMMA InitAccountInv == Init => AccountInv
  <1> SUFFICES ASSUME Init PROVE QtysKept /\ BookedInLine
    BY InitType, InitOrdersInLine DEF AccountInv
  <1>1. Len(wireOut) = 0 /\ Len(wireIn) = 0
    BY EmptyIsSeq, Zenon DEF Init
  <1>2. InSend = 0 /\ InSimEx = 0
    BY DEF Init, InSend, InSimEx
  <1>3. Read = 0
    BY <1>1, <1>2 DEF Init, Read, Reported, Done
  <1> QED BY <1>1, <1>3 DEF Init, QtysKept, BookedInLine

LEMMA AccountInvStep == LoopInv' /\ AccountInv /\ [Next]_vars => AccountInv'
  BY OrdersInLineStep, QtysKeptStep, BookedInLineStep DEF AccountInv, LoopInv

(***************************************************************************)
(* The inductive invariant of the OMS's accounts, for any ring size: a     *)
(* report the ring drops is booked all the same.                           *)
(***************************************************************************)
THEOREM AccountInvariant == Spec => []AccountInv
  BY InitAccountInv, AccountInvStep, LoopInvariant, PTL DEF Spec

(* Whose order or fill is on its way, in terms of report numbers. *)
LEMMA UpstreamIsUnread ==
    ASSUME AccountInv, Alive, NEW id \in 1..(nextId - 1)
    PROVE  id \in Upstream <=> 2 * id > Read
  <1>1. /\ Read \in Nat /\ Reported = Read + Len(wireIn)
        /\ Reported = 2 * Done + (IF xPc = "fill" THEN 1 ELSE 0)
        /\ Done \in Nat /\ Done = (nextId - 1) - InSend - Len(wireOut) - InSimEx
        /\ nextId \in Nat /\ Len(wireIn) \in Nat /\ Len(wireOut) \in Nat
        /\ InSend \in {0, 1} /\ InSimEx \in {0, 1}
        /\ xPc = "fill" => InSimEx = 1
    <2>1. TypeOK /\ Read \in Nat /\ Done \in Nat
      BY DEF AccountInv, BookedInLine, OrdersInLine
    <2>2. Reported \in Int
      BY <2>1 DEF Reported
    <2>3. Reported = Read + Len(wireIn)
      BY <2>1, <2>2, Counts DEF Read
    <2> QED BY <2>1, <2>3, Counts DEF Reported, Done, InSimEx
  <1>2. /\ \A i \in 1..Len(wireOut) : wireOut[i].id = Done + InSimEx + i
        /\ \A i \in 1..Len(wireIn) : wireIn[i] \in Execs /\ IsReport(wireIn[i], Read + i)
        /\ sending.id = IF InSend = 1 THEN nextId - 1 ELSE 0
        /\ xOrder.id = IF InSimEx = 1 THEN Done + 1 ELSE 0
    <2>1. \A i \in 1..Len(wireIn) : wireIn[i] \in Execs
      BY ElementOfSeq DEF AccountInv, TypeOK
    <2>2. xPc \in {"recv", "ack", "fill"}
      BY DEF AccountInv, OrdersInLine, TypeOK
    <2> QED
      BY <2>1, <2>2 DEF AccountInv, OrdersInLine, BookedInLine, InSend, InSimEx, NoOrder
  <1>3. ASSUME id \in Upstream PROVE 2 * id > Read
    <2>1. CASE id = sending.id \/ id = xOrder.id
      BY <1>1, <1>2, <2>1
    <2>2. CASE \E i \in 1..Len(wireOut) : id = wireOut[i].id
      BY <1>1, <1>2, <2>2, SMTT(30)
    <2>3. CASE \E i \in 1..Len(wireIn) : wireIn[i].type = "Fill" /\ id = wireIn[i].id
      <3>1. PICK i \in 1..Len(wireIn) : wireIn[i].type = "Fill" /\ id = wireIn[i].id
        BY <2>3
      <3>2. Read + i = 2 * id
        BY <1>2, <3>1 DEF IsReport, Number
      <3> QED BY <1>1, <3>2
    <2> QED BY <1>3, <2>1, <2>2, <2>3 DEF Upstream
  <1>4. ASSUME 2 * id > Read PROVE id \in Upstream
    <2>1. CASE id <= Done
      <3>1. PICK i \in 1..Len(wireIn) : Read + i = 2 * id
        <4>1. 2 * id - Read \in 1..Len(wireIn) /\ Read + (2 * id - Read) = 2 * id
          BY <1>1, <1>4, <2>1
        <4> QED BY <4>1
      <3>2. wireIn[i].type \in {"Ack", "Fill"} /\ wireIn[i].id \in Nat
        BY <1>2 DEF Execs
      <3>3. wireIn[i].type = "Fill" /\ wireIn[i].id = id
        BY <1>2, <3>1, <3>2 DEF IsReport, Number
      <3> QED BY <3>3 DEF Upstream
    <2>2. CASE InSimEx = 1 /\ id = Done + 1
      BY <1>2, <2>2 DEF Upstream
    <2>3. CASE id > Done + InSimEx /\ id <= Done + InSimEx + Len(wireOut)
      <3>1. PICK i \in 1..Len(wireOut) : Done + InSimEx + i = id
        <4>1. id - Done - InSimEx \in 1..Len(wireOut)
              /\ Done + InSimEx + (id - Done - InSimEx) = id
          BY <1>1, <2>3
        <4> QED BY <4>1
      <3> QED BY <1>2, <3>1 DEF Upstream
    <2>4. CASE id > Done + InSimEx + Len(wireOut)
      <3>1. InSend = 1 /\ id = nextId - 1
        BY <1>1, <2>4
      <3> QED BY <1>2, <3>1 DEF Upstream
    <2> QED BY <1>1, <2>1, <2>2, <2>3, <2>4
  <1> QED BY <1>3, <1>4

(***************************************************************************)
(* While the connection lives every order is on its way, or its fill is,   *)
(* and nothing of it is booked, or it is booked completely: for any sizes  *)
(* of ring and buffers.                                                    *)
(***************************************************************************)
THEOREM OrdersAreAccountedFor == Spec => []EveryOrderAccountedFor
  <1>1. AccountInv => EveryOrderAccountedFor
    <2> SUFFICES ASSUME AccountInv, Alive, NEW id \in 1..(nextId - 1)
                 PROVE  IF id \in Upstream
                          THEN orders[id].filled = 0 /\ orders[id].state = "Ack"
                          ELSE orders[id].filled = orders[id].qty /\ orders[id].state = "Fill"
      BY DEF EveryOrderAccountedFor, Alive
    <2>1. id \in Upstream <=> 2 * id > Read
      BY UpstreamIsUnread
    <2>2. BookedUpTo(id, Read) /\ Read \in Nat
      BY DEF AccountInv, BookedInLine
    <2> QED BY <2>1, <2>2 DEF BookedUpTo
  <1> QED BY <1>1, AccountInvariant, PTL

------------------------------------------------------------------------------
(***************************************************************************)
(* What stops.  How the ends of the connection, of thread B and of the     *)
(* process go together.                                                    *)
(***************************************************************************)
Endings ==
    /\ conn \in {"closed", "broken"} => xPc = "gone"
    /\ xPc = "gone" => conn \notin {"connecting", "up"}
    /\ bPc = "done" => conn \notin {"connecting", "up"}
    /\ conn = "hangup" => bPc = "done"
    /\ bPc = "dead" <=> aPc = "dead"
    /\ bPc = "dead" => conn \in {"closed", "broken"}
    /\ aPc = "done" => bPc = "done"

LEMMA EndingsStep ==
    ASSUME TypeOK, Endings, [Next]_vars
    PROVE  Endings'
  <1> USE DEF Endings
  <1>1. CASE ThreadA
    BY <1>1 DEF ThreadA, DrainBellA, PopExec, PopNoExec, DecideClose, DecideEntry, SendOrder,
       DecideNothing, RingDoorbell, ApplyExec, EndEvent, Join, Joined,
       beyondA, omsVars, omsData, netVars, simexVars
  <1>2. CASE ThreadB
    <2>1. CASE NextHandler
      <3>1. todo # <<>> => Head(todo) \in {"bell", "read"}
        BY TakeHead, Zenon DEF TypeOK
      <3> QED BY <2>1, <3>1 DEF NextHandler, threadA, netVars, simexVars
    <2>2. CASE LoopEnds
      BY <2>2 DEF LoopEnds, threadA, simexVars, TypeOK
    <2>3. CASE LoopAgain \/ EpollReports \/ DrainBellB \/ PopRequest \/ PopNoRequest
      BY <2>3 DEF LoopAgain, EpollReports, DrainBellB, PopRequest, PopNoRequest, threadA,
         netVars, simexVars
    <2>4. CASE SendFrame \/ SendLost \/ SendKills
      BY <2>4 DEF SendFrame, SendLost, SendKills, threadA, netVars, simexVars
    <2>5. CASE ReadReport \/ ReadAgain \/ ReadEof
      BY <2>5 DEF ReadReport, ReadAgain, ReadEof, threadA, netVars, simexVars
    <2> QED BY <1>2, <2>1, <2>2, <2>3, <2>4, <2>5 DEF ThreadB
  <1>3. CASE EpollTimesOut \/ EpollFails \/ Connect \/ Refuse \/ SimExStops
    BY <1>3 DEF EpollTimesOut, EpollFails, Connect, Refuse, SimExStops, threadA, omsVars, omsData,
       netVars, simexVars
  <1>4. CASE SimEx
    BY <1>4 DEF SimEx, SimExRecv, SimExAck, SimExFill, SimExReport, SimExClientGone,
       SimExKilled, threadA, omsVars, omsData, netVars
  <1>5. CASE ProcessOver \/ UNCHANGED vars
    BY <1>5 DEF ProcessOver, vars, threadA, omsVars, omsData, netVars, simexVars
  <1> QED BY <1>1, <1>2, <1>3, <1>4, <1>5 DEF Next

(* No place in either thread and no place in SimEx is without a guard that *)
(* holds, but for the two sends.                                           *)
LEMMA OneIsReady ==
    ASSUME TypeOK, Endings
    PROVE  CanMove \/ BothSending
  <1> SUFFICES ASSUME ~CanMove PROVE BothSending
    OBVIOUS
  <1> USE DEF CanMove
  <1>1. conn # "connecting" /\ ~(aPc \in {"done", "dead"} /\ xPc = "gone")
    OBVIOUS
  <1>2. (aPc = "joining" /\ bPc # "done") \/ aPc \in {"done", "dead"}
    BY DEF StrategyReady, TypeOK
  <1>3. bPc \in {"send", "done", "dead"}
    BY DEF OmsReady, TypeOK
  <1>4. bPc # "dead"
    BY <1>1 DEF Endings
  <1>5. bPc # "done"
    <2> SUFFICES ASSUME bPc = "done" PROVE FALSE
      OBVIOUS
    <2>1. aPc = "done"
      BY <1>2 DEF Endings
    <2>2. conn \in {"hangup", "closed", "broken"}
      BY DEF Endings, TypeOK
    <2>3. xPc = "gone"
      BY <2>2 DEF Endings, SimExReady
    <2> QED BY <1>1, <2>1, <2>3
  <1>6. bPc = "send"
    BY <1>3, <1>4, <1>5
  <1>7. conn = "up"
    BY <1>1, <1>6 DEF Endings, OmsReady, TypeOK
  <1>8. Len(wireOut) = WireFrames
    <2>1. Len(wireOut) \in Nat /\ WireFrames \in Nat /\ Len(wireOut) <= WireFrames
      BY TradingLoopAssumption, LenProperties DEF TypeOK
    <2> QED BY <1>6, <1>7, <2>1 DEF OmsReady
  <1>9. wireOut # <<>>
    BY <1>8, TradingLoopAssumption, EmptySeq
  <1>10. xPc \in {"ack", "fill"}
    BY <1>7, <1>9 DEF Endings, SimExReady, TypeOK
  <1>11. Len(wireIn) = WireFrames
    <2>1. Len(wireIn) \in Nat /\ WireFrames \in Nat /\ Len(wireIn) <= WireFrames
      BY TradingLoopAssumption, LenProperties DEF TypeOK
    <2> QED BY <1>7, <1>10, <2>1 DEF SimExReady
  <1> QED
    BY <1>6, <1>7, <1>8, <1>10, <1>11 DEF BothSending

(* At any sizes of the rings and of the connection's buffers, failing or   *)
(* not: if none of the guards holds, thread B is inside send_all and SimEx *)
(* inside send_report with both directions full.  That a guard that holds  *)
(* does let the system move is ENABLED and left to TLC, which checks it as *)
(* part of OnlyDeadlock.                                                   *)
THEOREM OnlySendsDeadlock ==
    Spec => [](CanMove \/ BothSending) /\ [](GuardsSuffice => OnlyDeadlock)
  <1>1. Init => Endings
    BY DEF Init, Endings
  <1>2. TypeOK /\ Endings /\ [Next]_vars => Endings'
    BY EndingsStep
  <1>3. TypeOK /\ Endings => CanMove \/ BothSending
    BY OneIsReady
  <1>4. CanMove \/ BothSending => (GuardsSuffice => OnlyDeadlock)
    BY DEF OnlyDeadlock
  <1> QED
    BY <1>1, <1>2, <1>3, <1>4, TypeCorrect, PTL DEF Spec

------------------------------------------------------------------------------
(***************************************************************************)
(* To the two threads the ring of orders is the queue that SpscRing        *)
(* implements: what thread B records are the quantities thread A pushed,   *)
(* each once and in order.                                                 *)
(***************************************************************************)
LastRecorded == IF orders = <<>> THEN 0 ELSE orders[Len(orders)].qty

OrderRing == INSTANCE BoundedFifo WITH
    Items <- Nat \ {0}, Blank <- 0, Bound <- RingSlots,
    queue <- toOms, got <- LastRecorded

LEMMA SameRecorded ==
    ASSUME TypeOK, TypeOK', nextId' = nextId,
           \A id \in 1..(nextId - 1) : orders'[id].qty = orders[id].qty
    PROVE  LastRecorded' = LastRecorded
  <1>1. PICK n \in Nat : n = nextId - 1
    BY DEF TypeOK
  <1>2. Len(orders) = n /\ Len(orders') = n /\ orders \in Seq([qty : Nat, state : {"Ack", "Fill"}, filled : Nat])
        /\ orders' \in Seq([qty : Nat, state : {"Ack", "Fill"}, filled : Nat])
    BY <1>1 DEF TypeOK
  <1>3. CASE n = 0
    <2>1. orders = <<>> /\ orders' = <<>>
      BY <1>2, <1>3, EmptySeq
    <2> QED BY <2>1 DEF LastRecorded
  <1>4. CASE n # 0
    <2>1. orders # <<>> /\ orders' # <<>>
      BY <1>2, <1>4, EmptySeq
    <2>2. orders'[n].qty = orders[n].qty
      <3>1. nextId \in Nat
        BY DEF TypeOK
      <3>2. n \in 1..(nextId - 1)
        BY <1>1, <1>4, <3>1
      <3> QED BY <3>2
    <2> QED BY <1>2, <2>1, <2>2 DEF LastRecorded
  <1> QED BY <1>3, <1>4

LEMMA PushPuts ==
    ASSUME TypeOK, TypeOK', NEW q \in Nat \ {0}, SendOrder(q)
    PROVE  OrderRing!Put(q)
  <1>1. Len(toOms) < RingSlots /\ toOms' = Append(toOms, q) /\ UNCHANGED <<orders, nextId>>
    BY DEF SendOrder, MaySend, beyondA, omsVars, omsData
  <1>2. LastRecorded' = LastRecorded
    BY <1>1, SameRecorded
  <1> QED BY <1>1, <1>2 DEF OrderRing!Put

LEMMA PopGets ==
    ASSUME TypeOK, TypeOK', PopRequest
    PROVE  OrderRing!Get
  <1>1. toOms # <<>> /\ toOms' = Tail(toOms)
    BY DEF PopRequest
  <1>2. orders'[nextId].qty = Head(toOms) /\ nextId' = nextId + 1
    BY PopRequestOrders
  <1>3. Len(orders') = nextId /\ orders' # <<>>
    <2>1. nextId \in Nat \ {0} /\ Len(orders') = nextId' - 1
      BY DEF TypeOK
    <2> QED BY <1>2, <2>1, EmptySeq
  <1>4. LastRecorded' = Head(toOms)
    BY <1>2, <1>3 DEF LastRecorded
  <1> QED BY <1>1, <1>4 DEF OrderRing!Get

LEMMA RingStep ==
    ASSUME TypeOK, TypeOK', [Next]_vars
    PROVE  [OrderRing!Next]_(OrderRing!vars)
  <1>1. CASE DecideClose
    <2>1. Abs(position) \in Nat \ {0} /\ SendOrder(Abs(position))
      BY <1>1 DEF DecideClose, Abs, TypeOK
    <2> QED BY <2>1, PushPuts DEF OrderRing!Next
  <1>2. CASE DecideEntry
    <2>1. 1 \in Nat \ {0} /\ SendOrder(1)
      BY <1>2 DEF DecideEntry
    <2> QED BY <2>1, PushPuts DEF OrderRing!Next
  <1>3. CASE PopRequest
    BY <1>3, PopGets DEF OrderRing!Next
  <1>4. CASE ReadReport
    <2>1. toOms' = toOms /\ nextId' = nextId /\ orders' = Booked(Head(wireIn))
      BY <1>4 DEF ReadReport
    <2>2. PICK k, s, f : orders' = [orders EXCEPT ![k] = [qty |-> orders[k].qty, state |-> s, filled |-> f]]
      BY <2>1 DEF Booked
    <2>3. DOMAIN orders = 1..(nextId - 1)
      BY LenProperties DEF TypeOK
    <2>4. \A id \in 1..(nextId - 1) : orders'[id].qty = orders[id].qty
      BY <2>2, <2>3
    <2> QED BY <2>1, <2>4, SameRecorded DEF OrderRing!vars
  <1>5. CASE UNCHANGED <<toOms, orders, nextId>>
    BY <1>5, SameRecorded DEF OrderRing!vars
  <1> QED
    BY <1>1, <1>2, <1>3, <1>4, <1>5, StepKinds
       DEF Quiet, Lost, PopExec, ApplyExec, SendFrame, SimExRecv, SimExAck, SimExFill,
           strategyVars, ringVars, beyondA, omsVars, omsData, threadA

(* The ring of orders, as thread A pushes and thread B pops it, is a       *)
(* bounded FIFO queue (RingImplementsFifo says that a SpscRing is one), at *)
(* any size and however the connection fares.                              *)
THEOREM OrdersThroughFifo == Spec => OrderRing!Spec
  <1>1. Init => OrderRing!Init
    BY DEF Init, OrderRing!Init, LastRecorded
  <1>2. TypeOK /\ TypeOK' /\ [Next]_vars => [OrderRing!Next]_(OrderRing!vars)
    BY RingStep
  <1> QED
    BY <1>1, <1>2, TypeCorrect, PTL DEF Spec, OrderRing!Spec
==============================================================================
