------------------------------ MODULE TradingLoop ------------------------------
(***************************************************************************)
(* hft_test: the strategy thread (A) and the OMS thread (B) of hft_main,   *)
(* joined by two rings with eventfd doorbells, and the SimEx process at    *)
(* the other end of a TCP connection.                                      *)
(*                                                                         *)
(* The rings are sequences whose pushes and pops are atomic: SpscRing      *)
(* implements that (SpscRing_proofs, RingImplementsFifo).  A ring may also *)
(* refuse a push on a stale tail_: for orders that is DecideNothing, for   *)
(* reports the second disjunct of ReadReport.  A pop that finds nothing on *)
(* a stale head_ is one before the push: whoever has read the eventfd that *)
(* is written after a push sees it, and until then nothing else tells the  *)
(* two orders apart.                                                       *)
(*                                                                         *)
(* A TCP direction is a sequence of whole frames: unpack_frame waits for   *)
(* the rest of a frame that arrived in parts.  Prices, sides and times are left out: no  *)
(* step here depends on a side (side_for_cloid goes by the order id), and  *)
(* what prices decide (the z-score and the profit limits) is a free        *)
(* choice among the decisions they allow.                                  *)
(***************************************************************************)
EXTENDS Integers, Sequences, SequencesExt

CONSTANTS
    MaxEvents,      \* kEvents: market data events thread A processes
    PosLimit,       \* StrategyConfig::pos_limit
    RingSlots,      \* items a ring holds: kRingDepth - 1
    WireFrames,     \* frames one direction of the connection buffers
    MayFail         \* whether connect and epoll may fail and SimEx may stop

ASSUME TradingLoopAssumption ==
    /\ MaxEvents \in Nat \ {0}
    /\ PosLimit \in Nat \ {0}
    /\ RingSlots \in Nat \ {0}
    /\ WireFrames \in Nat \ {0}
    /\ MayFail \in BOOLEAN

VARIABLES
    aPc,            \* where thread A is
    event,          \* events it has processed
    position,       \* Strategy::position_
    active,         \* Strategy::active_order_
    pending,        \* Strategy::pending_execs_
    drained,        \* history: exec updates drain_execs has handled
    applied,        \* history: the number of the last of them
    toOms,          \* ring A to B: quantities ordered
    bellB,          \* its eventfd's count
    toStrat,        \* ring B to A: exec updates
    bellA,          \* its eventfd's count
    missed,         \* history: reports of each type that ring refused
    running,        \* OmsEngine::running_
    bPc,            \* where thread B is
    todo,           \* handlers left to call after epoll_wait
    sending,        \* the frame in send_all
    nextId,         \* next_clordid_
    orders,         \* orders_: id to quantity, state and filled quantity
    edge,           \* an event on the edge-triggered socket is undelivered
    conn,           \* the connection
    wireOut,        \* new orders on their way to SimEx
    wireIn,         \* exec reports on their way back
    xPc,            \* where SimEx is
    xOrder          \* the order it is handling

strategyVars == <<event, position, active, pending, drained, applied>>
ringVars     == <<toOms, bellB, toStrat, bellA, missed>>
omsData      == <<sending, nextId, orders>>
omsVars      == <<bPc, todo, omsData>>
netVars      == <<edge, conn, wireOut, wireIn>>
simexVars    == <<xPc, xOrder>>

threadA == <<aPc, strategyVars>>
beyondA == <<running, omsVars, netVars, simexVars>>
vars == <<threadA, ringVars, running, omsVars, netVars, simexVars>>

Abs(n) == IF n < 0 THEN -n ELSE n

NoOrder == [id |-> 0, qty |-> 0]

Exec(id, type, qty) == [id |-> id, type |-> type, qty |-> qty]

(* The place of a report among all that SimEx sends: Ack 1, Fill 1, Ack 2, *)
(* Fill 2, ... are numbered 1, 2, 3, 4, ...                                *)
Number(ex) == IF ex.type = "Ack" THEN 2 * ex.id - 1 ELSE 2 * ex.id

(* Orders the strategy has pushed so far. *)
Sent == (nextId - 1) + Len(toOms)

(* Seeded faults, here and below: each *Fault operator is a plausible      *)
(* wrong form of the definition it is named after.  No specification uses  *)
(* one; with it in the definition's place a property must fail (README).   *)

\* the two sides of side_for_cloid swapped
SideForCloidFault(id) == IF id % 2 = 0 THEN -1 ELSE 1

(* side_for_cloid: odd ids are taken for sells whatever was ordered. *)
SideForCloid(id) == IF id % 2 = 0 THEN 1 ELSE -1

------------------------------------------------------------------------------
Init ==
    /\ aPc = "bell" /\ event = 0
    /\ position = 0 /\ active = FALSE /\ pending = <<>>
    /\ drained = 0 /\ applied = 0
    /\ toOms = <<>> /\ bellB = 0 /\ toStrat = <<>> /\ bellA = 0
    /\ missed = [type \in {"Ack", "Fill"} |-> 0]
    /\ running = TRUE
    /\ bPc = "loop" /\ todo = <<>> /\ sending = NoOrder
    /\ nextId = 1 /\ orders = <<>>
    /\ edge = FALSE /\ conn = "connecting" /\ wireOut = <<>> /\ wireIn = <<>>
    /\ xPc = "recv" /\ xOrder = NoOrder

------------------------------------------------------------------------------
(* Thread A: run_thread_a and Strategy.                                    *)

(* eventfd_read until it fails; the count is not otherwise used. *)
DrainBellA ==
    /\ aPc = "bell"
    /\ bellA' = 0
    /\ aPc' = "pop"
    /\ UNCHANGED <<strategyVars, toOms, bellB, toStrat, missed, beyondA>>

(* on_exec: the update is only queued. *)
PopExec ==
    /\ aPc = "pop" /\ toStrat # <<>>
    /\ pending' = Append(pending, Head(toStrat))
    /\ toStrat' = Tail(toStrat)
    /\ UNCHANGED <<aPc, event, position, active, drained, applied,
                   toOms, bellB, bellA, missed, beyondA>>

PopNoExec ==
    /\ aPc = "pop" /\ toStrat = <<>>
    /\ aPc' = "decide"
    /\ UNCHANGED <<strategyVars, ringVars, beyondA>>

\* the test of active_order_ forgotten
MaySendFault == Len(toOms) < RingSlots

(* No order is active and the push finds room. *)
MaySend == ~active /\ Len(toOms) < RingSlots

(* send_order_: the push; the doorbell is rung in the next step. *)
SendOrder(qty) ==
    /\ MaySend
    /\ toOms' = Append(toOms, qty)
    /\ active' = TRUE
    /\ aPc' = "ring"
    /\ UNCHANGED <<event, position, pending, drained, applied,
                   bellB, toStrat, bellA, missed, beyondA>>

(* A profit or loss limit is hit, or the z-score has reverted. *)
DecideClose ==
    /\ aPc = "decide" /\ position # 0
    /\ SendOrder(Abs(position))

(* No exit condition, the z-score calls for entry and the spread allows it. *)
DecideEntry ==
    /\ aPc = "decide" /\ Abs(position) < PosLimit
    /\ SendOrder(1)

(* No signal, an order is active, or the ring is full. *)
DecideNothing ==
    /\ aPc = "decide"
    /\ aPc' = "apply"
    /\ UNCHANGED <<strategyVars, ringVars, beyondA>>

\* the order is pushed but the eventfd not written
RingDoorbellFault ==
    /\ aPc = "ring"
    /\ aPc' = "apply"
    /\ UNCHANGED <<strategyVars, ringVars, beyondA>>

RingDoorbell ==
    /\ aPc = "ring"
    /\ bellB' = bellB + 1
    /\ aPc' = "apply"
    /\ UNCHANGED <<strategyVars, toOms, toStrat, bellA, missed, beyondA>>

(* One round of drain_execs: any update clears active_order_, a fill also  *)
(* moves the position to the side the id's parity stands for.              *)
ApplyExec ==
    /\ aPc = "apply" /\ pending # <<>>
    /\ LET ex == Head(pending)
       IN  position' = IF ex.type = "Fill"
                       THEN position + SideForCloid(ex.id) * ex.qty
                       ELSE position
    /\ active' = FALSE
    /\ pending' = Tail(pending)
    /\ drained' = drained + 1 /\ applied' = Number(Head(pending))
    /\ UNCHANGED <<aPc, event, ringVars, beyondA>>

EndEvent ==
    /\ aPc = "apply" /\ pending = <<>>
    /\ event' = event + 1
    /\ aPc' = IF event + 1 < MaxEvents THEN "bell" ELSE "join"
    /\ UNCHANGED <<position, active, pending, drained, applied, ringVars, beyondA>>

(* OmsEngine::join *)
Join ==
    /\ aPc = "join"
    /\ running' = FALSE
    /\ aPc' = "joining"
    /\ UNCHANGED <<strategyVars, ringVars, omsVars, netVars, simexVars>>

Joined ==
    /\ aPc = "joining" /\ bPc = "done"
    /\ aPc' = "done"
    /\ UNCHANGED <<strategyVars, ringVars, beyondA>>

ThreadA ==
    \/ DrainBellA \/ PopExec \/ PopNoExec
    \/ DecideClose \/ DecideEntry \/ DecideNothing \/ RingDoorbell
    \/ ApplyExec \/ EndEvent \/ Join \/ Joined

------------------------------------------------------------------------------
(* Thread B: OmsEngine.                                                    *)

\* while (true)
LoopAgainFault ==
    /\ bPc = "loop"
    /\ bPc' = "wait"
    /\ UNCHANGED <<threadA, ringVars, running, todo, omsData, netVars, simexVars>>

LoopAgain ==
    /\ bPc = "loop" /\ running
    /\ bPc' = "wait"
    /\ UNCHANGED <<threadA, ringVars, running, todo, omsData, netVars, simexVars>>

(* The loop ends; cleanup closes the socket. *)
LoopEnds ==
    /\ bPc = "loop" /\ ~running
    /\ bPc' = "done"
    /\ conn' = IF conn \in {"connecting", "up"} THEN "hangup" ELSE conn
    /\ UNCHANGED <<threadA, ringVars, running, todo, omsData, edge, wireOut, wireIn, simexVars>>

Readable == wireIn # <<>> \/ conn \in {"closed", "broken"}

\* "else if" between the two kinds of event
ReadyHandlersFault ==
    IF bellB > 0 THEN {"bell"} ELSE IF edge /\ Readable THEN {"read"} ELSE {}

(* The handlers a return of epoll_wait leads to: the doorbell is level-    *)
(* triggered, the socket is reported once per edge.                        *)
ReadyHandlers ==
    (IF bellB > 0 THEN {"bell"} ELSE {}) \cup
    (IF edge /\ Readable THEN {"read"} ELSE {})

(* epoll_wait reports what is ready, in either order; handle_ring is       *)
(* called once more at the end of every round.                             *)
EpollReports ==
    /\ bPc = "wait" /\ (bellB > 0 \/ edge)
    /\ \E first \in SetToSeqs(ReadyHandlers) : todo' = Append(first, "bell")
    /\ edge' = FALSE
    /\ bPc' = "handle"
    /\ UNCHANGED <<threadA, ringVars, running, omsData, conn, wireOut, wireIn, simexVars>>

\* no timeout once the program is ending
EpollTimesOutFault ==
    /\ bPc = "wait" /\ bellB = 0 /\ ~edge /\ running
    /\ todo' = <<"bell">>
    /\ bPc' = "handle"
    /\ UNCHANGED <<threadA, ringVars, running, omsData, netVars, simexVars>>

(* 50 ms passed with nothing ready. *)
EpollTimesOut ==
    /\ bPc = "wait" /\ bellB = 0 /\ ~edge
    /\ todo' = <<"bell">>
    /\ bPc' = "handle"
    /\ UNCHANGED <<threadA, ringVars, running, omsData, netVars, simexVars>>

(* epoll_wait fails, at once if epoll_create1 did: the loop ends, but not  *)
(* the program.                                                            *)
EpollFails ==
    /\ MayFail
    /\ bPc = "wait"
    /\ bPc' = "done"
    /\ conn' = IF conn \in {"connecting", "up"} THEN "hangup" ELSE conn
    /\ UNCHANGED <<threadA, ringVars, running, todo, omsData, edge, wireOut, wireIn, simexVars>>

NextHandler ==
    /\ bPc = "handle"
    /\ IF todo = <<>>
       THEN bPc' = "loop" /\ UNCHANGED todo
       ELSE bPc' = Head(todo) /\ todo' = Tail(todo)
    /\ UNCHANGED <<threadA, ringVars, running, omsData, netVars, simexVars>>

(* handle_ring: the doorbell is silenced BEFORE the ring is emptied. *)
DrainBellB ==
    /\ bPc = "bell"
    /\ bellB' = 0
    /\ bPc' = "pop"
    /\ UNCHANGED <<threadA, toOms, toStrat, bellA, missed, running, todo, omsData, netVars, simexVars>>

(* send_new_order up to send_all: the order is recorded before it is sent. *)
PopRequest ==
    /\ bPc = "pop" /\ toOms # <<>>
    /\ sending' = [id |-> nextId, qty |-> Head(toOms)]
    /\ orders' = Append(orders, [qty |-> Head(toOms), state |-> "Ack", filled |-> 0])
    /\ nextId' = nextId + 1
    /\ toOms' = Tail(toOms)
    /\ bPc' = "send"
    /\ UNCHANGED <<threadA, bellB, toStrat, bellA, missed, running, todo, netVars, simexVars>>

PopNoRequest ==
    /\ bPc = "pop" /\ toOms = <<>>
    /\ bPc' = "handle"
    /\ UNCHANGED <<threadA, ringVars, running, todo, omsData, netVars, simexVars>>

(* send_all: while the socket is not writable it sleeps and tries again,   *)
(* and looks at nothing else.                                              *)
SendFrame ==
    /\ bPc = "send" /\ conn = "up" /\ Len(wireOut) < WireFrames
    /\ wireOut' = Append(wireOut, sending)
    /\ sending' = NoOrder
    /\ bPc' = "pop"
    /\ UNCHANGED <<threadA, ringVars, running, todo, nextId, orders, edge, conn, wireIn, simexVars>>

(* No peer any more: the frame is lost, or send fails and the loop ends. *)
SendLost ==
    /\ bPc = "send" /\ conn \in {"closed", "broken"}
    /\ sending' = NoOrder
    /\ bPc' = "pop"
    /\ UNCHANGED <<threadA, ringVars, running, todo, nextId, orders, netVars, simexVars>>

(* No peer any more: send without MSG_NOSIGNAL raises SIGPIPE. *)
SendKills ==
    /\ bPc = "send" /\ conn \in {"closed", "broken"}
    /\ aPc' = "dead" /\ bPc' = "dead"
    /\ UNCHANGED <<strategyVars, ringVars, running, todo, omsData, netVars, simexVars>>

\* a report the ring refuses is not booked either
BookedDropFault(ex) ==
    IF Len(toStrat) < RingSlots
    THEN [orders EXCEPT ![ex.id] =
             [qty |-> @.qty, state |-> ex.type, filled |-> @.filled + ex.qty]]
    ELSE orders

(* orders_ after a report; one for an unknown id changes nothing. *)
Booked(ex) ==
    [orders EXCEPT ![ex.id] =
        [qty |-> @.qty, state |-> ex.type, filled |-> @.filled + ex.qty]]

(* RingSlots updates or more were pushed, so a tail_ as old as the last    *)
(* push makes the ring look full, as it does when it is full.  (A younger  *)
(* tail_ may be all that thread B can still see: the model refuses more.)  *)
MayLookFull == drained + Len(pending) + Len(toStrat) >= RingSlots

(* One frame of parse_exec_reports: pushed if the ring has room, dropped   *)
(* if it looks full, the doorbell rung and the order updated either way.   *)
ReadReport ==
    /\ bPc = "read" /\ wireIn # <<>>
    /\ \/ /\ Len(toStrat) < RingSlots
          /\ toStrat' = Append(toStrat, Head(wireIn))
          /\ UNCHANGED missed
       \/ /\ MayLookFull
          /\ missed' = [missed EXCEPT ![Head(wireIn).type] = @ + 1]
          /\ UNCHANGED toStrat
    /\ orders' = Booked(Head(wireIn))
    /\ bellA' = bellA + 1
    /\ wireIn' = Tail(wireIn)
    /\ UNCHANGED <<threadA, toOms, bellB, running, bPc, todo, sending, nextId, edge, conn, wireOut, simexVars>>

(* recv fails: EAGAIN, or the error of a broken connection. *)
ReadAgain ==
    /\ bPc = "read" /\ wireIn = <<>> /\ conn # "closed"
    /\ bPc' = "handle"
    /\ UNCHANGED <<threadA, ringVars, running, todo, omsData, netVars, simexVars>>

(* recv returns 0: SimEx disconnected. *)
ReadEof ==
    /\ bPc = "read" /\ wireIn = <<>> /\ conn = "closed"
    /\ running' = FALSE
    /\ bPc' = "handle"
    /\ UNCHANGED <<threadA, ringVars, todo, omsData, netVars, simexVars>>

ThreadB ==
    \/ LoopAgain \/ LoopEnds \/ EpollReports \/ NextHandler
    \/ DrainBellB \/ PopRequest \/ PopNoRequest
    \/ SendFrame \/ SendLost \/ SendKills
    \/ ReadReport \/ ReadAgain \/ ReadEof

------------------------------------------------------------------------------
(* The connection and SimEx.                                               *)

(* The connect begun in setup_socket completes. *)
Connect ==
    /\ conn = "connecting"
    /\ conn' = "up" /\ edge' = TRUE
    /\ UNCHANGED <<threadA, ringVars, running, omsVars, wireOut, wireIn, simexVars>>

(* No SimEx is listening. *)
Refuse ==
    /\ MayFail
    /\ conn = "connecting"
    /\ conn' = "broken" /\ edge' = TRUE
    /\ xPc' = "gone"
    /\ UNCHANGED <<threadA, ringVars, running, omsVars, wireOut, wireIn, xOrder>>

(* handle_client receives an order (also one sent before a hang-up). *)
SimExRecv ==
    /\ xPc = "recv" /\ wireOut # <<>>
    /\ xOrder' = Head(wireOut)
    /\ wireOut' = Tail(wireOut)
    /\ xPc' = "ack"
    /\ UNCHANGED <<threadA, ringVars, running, omsVars, edge, conn, wireIn>>

(* send_report: a blocking send; after a hang-up nobody reads it. *)
SimExReport(type, qty) ==
    \/ /\ conn = "up" /\ Len(wireIn) < WireFrames
       /\ wireIn' = Append(wireIn, Exec(xOrder.id, type, qty))
       /\ edge' = TRUE
    \/ conn = "hangup" /\ UNCHANGED <<wireIn, edge>>

\* filled before acknowledged
SimExAckFault ==
    /\ xPc = "ack"
    /\ SimExReport("Fill", xOrder.qty)
    /\ xPc' = "fill"
    /\ UNCHANGED <<threadA, ringVars, running, omsVars, conn, wireOut, xOrder>>

(* handle_new_order: an acknowledgement after ack_delay_us ... *)
SimExAck ==
    /\ xPc = "ack"
    /\ SimExReport("Ack", 0)
    /\ xPc' = "fill"
    /\ UNCHANGED <<threadA, ringVars, running, omsVars, conn, wireOut, xOrder>>

(* ... and the complete fill after fill_delay_us. *)
SimExFill ==
    /\ xPc = "fill"
    /\ SimExReport("Fill", xOrder.qty)
    /\ xPc' = "recv" /\ xOrder' = NoOrder
    /\ UNCHANGED <<threadA, ringVars, running, omsVars, conn, wireOut>>

(* The client is gone: recv returns 0 or, if the hang-up reset the         *)
(* connection, fails with orders unread.  SimEx waits for the next client. *)
SimExClientGone ==
    /\ xPc = "recv" /\ conn = "hangup"
    /\ xPc' = "gone"
    /\ wireOut' = <<>>
    /\ UNCHANGED <<threadA, ringVars, running, omsVars, edge, conn, wireIn, xOrder>>

(* A report sent to a client that is gone raises SIGPIPE. *)
SimExKilled ==
    /\ xPc \in {"ack", "fill"} /\ conn = "hangup"
    /\ xPc' = "gone" /\ xOrder' = NoOrder
    /\ UNCHANGED <<threadA, ringVars, running, omsVars, netVars>>

(* The SimEx process is stopped.  Orders it has not received turn the end  *)
(* of stream into a connection reset.                                      *)
SimExStops ==
    /\ MayFail
    /\ conn = "up"
    /\ conn' = IF wireOut = <<>> THEN "closed" ELSE "broken"
    /\ edge' = TRUE
    /\ wireOut' = <<>>
    /\ xPc' = "gone" /\ xOrder' = NoOrder
    /\ UNCHANGED <<threadA, ringVars, running, omsVars, wireIn>>

SimEx == SimExRecv \/ SimExAck \/ SimExFill \/ SimExClientGone \/ SimExKilled

(* The process has ended, by itself or by SIGPIPE, and SimEx is idle. *)
ProcessOver ==
    /\ aPc \in {"done", "dead"}
    /\ xPc = "gone"
    /\ UNCHANGED vars

Next ==
    \/ ThreadA \/ ThreadB \/ EpollTimesOut \/ EpollFails
    \/ Connect \/ Refuse \/ SimEx \/ SimExStops
    \/ ProcessOver

Spec == Init /\ [][Next]_vars

(***************************************************************************)
(* The operating system runs both threads and SimEx, epoll_wait(..., 50)   *)
(* times out, and loopback connects or refuses.  No fairness for signals   *)
(* and failures.                                                           *)
(***************************************************************************)
FairSpec ==
    /\ Spec
    /\ WF_vars(ThreadA) /\ WF_vars(ThreadB) /\ WF_vars(SimEx)
    /\ WF_vars(Connect) /\ WF_vars(EpollTimesOut)

------------------------------------------------------------------------------
(***************************************************************************)
(* Types of all variables.                                                 *)
(***************************************************************************)
Execs == [id : Nat, type : {"Ack", "Fill"}, qty : Nat]

TypeOK ==
    /\ aPc \in {"bell", "pop", "decide", "ring", "apply", "join", "joining",
               "done", "dead"}
    /\ event \in 0..MaxEvents
    /\ position \in Int /\ active \in BOOLEAN
    /\ pending \in Seq(Execs) /\ drained \in Nat /\ applied \in Int
    /\ toOms \in Seq(Nat) /\ Len(toOms) <= RingSlots
    /\ toStrat \in Seq(Execs) /\ Len(toStrat) <= RingSlots
    /\ bellB \in Nat /\ bellA \in Nat
    /\ missed \in [{"Ack", "Fill"} -> Nat]
    /\ running \in BOOLEAN
    /\ bPc \in {"loop", "wait", "handle", "bell", "pop", "send", "read", "done",
               "dead"}
    /\ todo \in Seq({"bell", "read"})
    /\ sending \in [id : Nat, qty : Nat]
    /\ nextId \in Nat \ {0}
    /\ orders \in Seq([qty : Nat, state : {"Ack", "Fill"}, filled : Nat])
    /\ Len(orders) = nextId - 1
    /\ edge \in BOOLEAN
    /\ conn \in {"connecting", "up", "hangup", "closed", "broken"}
    /\ wireOut \in Seq([id : Nat, qty : Nat]) /\ Len(wireOut) <= WireFrames
    /\ wireIn \in Seq(Execs) /\ Len(wireIn) <= WireFrames
    /\ xPc \in {"recv", "ack", "fill", "gone"}
    /\ xOrder \in [id : Nat, qty : Nat]

(***************************************************************************)
(* Flow control: every order but one in flight was paid for by an exec     *)
(* update that drain_execs handled.  It is what active_order_ really       *)
(* achieves, at any ring size and over any connection.                     *)
(***************************************************************************)
FlowControl == Sent <= drained + (IF active THEN 1 ELSE 0)

(***************************************************************************)
(* The inductive invariant behind FlowControl and TypeOK: the main loop    *)
(* runs only while events are left.                                        *)
(***************************************************************************)
EventsLeft == aPc \in {"bell", "pop", "decide", "ring", "apply"} => event < MaxEvents

LoopInv == TypeOK /\ EventsLeft /\ FlowControl

(***************************************************************************)
(* Across the socket, the OMS and the ring the updates of all orders reach *)
(* the strategy in the order Ack 1, Fill 1, Ack 2, Fill 2, ...: what is in *)
(* transit is sorted and newer than all that was applied, and on the       *)
(* socket nothing is missing, counting the reports that the ring refused.  *)
(***************************************************************************)
Queue == pending \o toStrat

InTransit == Queue \o wireIn

(* Reports thread B has read. *)
Received == drained + Len(pending) + Len(toStrat) + missed["Ack"] + missed["Fill"]

ReportsInOrder ==
    /\ \A i \in 1..Len(InTransit) : applied < Number(InTransit[i])
    /\ \A i, j \in 1..Len(InTransit) :
          i < j => Number(InTransit[i]) < Number(InTransit[j])
    /\ \A i \in 1..Len(wireIn) : Number(wireIn[i]) = Received + i

(***************************************************************************)
(* Because ids alternate in parity and every order is for one unit, the    *)
(* strategy believes itself flat or one short, whatever it ordered and     *)
(* with however many orders working: position_ follows the number of fills *)
(* applied until the ring refuses a fill.                                  *)
(***************************************************************************)
PositionAlternates ==
    missed["Fill"] = 0 => position = -((applied \div 2) % 2)

(***************************************************************************)
(* While the connection lives, an order recorded by the OMS is completely  *)
(* filled unless it, or its fill, is still on the way, and then nothing of *)
(* it is: no order is forgotten, no fill counted twice or against another  *)
(* order.  A report the ring drops still counts here.                      *)
(***************************************************************************)
Upstream ==
    {sending.id, xOrder.id}
        \cup {wireOut[i].id : i \in 1..Len(wireOut)}
        \cup {wireIn[i].id : i \in {j \in 1..Len(wireIn) : wireIn[j].type = "Fill"}}

EveryOrderAccountedFor ==
    conn \in {"connecting", "up"} =>
        \A id \in 1..(nextId - 1) :
            IF id \in Upstream
            THEN orders[id].filled = 0 /\ orders[id].state = "Ack"
            ELSE orders[id].filled = orders[id].qty /\ orders[id].state = "Fill"

(***************************************************************************)
(* Flow control bounds what is on the wire: with room for one frame more   *)
(* than there are events neither send_all nor SimEx's send ever waits.     *)
(***************************************************************************)
SendsNeverWait ==
    WireFrames > MaxEvents =>
        /\ bPc = "send" => Len(wireOut) < WireFrames
        /\ xPc \in {"ack", "fill"} => Len(wireIn) < WireFrames

(***************************************************************************)
(* With less room there is exactly one way for everything to stop: thread  *)
(* B inside send_all, which reads nothing meanwhile, and SimEx inside      *)
(* send_report, which receives nothing meanwhile, both buffers full.       *)
(* Whenever one of the guards below holds the system moves, and when none  *)
(* holds it is that state.                                                 *)
(***************************************************************************)
StrategyReady ==
    \/ aPc \in {"bell", "pop", "decide", "ring", "apply", "join"}
    \/ aPc = "joining" /\ bPc = "done"

OmsReady ==
    \/ bPc \in {"loop", "wait", "handle", "bell", "pop", "read"}
    \/ bPc = "send" /\ conn \in {"closed", "broken"}
    \/ bPc = "send" /\ conn = "up" /\ Len(wireOut) < WireFrames

SimExReady ==
    \/ xPc # "gone" /\ conn = "hangup"
    \/ xPc = "recv" /\ wireOut # <<>>
    \/ xPc \in {"ack", "fill"} /\ conn = "up" /\ Len(wireIn) < WireFrames

CanMove ==
    \/ StrategyReady \/ OmsReady \/ SimExReady
    \/ conn = "connecting"
    \/ aPc \in {"done", "dead"} /\ xPc = "gone"

GuardsSuffice == CanMove => ENABLED Next

BothSending ==
    /\ bPc = "send" /\ Len(wireOut) = WireFrames
    /\ xPc \in {"ack", "fill"} /\ Len(wireIn) = WireFrames
    /\ conn = "up"

OnlyDeadlock == GuardsSuffice /\ (CanMove \/ BothSending)

(***************************************************************************)
(* No request sleeps in the ring: unless thread B is emptying it, either   *)
(* the doorbell is up or thread A is about to ring it.  Silencing the      *)
(* doorbell before the ring is emptied loses no wake-up, so the OMS never  *)
(* depends on the 50 ms timeout for an order.                              *)
(***************************************************************************)
NoRequestSleeps ==
    toOms # <<>> /\ bPc \notin {"pop", "send", "dead"} => bellB > 0 \/ aPc = "ring"

(***************************************************************************)
(* Nor does a report on the edge-triggered socket: if thread B is not      *)
(* reading it, an edge is undelivered or the read is one of the handlers   *)
(* still to be called, whatever arrives between the last recv and the next *)
(* epoll_wait.                                                             *)
(***************************************************************************)
NoReportSleeps ==
    wireIn # <<>> /\ bPc \notin {"read", "done", "dead"} =>
        edge \/ \E i \in DOMAIN todo : todo[i] = "read"

(***************************************************************************)
(* The program ends, whether or not SimEx is there and even if it stops    *)
(* half-way: join does not hang.                                           *)
(***************************************************************************)
Terminates == <>(aPc \in {"done", "dead"})

(***************************************************************************)
(* What the README says of the strategy: a single active order, i.e. at    *)
(* most one of the orders pushed is not yet completely filled.             *)
(***************************************************************************)
SingleActiveOrder ==
    Len(toOms) + Len(SelectSeq(orders, LAMBDA o : o.filled < o.qty)) <= 1

(***************************************************************************)
(* What the comment in run_thread_a says: exec updates are drained before  *)
(* strategy decisions are made.                                            *)
(***************************************************************************)
DecidesOnCurrentPosition ==
    [][DecideClose \/ DecideEntry => pending = <<>>]_vars

==============================================================================
