------------------------------- MODULE Pipeline -------------------------------
(***************************************************************************)
(* frame_work: a feed (FeedHandler or BinanceDepthConnector), strategy     *)
(* shards, OMS with risk check and trade IO, one thread each, joined by    *)
(* single-producer/single-consumer queues that drop what they cannot take, *)
(* and stopped by one flag.                                                *)
(*                                                                         *)
(* The queues are sequences with atomic pushes and pops (SpscRing); a pop  *)
(* may find nothing in one that is not empty, when the consumer still sees *)
(* an old head_, and a push may be refused by one that is not full.        *)
(* An event keeps its symbol, sequence number and size, and no prices.     *)
(* So are the log lines: no stage reads a log queue or looks at what its   *)
(* push returns, so a line changes nothing here; Logging models them.      *)
(***************************************************************************)
EXTENDS Integers, Sequences, FiniteSets, SequencesExt

CONSTANTS
    SymbolList,    \* symbols in the order of FeedHandler::symbols_
    ShardList,     \* the shards, in the order in which the OMS polls them
    Slots,         \* items a queue holds: CapacityPow2 - 1
    Feeds,         \* the feeds main may be told to start
    FeedSize,      \* size of every FeedHandler event, in tenths
    Sizes,         \* sizes the exchange may publish, in tenths
    RiskLimit,     \* largest quantity risk_passes accepts, in fiftieths
    Rounds,        \* bound on the rounds of FeedHandler
    MaxSeq         \* bound on the sequence numbers, and on update ids

Symbols == Range(SymbolList)
Shards  == Range(ShardList)

None == [sym |-> "none", seq |-> 0, size |-> 0]

ASSUME PipelineAssumption ==
    /\ SymbolList \in Seq(Symbols) /\ SymbolList # <<>>
    /\ IsInjective(SymbolList) /\ None.sym \notin Symbols
    /\ ShardList \in Seq(Shards) /\ ShardList # <<>>
    /\ Slots \in Nat \ {0}
    /\ Feeds \subseteq {"synthetic", "binance"} /\ FeedSize \in Nat /\ Sizes \subseteq Nat
    /\ RiskLimit \in Nat /\ MaxSeq \in Nat /\ Rounds \in 0..MaxSeq

VARIABLES
    feed,          \* use_binance: the feed that was started
    shardOf,       \* the shard a symbol's events go to
    running,       \* the flag main clears
    feedPc, feedAt, seq,          \* feed: place, next symbol, last numbers
    market,        \* queues feed to shards
    stratPc, stratHeld,           \* shards: place, event popped
    decisions,     \* queues shards to OMS
    omsPc, omsAt, omsHeld,        \* OMS: place, input polled, decision popped
    orderQ,        \* queue OMS to trade IO
    tradePc,       \* trade IO: place
    fate           \* history: see below

(***************************************************************************)
(* History, per symbol: events made by the feed, events sent to the        *)
(* exchange, events dropped by a full queue or rejected by risk, and the   *)
(* last number sent.                                                       *)
(***************************************************************************)
config    == <<feed, shardOf>>
feedVars  == <<feedPc, feedAt, seq>>
stratVars == <<stratPc, stratHeld>>
omsVars   == <<omsPc, omsAt, omsHeld>>
queueVars == <<market, decisions, orderQ>>
vars == <<config, running, feedVars, stratVars, omsVars, queueVars, tradePc, fate>>

Room(q) == Len(q) < Slots

(* A push refuses an item if the queue is full as the producer sees it,    *)
(* with a tail_ that may be old; but Slots items must have gone in before, *)
(* so at least as many events have been made.                              *)
MayLookFull == FoldFunction(+, 0, fate.made) >= Slots

(* Fault: events go to the shards in turn instead of by symbol. *)
RouteFault(sym) == ShardList[(fate.made[sym] % Len(ShardList)) + 1]

Route(sym) == shardOf[sym]

------------------------------------------------------------------------------
(* shard_for_symbol hashes: any function.  The connector is wired to the   *)
(* first shard.                                                            *)
Init ==
    /\ feed \in Feeds
    /\ shardOf \in IF feed = "binance" THEN {[s \in Symbols |-> ShardList[1]]}
                                      ELSE [Symbols -> Shards]
    /\ running = TRUE
    /\ feedPc = (IF feed = "binance" THEN "connect" ELSE "check") /\ feedAt = 1
    /\ seq = [s \in Symbols |-> 0]
    /\ market = [s \in Shards |-> <<>>]
    /\ stratPc = [s \in Shards |-> "check"]
    /\ stratHeld = [s \in Shards |-> None]
    /\ decisions = [s \in Shards |-> <<>>]
    /\ omsPc = "check" /\ omsAt = 1 /\ omsHeld = None
    /\ orderQ = <<>>
    /\ tradePc = "check"
    /\ fate = [made |-> [s \in Symbols |-> 0],
               sent |-> [s \in Symbols |-> 0],
               lost |-> [s \in Symbols |-> 0],
               last |-> [s \in Symbols |-> 0]]

Lost(sym) == [fate EXCEPT !.lost[sym] = @ + 1]

(* The feed thread pushes an event, or drops it; either way it goes on.    *)
Publish(sym, n, size) ==
    LET q == Route(sym)
        made == [fate EXCEPT !.made[sym] = @ + 1]
    IN  /\ seq' = [seq EXCEPT ![sym] = n]
        /\ \/ /\ Room(market[q])
              /\ market' = [market EXCEPT ![q] =
                    Append(@, [sym |-> sym, seq |-> n, size |-> size])]
              /\ fate' = made
           \/ /\ MayLookFull
              /\ fate' = [made EXCEPT !.lost[sym] = @ + 1]
              /\ UNCHANGED market

------------------------------------------------------------------------------
(* FeedHandler::run *)

FeedCheck ==
    /\ feed = "synthetic" /\ feedPc = "check"
    /\ IF running
       THEN /\ \A s \in Symbols : seq[s] < Rounds
            /\ feedPc' = "push"
       ELSE feedPc' = "done"
    /\ feedAt' = 1
    /\ UNCHANGED <<config, running, seq, stratVars, omsVars, queueVars, tradePc, fate>>

NextSymbol ==
    IF feedAt < Len(SymbolList)
    THEN feedAt' = feedAt + 1 /\ feedPc' = "push"
    ELSE feedAt' = 1 /\ feedPc' = "check"

(* The next symbol's event of this round; its number counts the rounds. *)
FeedPush ==
    /\ feed = "synthetic" /\ feedPc = "push"
    /\ LET sym == SymbolList[feedAt]
       IN  Publish(sym, seq[sym] + 1, FeedSize)
    /\ NextSymbol
    /\ UNCHANGED <<config, running, stratVars, omsVars, decisions, orderQ, tradePc>>

------------------------------------------------------------------------------
(***************************************************************************)
(* BinanceDepthConnector::run, for the one symbol it is given.  The        *)
(* exchange is external: what ws.read brings is a message that yields no   *)
(* event (it does not parse, or leaves a side of the book empty) or one    *)
(* whose best levels have any size and a later update id.  A connection    *)
(* that fails, then or before, ends the thread with an exception.  The     *)
(* close on the way out waits for the exchange too.                        *)
(***************************************************************************)
BinanceConnect ==
    /\ feedPc = "connect"
    /\ feedPc' = "check"
    /\ UNCHANGED <<config, running, feedAt, seq, stratVars, omsVars, queueVars, tradePc, fate>>

BinanceCheck ==
    /\ feed = "binance" /\ feedPc = "check"
    /\ feedPc' = IF running THEN "read" ELSE "close"
    /\ UNCHANGED <<config, running, feedAt, seq, stratVars, omsVars, queueVars, tradePc, fate>>

BinanceNoEvent ==
    /\ feedPc = "read"
    /\ feedPc' = "check"
    /\ UNCHANGED <<config, running, feedAt, seq, stratVars, omsVars, queueVars, tradePc, fate>>

BinanceEvent ==
    /\ feedPc = "read"
    /\ LET sym == SymbolList[1]
       IN  \E n \in seq[sym] + 1..MaxSeq, size \in Sizes : Publish(sym, n, size)
    /\ feedPc' = "check"
    /\ UNCHANGED <<config, running, feedAt, stratVars, omsVars, decisions, orderQ, tradePc>>

BinanceError ==
    /\ feedPc \in {"connect", "read"}
    /\ feedPc' = "done"
    /\ UNCHANGED <<config, running, feedAt, seq, stratVars, omsVars, queueVars, tradePc, fate>>

(* ws.close: the error it may meet is not looked at. *)
BinanceClose ==
    /\ feedPc = "close"
    /\ feedPc' = "done"
    /\ UNCHANGED <<config, running, feedAt, seq, stratVars, omsVars, queueVars, tradePc, fate>>

Exchange == BinanceConnect \/ BinanceNoEvent \/ BinanceEvent \/ BinanceError \/ BinanceClose

Feed ==
    \/ FeedCheck \/ FeedPush
    \/ BinanceCheck \/ Exchange

------------------------------------------------------------------------------
(* StrategyShard::run of shard s *)

StratGoes(s, pc) == stratPc' = [stratPc EXCEPT ![s] = pc]

StratCheck(s) ==
    /\ stratPc[s] = "check"
    /\ StratGoes(s, IF running THEN "pop" ELSE "done")
    /\ UNCHANGED <<config, running, feedVars, stratHeld, omsVars, queueVars, tradePc, fate>>

(* Fault: the shard keeps only the newest event of its queue. *)
StratPopFault(s) ==
    /\ stratPc[s] = "pop" /\ market[s] # <<>>
    /\ stratHeld' = [stratHeld EXCEPT ![s] = Last(market[s])]
    /\ market' = [market EXCEPT ![s] = <<>>]
    /\ StratGoes(s, "push")
    /\ UNCHANGED <<config, running, feedVars, omsVars, decisions, orderQ, tradePc, fate>>

StratPop(s) ==
    /\ stratPc[s] = "pop" /\ market[s] # <<>>
    /\ stratHeld' = [stratHeld EXCEPT ![s] = Head(market[s])]
    /\ market' = [market EXCEPT ![s] = Tail(@)]
    /\ StratGoes(s, "push")
    /\ UNCHANGED <<config, running, feedVars, omsVars, decisions, orderQ, tradePc, fate>>

StratIdle(s) ==
    /\ stratPc[s] = "pop"
    /\ StratGoes(s, "check")
    /\ UNCHANGED <<config, running, feedVars, stratHeld, omsVars, queueVars, tradePc, fate>>

(* Fault: the shard waits for room instead of dropping. *)
StratPushFault(s) ==
    /\ Room(decisions[s])
    /\ stratPc[s] = "push"
    /\ decisions' = [decisions EXCEPT ![s] = Append(@, stratHeld[s])]
    /\ stratHeld' = [stratHeld EXCEPT ![s] = None]
    /\ StratGoes(s, "check")
    /\ UNCHANGED <<config, running, feedVars, omsVars, market, orderQ, tradePc, fate>>

(* The decision carries the event's number and four fifths of its size:    *)
(* the size in tenths, times four, is the quantity in fiftieths.           *)
StratPush(s) ==
    /\ stratPc[s] = "push"
    /\ LET evt == stratHeld[s]
       IN  \/ /\ Room(decisions[s])
              /\ decisions' = [decisions EXCEPT ![s] =
                    Append(@, [evt EXCEPT !.size = @ * 4])]
              /\ UNCHANGED fate
           \/ /\ MayLookFull
              /\ fate' = Lost(evt.sym)
              /\ UNCHANGED decisions
    /\ stratHeld' = [stratHeld EXCEPT ![s] = None]
    /\ StratGoes(s, "check")
    /\ UNCHANGED <<config, running, feedVars, omsVars, market, orderQ, tradePc>>

Strat(s) == StratCheck(s) \/ StratPop(s) \/ StratIdle(s) \/ StratPush(s)

------------------------------------------------------------------------------
(* OmsRisk::run: the inputs are polled in turn, one item each per round.   *)

OmsCheck ==
    /\ omsPc = "check"
    /\ omsPc' = IF running THEN "pop" ELSE "done"
    /\ omsAt' = 1
    /\ UNCHANGED <<config, running, feedVars, stratVars, omsHeld, queueVars, tradePc, fate>>

NextInput ==
    IF omsAt < Len(ShardList)
    THEN omsAt' = omsAt + 1 /\ omsPc' = "pop"
    ELSE omsAt' = 1 /\ omsPc' = "check"

OmsPop ==
    /\ omsPc = "pop"
    /\ LET q == ShardList[omsAt]
       IN  \/ /\ decisions[q] # <<>>
              /\ omsHeld' = Head(decisions[q])
              /\ decisions' = [decisions EXCEPT ![q] = Tail(@)]
              /\ omsPc' = "push"
              /\ UNCHANGED omsAt
           \/ NextInput /\ UNCHANGED <<omsHeld, decisions>>
    /\ UNCHANGED <<config, running, feedVars, stratVars, market, orderQ, tradePc, fate>>

RiskPasses(d) == d.size <= RiskLimit

(* An order that passes is queued; rejected or dropped it is only logged. *)
OmsPush ==
    /\ omsPc = "push"
    /\ \/ /\ RiskPasses(omsHeld) /\ Room(orderQ)
          /\ orderQ' = Append(orderQ, omsHeld) /\ UNCHANGED fate
       \/ /\ RiskPasses(omsHeld) => MayLookFull
          /\ fate' = Lost(omsHeld.sym) /\ UNCHANGED orderQ
    /\ omsHeld' = None
    /\ NextInput
    /\ UNCHANGED <<config, running, feedVars, stratVars, market, decisions, tradePc>>

Oms == OmsCheck \/ OmsPop \/ OmsPush

------------------------------------------------------------------------------
(* TradeIo::run: sending an order is writing a line to the log. *)

TradeCheck ==
    /\ tradePc = "check"
    /\ tradePc' = IF running THEN "pop" ELSE "done"
    /\ UNCHANGED <<config, running, feedVars, stratVars, omsVars, queueVars, fate>>

TradePop ==
    /\ tradePc = "pop" /\ orderQ # <<>>
    /\ LET cmd == Head(orderQ)
       IN  fate' = [fate EXCEPT !.sent[cmd.sym] = @ + 1, !.last[cmd.sym] = cmd.seq]
    /\ orderQ' = Tail(orderQ)
    /\ tradePc' = "check"
    /\ UNCHANGED <<config, running, feedVars, stratVars, omsVars, market, decisions>>

TradeIdle ==
    /\ tradePc = "pop"
    /\ tradePc' = "check"
    /\ UNCHANGED <<config, running, feedVars, stratVars, omsVars, queueVars, fate>>

Trade == TradeCheck \/ TradePop \/ TradeIdle

------------------------------------------------------------------------------
(* main: after two seconds the flag is cleared, then the threads joined. *)
Stop ==
    /\ running
    /\ running' = FALSE
    /\ UNCHANGED <<config, feedVars, stratVars, omsVars, queueVars, tradePc, fate>>

AllDone ==
    /\ feedPc = "done" /\ omsPc = "done" /\ tradePc = "done"
    /\ \A s \in Shards : stratPc[s] = "done"

Exit == AllDone /\ UNCHANGED vars

Next ==
    \/ Feed \/ (\E s \in Shards : Strat(s)) \/ Oms \/ Trade
    \/ Stop \/ Exit

Spec == Init /\ [][Next]_vars

(***************************************************************************)
(* The operating system runs every thread.  A connector that waits for the *)
(* exchange goes on only if the exchange sends something or the connection *)
(* fails: nothing in the code bounds that wait, and only the second        *)
(* specification assumes it.                                               *)
(***************************************************************************)
FairSpec ==
    /\ Spec
    /\ WF_vars(FeedCheck \/ FeedPush \/ BinanceCheck)
    /\ WF_vars(Oms) /\ WF_vars(Trade) /\ WF_vars(Stop)
    /\ \A s \in Shards : WF_vars(Strat(s))

LiveExchangeSpec == FairSpec /\ WF_vars(Exchange)

------------------------------------------------------------------------------
(***************************************************************************)
(* Types of the queues, places and counters.                               *)
(***************************************************************************)
Events == [sym : Symbols, seq : 1..MaxSeq, size : Nat]

ThreadsOK ==
    /\ feed \in Feeds /\ shardOf \in [Symbols -> Shards]
    /\ running \in BOOLEAN
    /\ feedPc \in {"connect", "check", "push", "read", "close", "done"}
    /\ feedAt \in 1..Len(SymbolList)
    /\ seq \in [Symbols -> 0..MaxSeq]
    /\ stratPc \in [Shards -> {"check", "pop", "push", "done"}]
    /\ stratHeld \in [Shards -> Events \cup {None}]
    /\ omsPc \in {"check", "pop", "push", "done"}
    /\ omsAt \in 1..Len(ShardList)
    /\ omsHeld \in Events \cup {None}
    /\ tradePc \in {"check", "pop", "done"}

QueuesOK ==
    /\ market \in [Shards -> Seq(Events)]
    /\ decisions \in [Shards -> Seq(Events)]
    /\ \A s \in Shards : Len(market[s]) <= Slots /\ Len(decisions[s]) <= Slots
    /\ orderQ \in Seq(Events) /\ Len(orderQ) <= Slots

Counters(bound) ==
    [made : [Symbols -> bound], sent : [Symbols -> bound],
     lost : [Symbols -> bound], last : [Symbols -> bound]]

TypeOK == ThreadsOK /\ QueuesOK /\ fate \in Counters(0..MaxSeq)

(***************************************************************************)
(* Where the events a shard gets are on their way to the exchange, the     *)
(* oldest first, ending with the shard's market queue; orders of other     *)
(* shards may be among them once they are with the OMS.                    *)
(***************************************************************************)
Hand(e) == IF e = None THEN <<>> ELSE <<e>>

Path(s) ==
    orderQ \o Hand(omsHeld) \o decisions[s] \o Hand(stratHeld[s]) \o market[s]

(***************************************************************************)
(* Through shards, round-robin polling and drops, the orders of a symbol   *)
(* reach the exchange in the order of the market events they answer, and   *)
(* none is sent twice: on the way the numbers only grow, from the last one *)
(* sent to the last one published.                                         *)
(***************************************************************************)
SymbolOrderKept ==
    \A s \in Shards :
        LET p == Path(s)
        IN  /\ \A i \in DOMAIN p :
                  fate.last[p[i].sym] < p[i].seq /\ p[i].seq <= seq[p[i].sym]
            /\ \A i, j \in DOMAIN p :
                  i < j /\ p[i].sym = p[j].sym => p[i].seq < p[j].seq

(***************************************************************************)
(* Every event made is in exactly one place: sent, lost at a full queue    *)
(* or to the risk check, in a queue that is within its capacity or in a    *)
(* thread's hands.  After the end too: what the stopped threads left in    *)
(* the queues is still there.                                              *)
(***************************************************************************)
Count(sym, q) == Cardinality({i \in DOMAIN q : q[i].sym = sym})

NothingVanishes ==
    /\ TypeOK
    /\ \A sym \in Symbols :
          fate.made[sym] = fate.sent[sym] + fate.lost[sym] + Count(sym, Path(Route(sym)))

(***************************************************************************)
(* Once the flag is cleared every join returns, whatever the queues hold.  *)
(***************************************************************************)
Terminates == <>AllDone

==============================================================================
