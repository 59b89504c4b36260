--------------------------- MODULE Pipeline_proofs ---------------------------
(***************************************************************************)
(* For any number of symbols and shards, any routing, queue length, risk   *)
(* limit and sizes: the pipeline loses track of no event, and the orders   *)
(* of a symbol stay in the order of their events.                          *)
(***************************************************************************)
EXTENDS Pipeline, TLAPS, FiniteSetTheorems, SequenceTheorems

(* Taking the head of a sequence and adding at its end. *)
LEMMA TakeHead ==
    ASSUME NEW S, NEW q \in Seq(S), q # <<>>
    PROVE  /\ Head(q) \in S /\ Tail(q) \in Seq(S) /\ Len(q) > 0 /\ Head(q) = q[1]
           /\ Len(q) \in Nat /\ Len(Tail(q)) = Len(q) - 1
  BY HeadTailProperties, LenProperties, EmptySeq

LEMMA AddLast ==
    ASSUME NEW S, NEW q \in Seq(S), NEW e \in S
    PROVE  /\ Append(q, e) \in Seq(S) /\ Len(Append(q, e)) = Len(q) + 1
           /\ Len(q) \in Nat
  BY AppendProperties, LenProperties

LEMMA EmptyIsSeq ==
    ASSUME NEW S PROVE <<>> \in Seq(S) /\ Len(<<>>) = 0
  BY EmptySeq

(* The symbols and shards of the two lists. *)
LEMMA ListFacts ==
    /\ Len(SymbolList) \in Nat \ {0} /\ Len(ShardList) \in Nat \ {0}
    /\ \A i \in 1..Len(SymbolList) : SymbolList[i] \in Symbols
    /\ \A i \in 1..Len(ShardList) : ShardList[i] \in Shards
    /\ \A i, j \in 1..Len(SymbolList) : SymbolList[i] = SymbolList[j] => i = j
  <1>1. /\ SymbolList \in Seq(Symbols) /\ SymbolList # <<>>
        /\ ShardList \in Seq(Shards) /\ ShardList # <<>>
        /\ \A i, j \in DOMAIN SymbolList : SymbolList[i] = SymbolList[j] => i = j
    BY PipelineAssumption DEF IsInjective
  <1>2. /\ Len(SymbolList) \in Nat \ {0} /\ Len(ShardList) \in Nat \ {0}
        /\ DOMAIN SymbolList = 1..Len(SymbolList)
    BY <1>1, TakeHead, LenProperties
  <1>3. /\ \A i \in 1..Len(SymbolList) : SymbolList[i] \in Symbols
        /\ \A i \in 1..Len(ShardList) : ShardList[i] \in Shards
    BY <1>1, ElementOfSeq
  <1> QED BY <1>1, <1>2, <1>3

LEMMA NoneIsNoEvent == None \notin Events /\ \A e \in Events : e # None
  BY PipelineAssumption DEF Events

------------------------------------------------------------------------------
(***************************************************************************)
(* Steps.  Most move no event; the others are one of six.                  *)
(***************************************************************************)
Still == UNCHANGED <<shardOf, queueVars, stratHeld, omsHeld, seq, fate>>

(* A feed publishes an event. *)
Publishes(sym, n, size) ==
    /\ Publish(sym, n, size)
    /\ UNCHANGED <<shardOf, stratHeld, omsHeld, decisions, orderQ>>

OmsTakes ==
    /\ OmsPop
    /\ decisions[ShardList[omsAt]] # <<>> /\ omsPc' = "push"

PublishStep ==
    \E sym \in Symbols, n \in 1..MaxSeq, size \in Nat :
        seq[sym] < n /\ Publishes(sym, n, size)

(* A thread holds an event between its pop and its push, and only then;    *)
(* in a round of FeedHandler the symbols still to come are one number      *)
(* behind.                                                                 *)
HandsFull ==
    /\ \A s \in Shards : stratPc[s] = "push" <=> stratHeld[s] # None
    /\ omsPc = "push" <=> omsHeld # None

PushesLeft ==
    feedPc = "push" =>
        \A i \in feedAt..Len(SymbolList) : seq[SymbolList[i]] < Rounds

PipeType ==
    ThreadsOK /\ QueuesOK /\ fate \in Counters(Nat) /\ HandsFull /\ PushesLeft

LEMMA StepKinds ==
    ASSUME PipeType, [Next]_vars
    PROVE  \/ Still
           \/ PublishStep
           \/ \E s \in Shards : StratPop(s)
           \/ \E s \in Shards : StratPush(s)
           \/ OmsTakes \/ OmsPush \/ TradePop
  <1> USE DEF Still, config, feedVars, stratVars, omsVars, queueVars
  <1>1. CASE FeedCheck \/ BinanceConnect \/ BinanceCheck \/ BinanceNoEvent \/ BinanceError \/ BinanceClose
    BY <1>1 DEF FeedCheck, BinanceConnect, BinanceCheck, BinanceNoEvent, BinanceError, BinanceClose
  <1>2. CASE FeedPush
    <2> DEFINE sym == SymbolList[feedAt]
    <2>1. sym \in Symbols /\ feedAt \in 1..Len(SymbolList)
      BY ListFacts DEF PipeType, ThreadsOK
    <2>2. seq[sym] < Rounds /\ seq[sym] \in 0..MaxSeq /\ Rounds \in 0..MaxSeq /\ MaxSeq \in Nat
      <3>1. feedAt \in feedAt..Len(SymbolList)
        BY <2>1, ListFacts
      <3> QED BY <1>2, <2>1, <3>1, PipelineAssumption DEF FeedPush, PipeType, PushesLeft, ThreadsOK
    <2>3. seq[sym] + 1 \in 1..MaxSeq /\ seq[sym] < seq[sym] + 1 /\ FeedSize \in Nat
      BY <2>2, PipelineAssumption
    <2>4. Publishes(sym, seq[sym] + 1, FeedSize)
      BY <1>2 DEF FeedPush, Publishes
    <2> QED BY <2>1, <2>3, <2>4 DEF PublishStep
  <1>3. CASE BinanceEvent
    <2> DEFINE sym == SymbolList[1]
    <2>1. PICK n \in seq[sym] + 1..MaxSeq, size \in Sizes : Publish(sym, n, size)
      BY <1>3 DEF BinanceEvent
    <2>2. sym \in Symbols
      BY ListFacts
    <2>3. seq[sym] \in 0..MaxSeq
      BY <2>2 DEF PipeType, ThreadsOK
    <2>4. n \in 1..MaxSeq /\ seq[sym] < n /\ size \in Nat
      BY <2>1, <2>3, PipelineAssumption
    <2>5. Publishes(sym, n, size)
      BY <1>3, <2>1 DEF BinanceEvent, Publishes
    <2> QED BY <2>2, <2>4, <2>5 DEF PublishStep
  <1>4. ASSUME NEW s \in Shards, Strat(s)
        PROVE  Still \/ StratPop(s) \/ StratPush(s)
    BY <1>4 DEF Strat, StratCheck, StratIdle
  <1>5. CASE OmsCheck
    BY <1>5 DEF OmsCheck
  <1>6. CASE OmsPop
    BY <1>6 DEF OmsPop, OmsTakes
  <1>7. CASE TradeCheck \/ TradeIdle \/ Stop \/ Exit \/ UNCHANGED vars
    BY <1>7 DEF TradeCheck, TradeIdle, Stop, Exit, vars
  <1> QED
    BY <1>1, <1>2, <1>3, <1>4, <1>5, <1>6, <1>7 DEF Next, Feed, Exchange, Oms, Trade

(***************************************************************************)
(* The type invariant.                                                     *)
(***************************************************************************)
LEMMA TypeAtInit == Init => PipeType
  <1> SUFFICES ASSUME Init PROVE PipeType
    OBVIOUS
  <1>1. ThreadsOK
    <2>1. shardOf \in [Symbols -> Shards]
      <3>1. ShardList[1] \in Shards
        BY ListFacts
      <3> QED BY <3>1 DEF Init
    <2>2. feedAt \in 1..Len(SymbolList) /\ omsAt \in 1..Len(ShardList)
      BY ListFacts DEF Init
    <2>3. seq \in [Symbols -> 0..MaxSeq]
      BY PipelineAssumption DEF Init
    <2> QED BY <2>1, <2>2, <2>3 DEF Init, ThreadsOK
  <1>2. QueuesOK
    <2>1. <<>> \in Seq(Events) /\ Len(<<>>) <= Slots
      BY EmptyIsSeq, PipelineAssumption
    <2> QED BY <2>1 DEF Init, QueuesOK
  <1>3. fate \in Counters(Nat)
    BY DEF Init, Counters
  <1>4. HandsFull /\ PushesLeft
    BY DEF Init, HandsFull, PushesLeft
  <1> QED BY <1>1, <1>2, <1>3, <1>4 DEF PipeType

(* The three ways the history of the events grows. *)
LEMMA FateMade ==
    ASSUME NEW f \in Counters(Nat), NEW sym \in Symbols,
           NEW g, g = [f EXCEPT !.made[sym] = @ + 1]
    PROVE  /\ g \in Counters(Nat)
           /\ g.made = [f.made EXCEPT ![sym] = @ + 1]
           /\ g.sent = f.sent /\ g.lost = f.lost /\ g.last = f.last
  BY DEF Counters

LEMMA FateLost ==
    ASSUME NEW f \in Counters(Nat), NEW sym \in Symbols,
           NEW g, g = [f EXCEPT !.lost[sym] = @ + 1]
    PROVE  /\ g \in Counters(Nat)
           /\ g.lost = [f.lost EXCEPT ![sym] = @ + 1]
           /\ g.sent = f.sent /\ g.made = f.made /\ g.last = f.last
  BY DEF Counters

LEMMA FateSent ==
    ASSUME NEW f \in Counters(Nat), NEW sym \in Symbols,
           NEW g, g = [f EXCEPT !.sent[sym] = @ + 1]
    PROVE  /\ g \in Counters(Nat)
           /\ g.sent = [f.sent EXCEPT ![sym] = @ + 1]
           /\ g.made = f.made /\ g.lost = f.lost /\ g.last = f.last
  BY DEF Counters

LEMMA FateLast ==
    ASSUME NEW f \in Counters(Nat), NEW sym \in Symbols, NEW n \in Nat,
           NEW g, g = [f EXCEPT !.last[sym] = n]
    PROVE  /\ g \in Counters(Nat)
           /\ g.last = [f.last EXCEPT ![sym] = n]
           /\ g.made = f.made /\ g.lost = f.lost /\ g.sent = f.sent
  BY DEF Counters

(* What a publication does to the numbers, the queues and the counters. *)
LEMMA PublishTypes ==
    ASSUME seq \in [Symbols -> 0..MaxSeq], shardOf \in [Symbols -> Shards],
           QueuesOK, fate \in Counters(Nat),
           NEW sym \in Symbols, NEW n \in 1..MaxSeq, NEW size \in Nat,
           Publish(sym, n, size), UNCHANGED <<decisions, orderQ>>
    PROVE  /\ seq' \in [Symbols -> 0..MaxSeq]
           /\ QueuesOK'
           /\ fate' \in Counters(Nat)
  <1> DEFINE q == Route(sym)
             e == [sym |-> sym, seq |-> n, size |-> size]
  <1>1. q \in Shards /\ e \in Events
    BY DEF Route, Events
  <1>2. n \in 0..MaxSeq
    OBVIOUS
  <1>3. seq' \in [Symbols -> 0..MaxSeq]
    BY <1>2 DEF Publish
  <1>4. fate' \in Counters(Nat)
    <2>1. PICK made : made = [fate EXCEPT !.made[sym] = @ + 1]
      OBVIOUS
    <2>2. fate' = made \/ fate' = [made EXCEPT !.lost[sym] = @ + 1]
      BY <2>1 DEF Publish
    <2>3. made \in Counters(Nat)
      BY <2>1, FateMade
    <2> QED BY <2>2, <2>3, FateLost
  <1>5. QueuesOK'
    <2>1. CASE Room(market[q]) /\ market' = [market EXCEPT ![q] = Append(@, e)]
      <3>1. market' = [market EXCEPT ![q] = Append(@, e)]
        BY <2>1
      <3>2. market[q] \in Seq(Events) /\ market \in [Shards -> Seq(Events)]
        BY <1>1 DEF QueuesOK
      <3>3. Append(market[q], e) \in Seq(Events) /\ Len(Append(market[q], e)) <= Slots
        BY <1>1, <2>1, <3>2, AddLast, PipelineAssumption DEF Room
      <3> HIDE DEF q, e
      <3>4. market' \in [Shards -> Seq(Events)] /\ \A s \in Shards : Len(market'[s]) <= Slots
        BY <3>1, <3>2, <3>3, <1>1 DEF QueuesOK
      <3> QED BY <3>4 DEF QueuesOK
    <2>2. CASE UNCHANGED market
      BY <2>2 DEF QueuesOK
    <2> QED BY <2>1, <2>2 DEF Publish
  <1> QED BY <1>3, <1>4, <1>5

LEMMA FeedPushTypes ==
    ASSUME PipeType, FeedPush PROVE PipeType'
  <1> USE DEF config, feedVars, stratVars, omsVars, queueVars
  <1> DEFINE sym == SymbolList[feedAt]
             last == Len(SymbolList)
  <1>1. ThreadsOK /\ QueuesOK /\ fate \in Counters(Nat)
    BY DEF PipeType
  <1>2. /\ feedAt \in 1..last /\ last \in Nat \ {0} /\ sym \in Symbols
        /\ seq \in [Symbols -> 0..MaxSeq] /\ shardOf \in [Symbols -> Shards]
    BY <1>1, ListFacts DEF ThreadsOK
  <1>3. seq[sym] < Rounds
    <2>1. feedAt \in feedAt..last
      BY <1>2
    <2> QED BY <2>1 DEF FeedPush, PipeType, PushesLeft
  <1>4. seq[sym] + 1 \in 1..MaxSeq /\ FeedSize \in Nat
    BY <1>2, <1>3, PipelineAssumption
  <1>5. PICK n \in 1..MaxSeq : n = seq[sym] + 1
    BY <1>4
  <1>6. PICK size \in Nat : size = FeedSize
    BY <1>4
  <1>7. Publish(sym, n, size) /\ UNCHANGED <<decisions, orderQ>>
    BY <1>5, <1>6 DEF FeedPush
  <1>8. seq' \in [Symbols -> 0..MaxSeq] /\ QueuesOK' /\ fate' \in Counters(Nat)
    BY <1>1, <1>2, <1>7, PublishTypes
  <1>9. ThreadsOK'
    <2>1. feedAt' \in 1..last /\ feedPc' \in {"push", "check"}
      BY <1>2 DEF FeedPush, NextSymbol
    <2> QED BY <1>1, <1>8, <2>1 DEF FeedPush, ThreadsOK
  <1>10. PushesLeft'
    <2>1. SUFFICES ASSUME feedPc' = "push", NEW i \in feedAt'..last
                   PROVE  seq'[SymbolList[i]] < Rounds
      BY DEF PushesLeft
    <2>2. feedAt' = feedAt + 1 /\ feedAt < last
      BY <2>1 DEF FeedPush, NextSymbol
    <2>3. i \in 1..last /\ i # feedAt /\ i \in feedAt..last
      BY <1>2, <2>2
    <2>4. SymbolList[i] # sym /\ SymbolList[i] \in Symbols
      BY <1>2, <2>3, ListFacts
    <2>5. seq' = [seq EXCEPT ![sym] = n]
      BY <1>7 DEF Publish
    <2>6. seq[SymbolList[i]] < Rounds
      BY <2>3 DEF PipeType, PushesLeft, FeedPush
    <2> QED BY <1>2, <2>4, <2>5, <2>6
  <1>11. HandsFull'
    BY DEF FeedPush, PipeType, HandsFull
  <1> QED BY <1>8, <1>9, <1>10, <1>11 DEF PipeType

LEMMA BinanceEventTypes ==
    ASSUME PipeType, BinanceEvent PROVE PipeType'
  <1> USE DEF config, feedVars, stratVars, omsVars, queueVars
  <1> DEFINE sym == SymbolList[1]
  <1>1. ThreadsOK /\ QueuesOK /\ fate \in Counters(Nat)
    BY DEF PipeType
  <1>2. PICK n \in seq[sym] + 1..MaxSeq, size \in Sizes : Publish(sym, n, size)
    BY DEF BinanceEvent
  <1>3. sym \in Symbols /\ seq[sym] \in 0..MaxSeq
    BY <1>1, ListFacts DEF ThreadsOK
  <1>4. n \in 1..MaxSeq /\ size \in Nat
    BY <1>2, <1>3, PipelineAssumption
  <1>5. UNCHANGED <<decisions, orderQ>>
    BY DEF BinanceEvent
  <1>6. seq \in [Symbols -> 0..MaxSeq] /\ shardOf \in [Symbols -> Shards]
    BY <1>1 DEF ThreadsOK
  <1>7. seq' \in [Symbols -> 0..MaxSeq] /\ QueuesOK' /\ fate' \in Counters(Nat)
    BY <1>1, <1>2, <1>3, <1>4, <1>5, <1>6, PublishTypes
  <1>8. ThreadsOK' /\ PushesLeft' /\ HandsFull'
    BY <1>1, <1>7 DEF BinanceEvent, ThreadsOK, PushesLeft, PipeType, HandsFull
  <1> QED BY <1>7, <1>8 DEF PipeType

LEMMA FeedTypes ==
    ASSUME PipeType, Feed PROVE PipeType'
  <1> USE DEF config, feedVars, stratVars, omsVars, queueVars
  <1>1. CASE FeedCheck
    <2>1. ThreadsOK'
      BY <1>1, ListFacts DEF FeedCheck, PipeType, ThreadsOK
    <2>2. PushesLeft'
      BY <1>1, ListFacts DEF FeedCheck, PushesLeft
    <2> QED BY <1>1, <2>1, <2>2 DEF FeedCheck, PipeType, QueuesOK, HandsFull
  <1>2. CASE BinanceConnect \/ BinanceCheck \/ BinanceNoEvent \/ BinanceError \/ BinanceClose
    <2>1. ThreadsOK' /\ PushesLeft'
      BY <1>2 DEF PipeType, ThreadsOK, PushesLeft,
                  BinanceConnect, BinanceCheck, BinanceNoEvent, BinanceError, BinanceClose
    <2>2. UNCHANGED <<queueVars, fate, stratVars, omsVars>>
      BY <1>2 DEF BinanceConnect, BinanceCheck, BinanceNoEvent, BinanceError, BinanceClose
    <2> QED BY <2>1, <2>2 DEF PipeType, QueuesOK, HandsFull
  <1> QED
    BY <1>1, <1>2, FeedPushTypes, BinanceEventTypes DEF Feed, Exchange

LEMMA StratTypes ==
    ASSUME PipeType, NEW s \in Shards, Strat(s) PROVE PipeType'
  <1> USE DEF config, feedVars, stratVars, omsVars, queueVars, StratGoes
  <1>1. /\ ThreadsOK /\ QueuesOK /\ fate \in Counters(Nat) /\ HandsFull
        /\ market \in [Shards -> Seq(Events)] /\ decisions \in [Shards -> Seq(Events)]
        /\ stratPc \in [Shards -> {"check", "pop", "push", "done"}]
        /\ stratHeld \in [Shards -> Events \cup {None}]
        /\ Len(market[s]) <= Slots /\ Len(decisions[s]) <= Slots
    BY DEF PipeType, ThreadsOK, QueuesOK
  <1>2. PushesLeft'
    BY DEF PipeType, PushesLeft, Strat, StratCheck, StratPop, StratIdle, StratPush
  <1>3. CASE StratCheck(s) \/ StratIdle(s)
    <2>1. ThreadsOK'
      BY <1>1, <1>3 DEF StratCheck, StratIdle, ThreadsOK
    <2>2. HandsFull'
      BY <1>1, <1>3 DEF StratCheck, StratIdle, HandsFull
    <2> QED BY <1>1, <1>2, <1>3, <2>1, <2>2 DEF StratCheck, StratIdle, QueuesOK, PipeType
  <1>4. CASE StratPop(s)
    <2>1. /\ Head(market[s]) \in Events /\ Tail(market[s]) \in Seq(Events)
          /\ Len(Tail(market[s])) <= Slots
      BY <1>1, <1>4, TakeHead, PipelineAssumption DEF StratPop
    <2>2. PICK h \in Events : h = Head(market[s])
      BY <2>1
    <2>3. PICK t \in Seq(Events) : t = Tail(market[s])
      BY <2>1
    <2>4. /\ stratHeld' = [stratHeld EXCEPT ![s] = h]
          /\ market' = [market EXCEPT ![s] = t]
          /\ stratPc' = [stratPc EXCEPT ![s] = "push"]
      BY <1>4, <2>2, <2>3 DEF StratPop
    <2>5. ThreadsOK'
      BY <1>1, <1>4, <2>4 DEF StratPop, ThreadsOK
    <2>6. QueuesOK'
      BY <1>1, <1>4, <2>1, <2>3, <2>4 DEF StratPop, QueuesOK
    <2>7. h # None
      BY NoneIsNoEvent
    <2>8. HandsFull'
      BY <1>1, <1>4, <2>4, <2>7 DEF StratPop, HandsFull
    <2> QED BY <1>1, <1>2, <1>4, <2>5, <2>6, <2>8 DEF StratPop, PipeType
  <1>5. CASE StratPush(s)
    <2>1. PICK evt : evt = stratHeld[s]
      OBVIOUS
    <2>2. evt \in Events
      BY <1>1, <1>5, <2>1 DEF StratPush, HandsFull
    <2>3. PICK d : d = [evt EXCEPT !.size = @ * 4]
      OBVIOUS
    <2>4. d \in Events
      BY <2>2, <2>3 DEF Events
    <2>5. ThreadsOK'
      BY <1>1, <1>5 DEF StratPush, ThreadsOK
    <2>6. HandsFull'
      BY <1>1, <1>5 DEF StratPush, HandsFull
    <2>7. QueuesOK' /\ fate' \in Counters(Nat)
      <3>1. CASE /\ Room(decisions[s]) /\ UNCHANGED fate
                 /\ decisions' = [decisions EXCEPT ![s] = Append(@, d)]
        <4>1. decisions' = [decisions EXCEPT ![s] = Append(@, d)] /\ UNCHANGED <<market, orderQ, fate>>
          BY <1>5, <3>1 DEF StratPush
        <4>2. Append(decisions[s], d) \in Seq(Events) /\ Len(Append(decisions[s], d)) <= Slots
          BY <1>1, <2>4, <3>1, AddLast, PipelineAssumption DEF Room
        <4> QED BY <1>1, <4>1, <4>2 DEF QueuesOK
      <3>2. CASE fate' = Lost(evt.sym) /\ UNCHANGED decisions
        <4>1. fate' = [fate EXCEPT !.lost[evt.sym] = @ + 1] /\ UNCHANGED queueVars
          BY <1>5, <3>2 DEF StratPush, Lost
        <4>2. evt.sym \in Symbols
          BY <2>2 DEF Events
        <4> QED BY <1>1, <4>1, <4>2, FateLost DEF QueuesOK
      <3> QED BY <1>5, <2>1, <2>3, <3>1, <3>2 DEF StratPush
    <2> QED BY <1>2, <2>5, <2>6, <2>7 DEF PipeType
  <1> QED BY <1>3, <1>4, <1>5 DEF Strat

LEMMA OmsTypes ==
    ASSUME PipeType, Oms PROVE PipeType'
  <1> USE DEF config, feedVars, stratVars, omsVars, queueVars
  <1>1. /\ ThreadsOK /\ QueuesOK /\ fate \in Counters(Nat) /\ HandsFull
        /\ omsAt \in 1..Len(ShardList) /\ Len(ShardList) \in Nat \ {0}
    BY ListFacts DEF PipeType, ThreadsOK
  <1>2. PushesLeft'
    BY DEF PipeType, PushesLeft, Oms, OmsCheck, OmsPop, OmsPush
  <1>3. NextInput => omsAt' \in 1..Len(ShardList) /\ omsPc' \in {"pop", "check"}
    BY <1>1 DEF NextInput
  <1>4. CASE OmsCheck
    <2>1. ThreadsOK'
      BY <1>1, <1>4 DEF OmsCheck, ThreadsOK
    <2> QED BY <1>1, <1>2, <1>4, <2>1 DEF OmsCheck, HandsFull, QueuesOK, PipeType
  <1>5. CASE OmsPop
    <2>1. PICK q \in Shards : q = ShardList[omsAt]
      BY <1>1, ListFacts
    <2>2. CASE OmsTakes
      <3>1. /\ decisions \in [Shards -> Seq(Events)] /\ decisions[q] \in Seq(Events)
            /\ Len(decisions[q]) <= Slots /\ decisions[q] # <<>>
        BY <1>1, <2>1, <2>2 DEF QueuesOK, OmsTakes
      <3>2. /\ Head(decisions[q]) \in Events /\ Tail(decisions[q]) \in Seq(Events)
            /\ Len(Tail(decisions[q])) <= Slots
        BY <3>1, TakeHead, PipelineAssumption
      <3>3. PICK t \in Seq(Events) : t = Tail(decisions[q])
        BY <3>2
      <3>4. PICK h \in Events : h = Head(decisions[q])
        BY <3>2
      <3>5. /\ omsHeld' = h /\ decisions' = [decisions EXCEPT ![q] = t]
            /\ omsPc' = "push" /\ omsAt' = omsAt
        BY <1>5, <2>1, <2>2, <3>3, <3>4 DEF OmsPop, OmsTakes, NextInput
      <3>6. ThreadsOK'
        BY <1>1, <1>5, <3>5 DEF OmsPop, ThreadsOK
      <3>7. QueuesOK'
        BY <1>1, <1>5, <3>1, <3>2, <3>3, <3>5 DEF OmsPop, QueuesOK
      <3>8. HandsFull'
        BY <1>1, <1>5, <3>5, NoneIsNoEvent DEF OmsPop, HandsFull
      <3> QED BY <1>1, <1>2, <1>5, <3>6, <3>7, <3>8 DEF OmsPop, PipeType
    <2>3. CASE NextInput /\ UNCHANGED <<omsHeld, decisions>>
      <3>1. NextInput /\ UNCHANGED <<omsHeld, decisions>>
        BY <2>3
      <3>2. ThreadsOK'
        BY <1>1, <1>3, <1>5, <3>1 DEF OmsPop, ThreadsOK
      <3>3. HandsFull'
        BY <1>1, <1>3, <1>5, <3>1 DEF OmsPop, HandsFull
      <3> QED BY <1>1, <1>2, <1>5, <3>1, <3>2, <3>3 DEF OmsPop, QueuesOK, PipeType
    <2> QED BY <1>5, <2>1, <2>2, <2>3 DEF OmsPop, OmsTakes
  <1>6. CASE OmsPush
    <2>1. ThreadsOK'
      BY <1>1, <1>3, <1>6 DEF OmsPush, ThreadsOK
    <2>2. HandsFull'
      BY <1>1, <1>3, <1>6 DEF OmsPush, HandsFull
    <2>3. omsHeld \in Events
      BY <1>1, <1>6 DEF OmsPush, HandsFull, ThreadsOK
    <2>4. QueuesOK' /\ fate' \in Counters(Nat)
      <3>1. CASE Room(orderQ) /\ orderQ' = Append(orderQ, omsHeld) /\ UNCHANGED fate
        <4>1. orderQ' = Append(orderQ, omsHeld) /\ UNCHANGED <<market, decisions, fate>>
          BY <1>6, <3>1 DEF OmsPush
        <4>2. Append(orderQ, omsHeld) \in Seq(Events) /\ Len(Append(orderQ, omsHeld)) <= Slots
          BY <1>1, <2>3, <3>1, AddLast, PipelineAssumption DEF Room, QueuesOK
        <4> QED BY <1>1, <4>1, <4>2 DEF QueuesOK
      <3>2. CASE fate' = Lost(omsHeld.sym) /\ UNCHANGED orderQ
        <4>1. fate' = [fate EXCEPT !.lost[omsHeld.sym] = @ + 1] /\ UNCHANGED queueVars
          BY <1>6, <3>2 DEF OmsPush, Lost
        <4>2. omsHeld.sym \in Symbols
          BY <2>3 DEF Events
        <4> QED BY <1>1, <4>1, <4>2, FateLost DEF QueuesOK
      <3> QED BY <1>6, <3>1, <3>2 DEF OmsPush
    <2> QED BY <1>2, <2>1, <2>2, <2>4 DEF PipeType
  <1> QED BY <1>4, <1>5, <1>6 DEF Oms

LEMMA TradeTypes ==
    ASSUME PipeType, Trade PROVE PipeType'
  <1> USE DEF config, feedVars, stratVars, omsVars, queueVars
  <1>1. ThreadsOK' /\ PushesLeft' /\ HandsFull'
    BY DEF Trade, TradeCheck, TradePop, TradeIdle, PipeType, ThreadsOK, PushesLeft, HandsFull
  <1>2. CASE TradePop
    <2>1. orderQ \in Seq(Events) /\ orderQ # <<>> /\ Len(orderQ) <= Slots
      BY <1>2 DEF TradePop, PipeType, QueuesOK
    <2>2. /\ Head(orderQ) \in Events /\ Tail(orderQ) \in Seq(Events)
          /\ Len(Tail(orderQ)) <= Slots
      BY <2>1, TakeHead, PipelineAssumption
    <2>3. PICK cmd \in Events : cmd = Head(orderQ)
      BY <2>2
    <2>4. cmd.sym \in Symbols /\ cmd.seq \in Nat
      BY <2>3 DEF Events
    <2>5. fate' = [fate EXCEPT !.sent[cmd.sym] = @ + 1, !.last[cmd.sym] = cmd.seq]
      BY <1>2, <2>3 DEF TradePop
    <2>6. fate' \in Counters(Nat)
      <3>1. PICK h : h = [fate EXCEPT !.sent[cmd.sym] = @ + 1]
        OBVIOUS
      <3>2. h \in Counters(Nat)
        BY <2>4, <3>1, FateSent DEF PipeType
      <3>3. fate' = [h EXCEPT !.last[cmd.sym] = cmd.seq]
        BY <2>5, <3>1
      <3> QED BY <2>4, <3>2, <3>3, FateLast
    <2>7. QueuesOK'
      BY <1>2, <2>2 DEF TradePop, PipeType, QueuesOK
    <2> QED BY <1>1, <2>6, <2>7 DEF PipeType
  <1>3. CASE TradeCheck \/ TradeIdle
    BY <1>1, <1>3 DEF TradeCheck, TradeIdle, PipeType, QueuesOK
  <1> QED BY <1>2, <1>3 DEF Trade

LEMMA TypeKept == PipeType /\ [Next]_vars => PipeType'
  <1> USE DEF config, feedVars, stratVars, omsVars, queueVars
  <1>1. ASSUME PipeType, Stop \/ Exit \/ UNCHANGED vars PROVE PipeType'
    BY <1>1 DEF Stop, Exit, vars, PipeType, ThreadsOK, QueuesOK, HandsFull, PushesLeft
  <1> QED
    BY <1>1, FeedTypes, StratTypes, OmsTypes, TradeTypes DEF Next

------------------------------------------------------------------------------
(***************************************************************************)
(* Sequences of events: order, bounds and number of a symbol's events in   *)
(* a concatenation, from those of its parts.                               *)
(***************************************************************************)
Before(p, q) ==
    \A i \in DOMAIN p, j \in DOMAIN q : p[i].sym = q[j].sym => p[i].seq < q[j].seq

InOrder(p) ==
    \A i, j \in DOMAIN p : i < j /\ p[i].sym = p[j].sym => p[i].seq < p[j].seq

Within(p, low, high) ==
    \A i \in DOMAIN p : low[p[i].sym] < p[i].seq /\ p[i].seq <= high[p[i].sym]

(* The positions of p \o q are those of p, then those of q. *)
LEMMA ConcatParts ==
    ASSUME NEW S, NEW p \in Seq(S), NEW q \in Seq(S)
    PROVE  /\ p \o q \in Seq(S)
           /\ Len(p) \in Nat /\ Len(q) \in Nat
           /\ DOMAIN p = 1..Len(p) /\ DOMAIN q = 1..Len(q)
           /\ DOMAIN (p \o q) = 1..Len(p) + Len(q)
           /\ \A i \in 1..Len(p) : (p \o q)[i] = p[i]
           /\ \A j \in 1..Len(q) : (p \o q)[Len(p) + j] = q[j]
  <1>1. /\ p \o q \in Seq(S) /\ Len(p \o q) = Len(p) + Len(q)
        /\ \A i \in 1..Len(p) + Len(q) :
              (p \o q)[i] = IF i <= Len(p) THEN p[i] ELSE q[i - Len(p)]
    BY ConcatProperties
  <1>2. /\ Len(p) \in Nat /\ Len(q) \in Nat
        /\ DOMAIN p = 1..Len(p) /\ DOMAIN q = 1..Len(q)
        /\ DOMAIN (p \o q) = 1..Len(p) + Len(q)
    BY <1>1, LenProperties
  <1>3. ASSUME NEW i \in 1..Len(p) PROVE (p \o q)[i] = p[i]
    BY <1>1, <1>2
  <1>4. ASSUME NEW j \in 1..Len(q) PROVE (p \o q)[Len(p) + j] = q[j]
    <2>1. PICK k : k = Len(p) + j
      OBVIOUS
    <2>2. k \in 1..Len(p) + Len(q) /\ ~(k <= Len(p)) /\ k - Len(p) = j
      BY <1>2, <2>1
    <2> QED BY <1>1, <2>1, <2>2
  <1> QED BY <1>1, <1>2, <1>3, <1>4

LEMMA WithinConcat ==
    ASSUME NEW S, NEW p \in Seq(S), NEW q \in Seq(S), NEW low, NEW high
    PROVE  Within(p \o q, low, high) <=> Within(p, low, high) /\ Within(q, low, high)
  <1> DEFINE r == p \o q
             Ok(x) == low[x.sym] < x.seq /\ x.seq <= high[x.sym]
  <1>1. /\ Len(p) \in Nat /\ Len(q) \in Nat
        /\ DOMAIN p = 1..Len(p) /\ DOMAIN q = 1..Len(q) /\ DOMAIN r = 1..Len(p) + Len(q)
        /\ \A i \in 1..Len(p) : r[i] = p[i]
        /\ \A j \in 1..Len(q) : r[Len(p) + j] = q[j]
    BY ConcatParts
  <1>2. /\ Within(r, low, high) <=> \A i \in DOMAIN r : Ok(r[i])
        /\ Within(p, low, high) <=> \A i \in DOMAIN p : Ok(p[i])
        /\ Within(q, low, high) <=> \A i \in DOMAIN q : Ok(q[i])
    BY DEF Within
  <1> HIDE DEF r, Ok
  <1>3. ASSUME \A i \in DOMAIN r : Ok(r[i]) PROVE \A i \in DOMAIN p : Ok(p[i])
    BY <1>1, <1>3
  <1>4. ASSUME \A i \in DOMAIN r : Ok(r[i]), NEW j \in DOMAIN q PROVE Ok(q[j])
    <2>1. Len(p) + j \in DOMAIN r
      BY <1>1
    <2> QED BY <1>1, <1>4, <2>1
  <1>5. ASSUME \A i \in DOMAIN p : Ok(p[i]), \A j \in DOMAIN q : Ok(q[j]), NEW i \in DOMAIN r
        PROVE  Ok(r[i])
    <2>1. CASE i <= Len(p)
      <3>1. i \in DOMAIN p
        BY <1>1, <2>1
      <3> QED BY <1>1, <1>5, <3>1
    <2>2. CASE ~(i <= Len(p))
      <3>1. PICK j : j = i - Len(p)
        OBVIOUS
      <3>2. j \in DOMAIN q /\ i = Len(p) + j
        BY <1>1, <2>2, <3>1
      <3> QED BY <1>1, <1>5, <3>2
    <2> QED BY <2>1, <2>2
  <1>6. Within(r, low, high) <=> Within(p, low, high) /\ Within(q, low, high)
    BY <1>2, <1>3, <1>4, <1>5
  <1> QED BY <1>6 DEF r

LEMMA BeforeConcat ==
    ASSUME NEW S, NEW p \in Seq(S), NEW q \in Seq(S), NEW s \in Seq(S)
    PROVE  /\ Before(p \o q, s) <=> Before(p, s) /\ Before(q, s)
           /\ Before(s, p \o q) <=> Before(s, p) /\ Before(s, q)
  <1> DEFINE r == p \o q
             Lt(x, y) == x.sym = y.sym => x.seq < y.seq
  <1>1. /\ Len(p) \in Nat /\ Len(q) \in Nat
        /\ DOMAIN p = 1..Len(p) /\ DOMAIN q = 1..Len(q) /\ DOMAIN r = 1..Len(p) + Len(q)
        /\ \A i \in 1..Len(p) : r[i] = p[i]
        /\ \A j \in 1..Len(q) : r[Len(p) + j] = q[j]
    BY ConcatParts
  <1>2. \A u, v : Before(u, v) <=> \A i \in DOMAIN u, j \in DOMAIN v : Lt(u[i], v[j])
    BY DEF Before
  <1> HIDE DEF r, Lt
  <1>3. \A i \in DOMAIN p : i \in DOMAIN r /\ r[i] = p[i]
    BY <1>1
  <1>4. \A j \in DOMAIN q : \E k \in DOMAIN r : r[k] = q[j]
    <2> SUFFICES ASSUME NEW j \in DOMAIN q PROVE \E k \in DOMAIN r : r[k] = q[j]
      OBVIOUS
    <2>1. Len(p) + j \in DOMAIN r /\ r[Len(p) + j] = q[j]
      BY <1>1
    <2> QED BY <2>1
  <1>5. \A k \in DOMAIN r : (\E i \in DOMAIN p : r[k] = p[i]) \/ (\E j \in DOMAIN q : r[k] = q[j])
    <2> SUFFICES ASSUME NEW k \in DOMAIN r, ~(k <= Len(p)) PROVE \E j \in DOMAIN q : r[k] = q[j]
      BY <1>1
    <2>1. PICK j : j = k - Len(p)
      OBVIOUS
    <2>2. j \in DOMAIN q /\ k = Len(p) + j
      BY <1>1, <2>1
    <2> QED BY <1>1, <2>2
  <1>6. Before(r, s) <=> Before(p, s) /\ Before(q, s)
    BY <1>2, <1>3, <1>4, <1>5
  <1>7. Before(s, r) <=> Before(s, p) /\ Before(s, q)
    BY <1>2, <1>3, <1>4, <1>5
  <1> QED BY <1>6, <1>7 DEF r

LEMMA InOrderConcat ==
    ASSUME NEW S, NEW p \in Seq(S), NEW q \in Seq(S)
    PROVE  InOrder(p \o q) <=> InOrder(p) /\ InOrder(q) /\ Before(p, q)
  <1> DEFINE r == p \o q
             Lt(x, y) == x.sym = y.sym => x.seq < y.seq
  <1>1. /\ Len(p) \in Nat /\ Len(q) \in Nat
        /\ DOMAIN p = 1..Len(p) /\ DOMAIN q = 1..Len(q) /\ DOMAIN r = 1..Len(p) + Len(q)
        /\ \A i \in 1..Len(p) : r[i] = p[i]
        /\ \A j \in 1..Len(q) : r[Len(p) + j] = q[j]
    BY ConcatParts
  <1>2. /\ \A u : InOrder(u) <=> \A i, j \in DOMAIN u : i < j => Lt(u[i], u[j])
        /\ \A u, v : Before(u, v) <=> \A i \in DOMAIN u, j \in DOMAIN v : Lt(u[i], v[j])
    BY DEF InOrder, Before
  <1> HIDE DEF r, Lt
  <1>3. ASSUME InOrder(r) PROVE InOrder(p)
    <2>1. \A i \in DOMAIN p : i \in DOMAIN r /\ r[i] = p[i]
      BY <1>1
    <2> QED BY <1>2, <1>3, <2>1
  <1>4. ASSUME InOrder(r), NEW i \in DOMAIN q, NEW j \in DOMAIN q, i < j PROVE Lt(q[i], q[j])
    <2>1. /\ Len(p) + i \in DOMAIN r /\ r[Len(p) + i] = q[i]
          /\ Len(p) + j \in DOMAIN r /\ r[Len(p) + j] = q[j]
          /\ Len(p) + i < Len(p) + j
      BY <1>1, <1>4
    <2> QED BY <1>2, <1>4, <2>1
  <1>5. ASSUME InOrder(r), NEW i \in DOMAIN p, NEW j \in DOMAIN q PROVE Lt(p[i], q[j])
    <2>1. /\ i \in DOMAIN r /\ r[i] = p[i]
          /\ Len(p) + j \in DOMAIN r /\ r[Len(p) + j] = q[j]
          /\ i < Len(p) + j
      BY <1>1
    <2> QED BY <1>2, <1>5, <2>1
  <1>6. ASSUME InOrder(p), InOrder(q), Before(p, q),
               NEW i \in DOMAIN r, NEW j \in DOMAIN r, i < j
        PROVE  Lt(r[i], r[j])
    <2>1. CASE j <= Len(p)
      <3>1. i \in DOMAIN p /\ j \in DOMAIN p /\ r[i] = p[i] /\ r[j] = p[j]
        BY <1>1, <1>6, <2>1
      <3> QED BY <1>2, <1>6, <3>1
    <2>2. CASE i <= Len(p) /\ ~(j <= Len(p))
      <3>1. PICK k : k = j - Len(p)
        OBVIOUS
      <3>2. k \in DOMAIN q /\ j = Len(p) + k /\ i \in DOMAIN p
        <4>1. PICK a \in Nat, b \in Nat : a = Len(p) /\ b = Len(q)
          BY <1>1
        <4>2. i \in 1..a + b /\ j \in 1..a + b
          BY <1>1, <1>6, <4>1
        <4>3. k \in 1..b /\ j = a + k /\ i \in 1..a
          BY <2>2, <3>1, <4>1, <4>2
        <4> QED BY <1>1, <4>1, <4>3, SMTT(30)
      <3>3. r[i] = p[i] /\ r[j] = q[k]
        BY <1>1, <3>2
      <3> QED BY <1>2, <1>6, <3>2, <3>3
    <2>3. CASE ~(i <= Len(p))
      <3>1. PICK k, m : k = j - Len(p) /\ m = i - Len(p)
        OBVIOUS
      <3>2. k \in DOMAIN q /\ m \in DOMAIN q /\ m < k /\ j = Len(p) + k /\ i = Len(p) + m
        BY <1>1, <1>6, <2>3, <3>1
      <3>3. r[i] = q[m] /\ r[j] = q[k]
        BY <1>1, <3>2
      <3> QED BY <1>2, <1>6, <3>2, <3>3
    <2> QED BY <1>1, <1>6, <2>1, <2>2, <2>3
  <1>7. InOrder(r) <=> InOrder(p) /\ InOrder(q) /\ Before(p, q)
    BY <1>2, <1>3, <1>4, <1>5, <1>6
  <1> QED BY <1>7 DEF r

LEMMA OneEvent ==
    ASSUME NEW S, NEW e \in S
    PROVE  /\ <<e>> \in Seq(S)
           /\ DOMAIN <<e>> = {1} /\ <<e>>[1] = e
           /\ InOrder(<<e>>)
           /\ \A low, high :
                 Within(<<e>>, low, high) <=> low[e.sym] < e.seq /\ e.seq <= high[e.sym]
  <1>1. <<e>> \in Seq(S) /\ DOMAIN <<e>> = {1} /\ <<e>>[1] = e
    OBVIOUS
  <1>2. InOrder(<<e>>)
    BY <1>1 DEF InOrder
  <1> QED BY <1>1, <1>2 DEF Within

LEMMA NoEvents ==
    /\ DOMAIN <<>> = {} /\ InOrder(<<>>)
    /\ \A low, high : Within(<<>>, low, high)
    /\ \A p : Before(<<>>, p) /\ Before(p, <<>>)
  <1>1. DOMAIN <<>> = {}
    OBVIOUS
  <1> QED BY <1>1 DEF InOrder, Within, Before

LEMMA CountType ==
    ASSUME NEW S, NEW p \in Seq(S), NEW sym
    PROVE  /\ IsFiniteSet({i \in DOMAIN p : p[i].sym = sym})
           /\ Count(sym, p) \in Nat
  <1>1. DOMAIN p = 1..Len(p) /\ Len(p) \in Nat
    BY LenProperties
  <1>2. IsFiniteSet(DOMAIN p)
    BY <1>1, FS_Interval
  <1>3. IsFiniteSet({i \in DOMAIN p : p[i].sym = sym})
    BY <1>2, FS_Subset
  <1> QED BY <1>3, FS_CardinalityType DEF Count

LEMMA CountOne ==
    ASSUME NEW e, NEW sym
    PROVE  /\ Count(sym, <<>>) = 0
           /\ Count(sym, <<e>>) = IF e.sym = sym THEN 1 ELSE 0
  <1>1. DOMAIN <<>> = {} /\ DOMAIN <<e>> = {1} /\ <<e>>[1] = e
    OBVIOUS
  <1>2. {i \in DOMAIN <<>> : <<>>[i].sym = sym} = {}
    BY <1>1
  <1>3. {i \in DOMAIN <<e>> : <<e>>[i].sym = sym} = IF e.sym = sym THEN {1} ELSE {}
    BY <1>1
  <1> QED BY <1>2, <1>3, FS_EmptySet, FS_Singleton DEF Count

(* The positions of q, moved behind those of p. *)
LEMMA CountConcat ==
    ASSUME NEW S, NEW p \in Seq(S), NEW q \in Seq(S), NEW sym
    PROVE  Count(sym, p \o q) = Count(sym, p) + Count(sym, q)
  <1> DEFINE r == p \o q
             P == {i \in DOMAIN p : p[i].sym = sym}
             Q == {j \in DOMAIN q : q[j].sym = sym}
             Moved == {i \in DOMAIN r : i > Len(p) /\ r[i].sym = sym}
             f == [j \in Q |-> Len(p) + j]
  <1>1. /\ Len(p) \in Nat /\ Len(q) \in Nat
        /\ DOMAIN p = 1..Len(p) /\ DOMAIN q = 1..Len(q) /\ DOMAIN r = 1..Len(p) + Len(q)
        /\ \A i \in 1..Len(p) : r[i] = p[i]
        /\ \A j \in 1..Len(q) : r[Len(p) + j] = q[j]
    BY ConcatParts
  <1>2. IsFiniteSet(P) /\ IsFiniteSet(Q) /\ Cardinality(P) \in Nat /\ Cardinality(Q) \in Nat
    BY CountType DEF Count
  <1>3. Count(sym, r) = Cardinality({i \in DOMAIN r : r[i].sym = sym})
    BY DEF Count
  <1> HIDE DEF r
  <1>4. {i \in DOMAIN r : r[i].sym = sym} = P \cup Moved
    BY <1>1
  <1>5. P \cap Moved = {}
    BY <1>1
  <1>6. ExistsBijection(Q, Moved)
    <2>1. f \in [Q -> Moved]
      <3>1. ASSUME NEW j \in Q PROVE Len(p) + j \in Moved
        <4>1. j \in 1..Len(q) /\ Len(p) + j \in DOMAIN r /\ Len(p) + j > Len(p)
          BY <1>1
        <4> QED BY <1>1, <4>1
      <3> QED BY <3>1
    <2>2. f \in Injection(Q, Moved)
      <3>1. ASSUME NEW a \in Q, NEW b \in Q, f[a] = f[b] PROVE a = b
        BY <1>1, <3>1
      <3>2. DOMAIN f = Q
        BY <2>1
      <3> HIDE DEF f, Q, Moved
      <3> QED BY <2>1, <3>1, <3>2 DEF Injection, IsInjective
    <2>3. ASSUME NEW i \in Moved PROVE \E j \in Q : f[j] = i
      <3>1. PICK j : j = i - Len(p)
        OBVIOUS
      <3>2. j \in 1..Len(q) /\ i = Len(p) + j
        BY <1>1, <3>1
      <3>3. r[i] = q[j]
        BY <1>1, <3>2
      <3> QED BY <1>1, <3>2, <3>3
    <2> HIDE DEF f, Q, Moved
    <2>4. f \in Surjection(Q, Moved)
      BY <2>1, <2>3 DEF Surjection
    <2> QED BY <2>2, <2>4 DEF Bijection, ExistsBijection
  <1>7. IsFiniteSet(Moved) /\ Cardinality(Moved) = Cardinality(Q)
    BY <1>2, <1>6, FS_Bijection
  <1>8. Cardinality(P \cup Moved) = Cardinality(P) + Cardinality(Q) - Cardinality(P \cap Moved)
    BY <1>2, <1>7, FS_Union
  <1>9. Cardinality(P \cap Moved) = 0
    BY <1>5, FS_EmptySet
  <1>10. Cardinality(P) = Count(sym, p) /\ Cardinality(Q) = Count(sym, q)
    BY DEF Count
  <1>11. Count(sym, r) = Count(sym, p) + Count(sym, q)
    <2>1. Count(sym, r) = Cardinality(P \cup Moved)
      BY <1>3, <1>4, Zenon
    <2> HIDE DEF P, Q, Moved
    <2> QED BY <1>2, <1>8, <1>9, <1>10, <2>1
  <1> QED BY <1>11 DEF r

LEMMA HeadThenTail ==
    ASSUME NEW S, NEW q \in Seq(S), q # <<>>
    PROVE  q = <<Head(q)>> \o Tail(q)
  <1>1. Len(q) \in Nat /\ Len(q) >= 1 /\ Head(q) = q[1]
    BY TakeHead
  <1>2. 1 \in 1..Len(q) /\ Len(q) \in 1..Len(q)
    BY <1>1
  <1>3. SubSeq(q, 1, Len(q)) = <<q[1]>> \o SubSeq(q, 1 + 1, Len(q))
    BY <1>2, SubSeqRecursiveFirst
  <1>4. SubSeq(q, 1, Len(q)) = q /\ Tail(q) = SubSeq(q, 2, Len(q)) /\ 1 + 1 = 2
    BY SubSeqFull, TailIsSubSeq
  <1> QED BY <1>1, <1>3, <1>4

(***************************************************************************)
(* A sequence p2 is p with the part X replaced by Y.                       *)
(***************************************************************************)
Replaces(p, p2, X, Y) ==
    \E A, B \in Seq(Events) : p = A \o X \o B /\ p2 = A \o Y \o B

LEMMA ReplacedType ==
    ASSUME NEW p, NEW p2, NEW X \in Seq(Events), NEW Y \in Seq(Events),
           Replaces(p, p2, X, Y)
    PROVE  p \in Seq(Events) /\ p2 \in Seq(Events)
  <1>1. PICK A, B \in Seq(Events) : p = A \o X \o B /\ p2 = A \o Y \o B
    BY DEF Replaces
  <1>2. A \o X \in Seq(Events) /\ A \o Y \in Seq(Events)
    BY ConcatProperties
  <1> QED BY <1>1, <1>2, ConcatProperties

LEMMA CountReplaced ==
    ASSUME NEW p, NEW p2, NEW X \in Seq(Events), NEW Y \in Seq(Events), NEW sym,
           Replaces(p, p2, X, Y)
    PROVE  Count(sym, p2) + Count(sym, X) = Count(sym, p) + Count(sym, Y)
  <1>1. PICK A, B \in Seq(Events) : p = A \o X \o B /\ p2 = A \o Y \o B
    BY DEF Replaces
  <1>2. A \o X \in Seq(Events) /\ A \o Y \in Seq(Events)
    BY ConcatProperties
  <1>3. Count(sym, A \o X) = Count(sym, A) + Count(sym, X)
    BY CountConcat
  <1>4. Count(sym, A \o Y) = Count(sym, A) + Count(sym, Y)
    BY CountConcat
  <1>5. Count(sym, p) = Count(sym, A \o X) + Count(sym, B)
    BY <1>1, <1>2, CountConcat
  <1>6. Count(sym, p2) = Count(sym, A \o Y) + Count(sym, B)
    BY <1>1, <1>2, CountConcat
  <1>7. /\ Count(sym, A) \in Nat /\ Count(sym, B) \in Nat
        /\ Count(sym, X) \in Nat /\ Count(sym, Y) \in Nat
    BY CountType
  <1> QED BY <1>3, <1>4, <1>5, <1>6, <1>7

(* Order and bounds of a sequence in three parts. *)
LEMMA ThreeParts ==
    ASSUME NEW A \in Seq(Events), NEW X \in Seq(Events), NEW B \in Seq(Events),
           NEW low, NEW high
    PROVE  /\ InOrder(A \o X \o B) <=>
                 /\ InOrder(A) /\ InOrder(X) /\ InOrder(B)
                 /\ Before(A, X) /\ Before(A, B) /\ Before(X, B)
           /\ Within(A \o X \o B, low, high) <=>
                 Within(A, low, high) /\ Within(X, low, high) /\ Within(B, low, high)
  <1>1. A \o X \in Seq(Events)
    BY ConcatProperties
  <1>2. PICK AX \in Seq(Events) : AX = A \o X
    BY <1>1
  <1>3. InOrder(AX) <=> InOrder(A) /\ InOrder(X) /\ Before(A, X)
    BY <1>2, InOrderConcat
  <1>4. InOrder(AX \o B) <=> InOrder(AX) /\ InOrder(B) /\ Before(AX, B)
    BY InOrderConcat
  <1>5. Before(AX, B) <=> Before(A, B) /\ Before(X, B)
    BY <1>2, BeforeConcat
  <1>6. Within(AX, low, high) <=> Within(A, low, high) /\ Within(X, low, high)
    BY <1>2, WithinConcat
  <1>7. Within(AX \o B, low, high) <=> Within(AX, low, high) /\ Within(B, low, high)
    BY WithinConcat
  <1> QED BY <1>2, <1>3, <1>4, <1>5, <1>6, <1>7

(* Dropping an event, and changing one but for symbol and number. *)
LEMMA OrderWithout ==
    ASSUME NEW p, NEW p2, NEW e \in Events, NEW low, NEW high,
           Replaces(p, p2, <<e>>, <<>>), InOrder(p), Within(p, low, high)
    PROVE  InOrder(p2) /\ Within(p2, low, high)
  <1>1. PICK A, B \in Seq(Events) : p = A \o <<e>> \o B /\ p2 = A \o <<>> \o B
    BY DEF Replaces
  <1>2. <<e>> \in Seq(Events) /\ <<>> \in Seq(Events)
    BY OneEvent, EmptyIsSeq
  <1>3. InOrder(A) /\ InOrder(B) /\ Before(A, B) /\ Within(A, low, high) /\ Within(B, low, high)
    BY <1>1, <1>2, ThreeParts
  <1> QED BY <1>1, <1>2, <1>3, ThreeParts, NoEvents

LEMMA OrderResized ==
    ASSUME NEW p, NEW p2, NEW e \in Events, NEW d \in Events, NEW low, NEW high,
           d.sym = e.sym, d.seq = e.seq,
           Replaces(p, p2, <<e>>, <<d>>), InOrder(p), Within(p, low, high)
    PROVE  InOrder(p2) /\ Within(p2, low, high)
  <1>1. PICK A, B \in Seq(Events) : p = A \o <<e>> \o B /\ p2 = A \o <<d>> \o B
    BY DEF Replaces
  <1>2. <<e>> \in Seq(Events) /\ <<d>> \in Seq(Events)
    BY OneEvent
  <1>3. /\ InOrder(A) /\ InOrder(B) /\ Before(A, <<e>>) /\ Before(A, B) /\ Before(<<e>>, B)
        /\ Within(A, low, high) /\ Within(<<e>>, low, high) /\ Within(B, low, high)
    BY <1>1, <1>2, ThreeParts
  <1>4. /\ DOMAIN <<e>> = {1} /\ <<e>>[1] = e /\ DOMAIN <<d>> = {1} /\ <<d>>[1] = d
        /\ InOrder(<<d>>)
    BY OneEvent
  <1>5. Before(A, <<d>>) /\ Before(<<d>>, B) /\ Within(<<d>>, low, high)
    BY <1>3, <1>4 DEF Before, Within
  <1> QED BY <1>1, <1>2, <1>3, <1>4, <1>5, ThreeParts

(* Putting in an event of a symbol the rest of the sequence does not have. *)
Inserts(p, p2, A, e, B) == p = A \o <<>> \o B /\ p2 = A \o <<e>> \o B

LEMMA OrderWithOther ==
    ASSUME NEW p, NEW p2, NEW e \in Events, NEW low, NEW high,
           NEW A \in Seq(Events), NEW B \in Seq(Events), Inserts(p, p2, A, e, B),
           Before(A, <<e>>), \A i \in DOMAIN B : B[i].sym # e.sym,
           InOrder(p), Within(p, low, high), low[e.sym] < e.seq, e.seq <= high[e.sym]
    PROVE  InOrder(p2) /\ Within(p2, low, high)
  <1>1. <<e>> \in Seq(Events) /\ <<>> \in Seq(Events)
    BY OneEvent, EmptyIsSeq
  <1>2. InOrder(A) /\ InOrder(B) /\ Before(A, B) /\ Within(A, low, high) /\ Within(B, low, high)
    BY <1>1, ThreeParts DEF Inserts
  <1>3. InOrder(<<e>>) /\ Within(<<e>>, low, high) /\ DOMAIN <<e>> = {1} /\ <<e>>[1] = e
    BY OneEvent
  <1>4. Before(<<e>>, B)
    BY <1>3 DEF Before
  <1> QED BY <1>1, <1>2, <1>3, <1>4, ThreeParts DEF Inserts

LEMMA RangeOfConcat ==
    ASSUME NEW S, NEW p \in Seq(S), NEW q \in Seq(S)
    PROVE  Range(p \o q) = Range(p) \cup Range(q)
  <1> DEFINE r == p \o q
  <1>1. /\ Len(p) \in Nat /\ Len(q) \in Nat
        /\ DOMAIN p = 1..Len(p) /\ DOMAIN q = 1..Len(q) /\ DOMAIN r = 1..Len(p) + Len(q)
        /\ \A i \in 1..Len(p) : r[i] = p[i]
        /\ \A j \in 1..Len(q) : r[Len(p) + j] = q[j]
    BY ConcatParts
  <1> HIDE DEF r
  <1>2. ASSUME NEW i \in DOMAIN p PROVE p[i] \in Range(r)
    BY <1>1 DEF Range
  <1>3. ASSUME NEW j \in DOMAIN q PROVE q[j] \in Range(r)
    <2>1. Len(p) + j \in DOMAIN r /\ r[Len(p) + j] = q[j]
      BY <1>1
    <2> QED BY <2>1 DEF Range
  <1>4. ASSUME NEW k \in DOMAIN r PROVE r[k] \in Range(p) \cup Range(q)
    <2>1. CASE k <= Len(p)
      BY <1>1, <2>1 DEF Range
    <2>2. CASE ~(k <= Len(p))
      <3>1. PICK j : j = k - Len(p)
        OBVIOUS
      <3>2. j \in DOMAIN q /\ k = Len(p) + j
        BY <1>1, <2>2, <3>1
      <3> QED BY <1>1, <3>2 DEF Range
    <2> QED BY <2>1, <2>2
  <1>5. Range(r) = Range(p) \cup Range(q)
    BY <1>2, <1>3, <1>4 DEF Range
  <1> QED BY <1>5 DEF r

LEMMA RangeOfHand ==
    /\ Range(<<>>) = {} /\ Hand(None) = <<>>
    /\ \A e : Range(<<e>>) = {e}
    /\ \A e \in Events : Hand(e) = <<e>>
  <1>1. DOMAIN <<>> = {} /\ \A e : DOMAIN <<e>> = {1} /\ <<e>>[1] = e
    OBVIOUS
  <1> QED BY <1>1, NoneIsNoEvent DEF Range, Hand

------------------------------------------------------------------------------
(***************************************************************************)
(* What each step does to the paths of the events.                         *)
(***************************************************************************)
Own(s) == decisions[s] \o Hand(stratHeld[s]) \o market[s]

(* Concatenation under a name of its own, and five parts grouped in two.    *)
Cat(p, q) == p \o q

LEMMA CatType == \A p, q \in Seq(Events) : Cat(p, q) \in Seq(Events)
  <1> SUFFICES ASSUME NEW p \in Seq(Events), NEW q \in Seq(Events)
               PROVE  Cat(p, q) \in Seq(Events)
    OBVIOUS
  <1> QED BY ConcatProperties DEF Cat

LEMMA CatAssociative ==
    \A p, q, r \in Seq(Events) : Cat(Cat(p, q), r) = Cat(p, Cat(q, r))
  <1> SUFFICES ASSUME NEW p \in Seq(Events), NEW q \in Seq(Events), NEW r \in Seq(Events)
               PROVE  Cat(Cat(p, q), r) = Cat(p, Cat(q, r))
    OBVIOUS
  <1> QED BY ConcatAssociative DEF Cat

LEMMA Regroup ==
    ASSUME NEW P \in Seq(Events), NEW D \in Seq(Events),
           NEW T \in Seq(Events), NEW M \in Seq(Events)
    PROVE  /\ Cat(Cat(D, T), M) \in Seq(Events)
           /\ Cat(Cat(Cat(P, D), T), M) = Cat(P, Cat(Cat(D, T), M))
  <1>1. Cat(D, T) \in Seq(Events) /\ Cat(Cat(D, T), M) \in Seq(Events)
    BY CatType
  <1>2. Cat(Cat(P, D), T) = Cat(P, Cat(D, T))
    BY CatAssociative
  <1>3. Cat(Cat(P, Cat(D, T)), M) = Cat(P, Cat(Cat(D, T), M))
    BY <1>1, CatAssociative
  <1> QED BY <1>1, <1>2, <1>3

LEMMA PathTypes ==
    ASSUME PipeType, NEW s \in Shards
    PROVE  /\ orderQ \in Seq(Events) /\ Hand(omsHeld) \in Seq(Events)
           /\ decisions[s] \in Seq(Events) /\ Hand(stratHeld[s]) \in Seq(Events)
           /\ market[s] \in Seq(Events)
           /\ Own(s) \in Seq(Events) /\ Path(s) \in Seq(Events)
           /\ Path(s) = orderQ \o Hand(omsHeld) \o Own(s)
  <1>1. \A e \in Events \cup {None} : Hand(e) \in Seq(Events)
    BY EmptyIsSeq DEF Hand
  <1>2. stratHeld[s] \in Events \cup {None} /\ omsHeld \in Events \cup {None}
    BY DEF PipeType, ThreadsOK
  <1>3. /\ orderQ \in Seq(Events) /\ Hand(omsHeld) \in Seq(Events)
        /\ decisions[s] \in Seq(Events) /\ Hand(stratHeld[s]) \in Seq(Events)
        /\ market[s] \in Seq(Events)
    BY <1>1, <1>2 DEF PipeType, QueuesOK
  <1>4. orderQ \o Hand(omsHeld) \in Seq(Events)
    BY <1>3, ConcatProperties
  <1>5. PICK P, D, T, M \in Seq(Events) :
            /\ P = orderQ \o Hand(omsHeld) /\ D = decisions[s]
            /\ T = Hand(stratHeld[s]) /\ M = market[s]
    BY <1>3, <1>4
  <1>6. Own(s) = Cat(Cat(D, T), M) /\ Path(s) = Cat(Cat(Cat(P, D), T), M)
    BY <1>5 DEF Own, Path, Cat
  <1>7. Own(s) \in Seq(Events) /\ Path(s) = Cat(P, Own(s))
    BY <1>6, Regroup
  <1>8. Path(s) \in Seq(Events)
    BY <1>7, CatType
  <1> QED BY <1>3, <1>5, <1>7, <1>8 DEF Cat

LEMMA StillPaths ==
    ASSUME PipeType, Still
    PROVE  \A s \in Shards : Path(s)' = Path(s) /\ Own(s)' = Own(s)
  BY DEF Still, queueVars, Path, Own

(* A pop of a shard takes the first event of the last queue in hand. *)
LEMMA StratPopPaths ==
    ASSUME PipeType, NEW s \in Shards, StratPop(s)
    PROVE  \A t \in Shards : Path(t)' = Path(t)
  <1>1. market \in [Shards -> Seq(Events)] /\ stratHeld \in [Shards -> Events \cup {None}]
    BY DEF PipeType, QueuesOK, ThreadsOK
  <1>2. PICK M \in Seq(Events) : M = market[s]
    BY <1>1
  <1>3. M # <<>> /\ stratHeld[s] = None
    BY <1>2 DEF StratPop, PipeType, HandsFull
  <1>4. PICK h \in Events, R \in Seq(Events) : h = Head(M) /\ R = Tail(M) /\ M = <<h>> \o R
    BY <1>3, TakeHead, HeadThenTail
  <1>5. /\ market' = [market EXCEPT ![s] = R] /\ stratHeld' = [stratHeld EXCEPT ![s] = h]
        /\ UNCHANGED <<orderQ, omsHeld, decisions>>
    BY <1>2, <1>4 DEF StratPop, omsVars
  <1>6. ASSUME NEW t \in Shards, t # s PROVE Path(t)' = Path(t)
    BY <1>1, <1>5, <1>6 DEF Path
  <1>7. Path(s)' = Path(s)
    <2>1. PICK A \in Seq(Events) : A = orderQ \o Hand(omsHeld) \o decisions[s]
      <3>1. orderQ \o Hand(omsHeld) \in Seq(Events) /\ decisions[s] \in Seq(Events)
        BY PathTypes, ConcatProperties
      <3> QED BY <3>1, ConcatProperties
    <2>2. market'[s] = R /\ stratHeld'[s] = h
      BY <1>1, <1>5
    <2>3. Path(s)' = A \o <<h>> \o R
      BY <1>5, <2>1, <2>2, RangeOfHand DEF Path
    <2>4. Path(s) = A \o <<>> \o (<<h>> \o R)
      BY <1>2, <1>3, <1>4, <2>1, RangeOfHand DEF Path
    <2>5. A \o <<>> = A /\ <<h>> \in Seq(Events)
      BY ConcatEmptySeq, OneEvent
    <2>6. (A \o <<h>>) \o R = A \o (<<h>> \o R)
      BY <2>5, ConcatAssociative
    <2> QED BY <2>3, <2>4, <2>5, <2>6
  <1> QED BY <1>6, <1>7

(* A push of a shard adds the event to the next queue, or drops it. *)
LEMMA StratPushPaths ==
    ASSUME PipeType, NEW s \in Shards, StratPush(s)
    PROVE  /\ \A t \in Shards \ {s} : Path(t)' = Path(t)
           /\ \E e \in Events :
                 /\ e = stratHeld[s]
                 /\ \/ /\ UNCHANGED fate
                       /\ \E d \in Events :
                             /\ d.sym = e.sym /\ d.seq = e.seq
                             /\ decisions' = [decisions EXCEPT ![s] = Append(@, d)]
                             /\ Replaces(Path(s), Path(s)', <<e>>, <<d>>)
                    \/ /\ fate' = Lost(e.sym) /\ UNCHANGED decisions
                       /\ Replaces(Path(s), Path(s)', <<e>>, <<>>)
  <1>1. /\ decisions \in [Shards -> Seq(Events)] /\ stratHeld \in [Shards -> Events \cup {None}]
        /\ stratHeld[s] # None
    BY DEF PipeType, QueuesOK, ThreadsOK, HandsFull, StratPush
  <1>2. PICK e \in Events : e = stratHeld[s]
    BY <1>1
  <1>3. PICK A, D, M, OH \in Seq(Events) :
            /\ D = decisions[s] /\ M = market[s]
            /\ OH = orderQ \o Hand(omsHeld) /\ A = OH \o D
    BY PathTypes, ConcatProperties
  <1>4. /\ stratHeld' = [stratHeld EXCEPT ![s] = None]
        /\ UNCHANGED <<orderQ, omsHeld, market>>
    BY DEF StratPush, omsVars
  <1>5. Path(s) = A \o <<e>> \o M
    BY <1>2, <1>3, RangeOfHand DEF Path
  <1>6. stratHeld'[s] = None /\ Hand(stratHeld'[s]) = <<>>
    BY <1>1, <1>4, RangeOfHand
  <1>7. CASE /\ decisions' = [decisions EXCEPT ![s] = Append(@, [e EXCEPT !.size = @ * 4])]
             /\ UNCHANGED fate
    <2>1. PICK d : d = [e EXCEPT !.size = @ * 4]
      OBVIOUS
    <2>2. d \in Events /\ d.sym = e.sym /\ d.seq = e.seq
      <3>1. e = [sym |-> e.sym, seq |-> e.seq, size |-> e.size]
        BY DEF Events
      <3>2. d = [sym |-> e.sym, seq |-> e.seq, size |-> e.size * 4]
        BY <2>1, <3>1
      <3> QED BY <3>2 DEF Events
    <2>3. decisions' = [decisions EXCEPT ![s] = Append(@, d)] /\ UNCHANGED fate
      BY <1>7, <2>1
    <2>4. decisions'[s] = Append(D, d)
      BY <1>1, <1>3, <2>3
    <2>5. Append(D, d) = D \o <<d>> /\ <<d>> \in Seq(Events)
      BY <2>2, AppendIsConcat, OneEvent
    <2>6. (OH \o D) \o <<d>> = OH \o (D \o <<d>>)
      BY <2>5, ConcatAssociative
    <2>7. A \o <<d>> \in Seq(Events)
      BY <2>5, ConcatProperties
    <2>8. (A \o <<d>>) \o <<>> = A \o <<d>>
      BY <2>7, ConcatEmptySeq
    <2>9. Path(s)' = OH \o (D \o <<d>>) \o <<>> \o M
      BY <1>3, <1>4, <1>6, <2>4, <2>5 DEF Path
    <2>10. Path(s)' = A \o <<d>> \o M
      BY <1>3, <2>6, <2>8, <2>9
    <2>11. Replaces(Path(s), Path(s)', <<e>>, <<d>>)
      BY <1>5, <2>10 DEF Replaces
    <2>12. \A t \in Shards \ {s} : Path(t)' = Path(t)
      BY <1>1, <1>4, <2>3 DEF Path
    <2> QED BY <1>2, <2>2, <2>3, <2>11, <2>12
  <1>8. CASE fate' = Lost(e.sym) /\ UNCHANGED decisions
    <2>1. fate' = Lost(e.sym) /\ UNCHANGED decisions
      BY <1>8
    <2>2. Path(s)' = A \o <<>> \o M
      BY <1>3, <1>4, <1>6, <2>1 DEF Path
    <2>3. Replaces(Path(s), Path(s)', <<e>>, <<>>)
      BY <1>5, <2>2 DEF Replaces
    <2>4. \A t \in Shards \ {s} : Path(t)' = Path(t)
      BY <1>1, <1>4, <2>1 DEF Path
    <2> QED BY <1>2, <2>1, <2>3, <2>4
  <1> QED BY <1>2, <1>7, <1>8 DEF StratPush

(* A pop of the OMS takes the first decision of shard q in hand, where it  *)
(* is also in front of what the other shards hold.                         *)
LEMMA OmsTakesPaths ==
    ASSUME PipeType, OmsTakes
    PROVE  \E q \in Shards, e \in Events :
              /\ decisions[q] # <<>> /\ e = Head(decisions[q])
              /\ decisions' = [decisions EXCEPT ![q] = Tail(@)]
              /\ Path(q)' = Path(q)
              /\ \E B \in Seq(Events) : Path(q) = orderQ \o <<e>> \o B
              /\ \A t \in Shards \ {q} :
                    /\ Path(t) = orderQ \o <<>> \o Own(t)
                    /\ Path(t)' = orderQ \o <<e>> \o Own(t)
  <1>1. PICK q \in Shards : q = ShardList[omsAt]
    BY ListFacts DEF PipeType, ThreadsOK
  <1>2. /\ decisions \in [Shards -> Seq(Events)] /\ decisions[q] # <<>>
        /\ omsHeld = None /\ Hand(omsHeld) = <<>>
    BY <1>1, RangeOfHand DEF OmsTakes, OmsPop, PipeType, QueuesOK, HandsFull
  <1>3. PICK O, D \in Seq(Events) : O = orderQ /\ D = decisions[q]
    BY PathTypes
  <1>4. PICK e \in Events, R \in Seq(Events) : e = Head(D) /\ R = Tail(D) /\ D = <<e>> \o R
    BY <1>2, <1>3, TakeHead, HeadThenTail
  <1>5. /\ omsHeld' = e /\ decisions' = [decisions EXCEPT ![q] = Tail(@)]
        /\ UNCHANGED <<orderQ, stratHeld, market>>
    BY <1>1, <1>2, <1>3, <1>4 DEF OmsTakes, OmsPop, NextInput, stratVars
  <1>6. Hand(omsHeld') = <<e>> /\ decisions'[q] = R
    BY <1>2, <1>3, <1>4, <1>5, RangeOfHand
  <1>7. <<e>> \in Seq(Events) /\ O \o <<>> = O
    BY OneEvent, ConcatEmptySeq
  <1>8. /\ Path(q)' = Path(q)
        /\ \E B \in Seq(Events) : Path(q) = orderQ \o <<e>> \o B
    <2>1. (O \o <<e>>) \o R = O \o (<<e>> \o R)
      BY <1>7, ConcatAssociative
    <2>2. PICK T, M, P \in Seq(Events) :
              T = Hand(stratHeld[q]) /\ M = market[q] /\ P = O \o <<e>>
      BY <1>7, PathTypes, ConcatProperties
    <2>3. Path(q) = P \o R \o T \o M
      BY <1>2, <1>3, <1>4, <1>7, <2>1, <2>2 DEF Path
    <2>4. Path(q)' = P \o R \o T \o M
      BY <1>3, <1>5, <1>6, <2>2 DEF Path
    <2>5. Path(q) = Cat(Cat(Cat(P, R), T), M)
      BY <2>3 DEF Cat
    <2>6. Path(q) = Cat(P, Cat(Cat(R, T), M)) /\ Cat(Cat(R, T), M) \in Seq(Events)
      BY <2>5, Regroup
    <2>7. \E B \in Seq(Events) : Path(q) = Cat(P, B)
      BY <2>6
    <2> QED BY <1>3, <2>2, <2>3, <2>4, <2>7 DEF Cat
  <1>9. ASSUME NEW t \in Shards \ {q}
        PROVE  /\ Path(t) = orderQ \o <<>> \o Own(t)
               /\ Path(t)' = orderQ \o <<e>> \o Own(t)
    <2>1. PICK T, M, C \in Seq(Events) : T = Hand(stratHeld[t]) /\ M = market[t] /\ C = decisions[t]
      BY PathTypes
    <2>2. PICK P \in Seq(Events) : P = O \o <<e>>
      BY <1>7, ConcatProperties
    <2>3. decisions'[t] = C
      BY <1>2, <1>5, <2>1
    <2>4. Own(t) = Cat(Cat(C, T), M)
      BY <2>1 DEF Own, Cat
    <2>5. Path(t)' = Cat(Cat(Cat(P, C), T), M)
      BY <1>3, <1>5, <1>6, <2>1, <2>2, <2>3 DEF Path, Cat
    <2>6. Path(t)' = Cat(P, Own(t))
      BY <2>4, <2>5, Regroup
    <2>7. Path(t) = orderQ \o <<>> \o Own(t)
      BY <1>2, PathTypes
    <2> QED BY <1>3, <2>2, <2>6, <2>7 DEF Cat
  <1> QED BY <1>2, <1>3, <1>4, <1>5, <1>8, <1>9

(* A push of the OMS: the order goes on, or is lost for every path. *)
LEMMA OmsPushPaths ==
    ASSUME PipeType, OmsPush
    PROVE  \E e \in Events :
              \/ /\ UNCHANGED fate
                 /\ \A s \in Shards : Path(s)' = Path(s)
              \/ /\ fate' = Lost(e.sym)
                 /\ \A s \in Shards : Replaces(Path(s), Path(s)', <<e>>, <<>>)
  <1>1. PICK e \in Events : e = omsHeld
    BY DEF PipeType, ThreadsOK, HandsFull, OmsPush
  <1>2. /\ Hand(omsHeld) = <<e>> /\ Hand(omsHeld') = <<>>
        /\ UNCHANGED <<decisions, stratHeld, market>>
    BY <1>1, RangeOfHand DEF OmsPush, stratVars
  <1>3. CASE UNCHANGED fate /\ orderQ' = Append(orderQ, e)
    <2>1. UNCHANGED fate /\ orderQ' = Append(orderQ, e)
      BY <1>3
    <2>2. ASSUME NEW s \in Shards PROVE Path(s)' = Path(s)
      <3>1. PICK O \in Seq(Events) : O = orderQ
        BY PathTypes
      <3>2. Append(O, e) = O \o <<e>> /\ Append(O, e) \in Seq(Events)
        BY AppendIsConcat, AddLast
      <3>3. (O \o <<e>>) \o <<>> = O \o <<e>>
        BY <3>2, ConcatEmptySeq
      <3> QED BY <1>2, <2>1, <3>1, <3>2, <3>3 DEF Path
    <2> QED BY <2>1, <2>2
  <1>4. CASE fate' = Lost(e.sym) /\ UNCHANGED orderQ
    <2>1. fate' = Lost(e.sym) /\ UNCHANGED orderQ
      BY <1>4
    <2>2. ASSUME NEW s \in Shards PROVE Replaces(Path(s), Path(s)', <<e>>, <<>>)
      <3>1. PICK O, D, T, M \in Seq(Events) :
                /\ O = orderQ /\ D = decisions[s] /\ T = Hand(stratHeld[s]) /\ M = market[s]
        BY PathTypes
      <3>2. PICK P \in Seq(Events) : P = O \o <<>>
        BY EmptyIsSeq, ConcatProperties
      <3>3. Own(s) = Cat(Cat(D, T), M)
        BY <3>1 DEF Own, Cat
      <3>4. Path(s)' = Cat(Cat(Cat(P, D), T), M)
        BY <1>2, <2>1, <3>1, <3>2 DEF Path, Cat
      <3>5. Path(s)' = Cat(P, Own(s)) /\ Own(s) \in Seq(Events)
        BY <3>3, <3>4, Regroup
      <3>6. Path(s) = O \o <<e>> \o Own(s)
        BY <1>2, <3>1, PathTypes
      <3> QED BY <3>2, <3>5, <3>6 DEF Replaces, Cat
    <2> QED BY <2>1, <2>2
  <1> QED BY <1>1, <1>3, <1>4 DEF OmsPush

(* Trade IO takes the first order off every path. *)
LEMMA TradePopPaths ==
    ASSUME PipeType, TradePop
    PROVE  \E e \in Events :
              /\ fate' = [fate EXCEPT !.sent[e.sym] = @ + 1, !.last[e.sym] = e.seq]
              /\ \A s \in Shards :
                    /\ Path(s)' \in Seq(Events)
                    /\ Path(s) = <<e>> \o Path(s)'
  <1>1. orderQ \in Seq(Events) /\ orderQ # <<>>
    BY DEF PipeType, QueuesOK, TradePop
  <1>2. PICK e \in Events, R \in Seq(Events) :
            e = Head(orderQ) /\ R = Tail(orderQ) /\ orderQ = <<e>> \o R
    BY <1>1, TakeHead, HeadThenTail
  <1>3. fate' = [fate EXCEPT !.sent[e.sym] = @ + 1, !.last[e.sym] = e.seq]
    BY <1>2 DEF TradePop
  <1>4. orderQ' = R /\ UNCHANGED <<omsHeld, stratHeld, decisions, market>>
    BY <1>2 DEF TradePop, omsVars, stratVars
  <1>5. PICK E \in Seq(Events) : E = <<e>>
    BY OneEvent
  <1>6. ASSUME NEW s \in Shards
        PROVE  Path(s)' \in Seq(Events) /\ Path(s) = E \o Path(s)'
    <2>1. PICK H, D, T, M \in Seq(Events) :
              /\ H = Hand(omsHeld) /\ D = decisions[s] /\ T = Hand(stratHeld[s]) /\ M = market[s]
      BY PathTypes
    <2>2. PICK RH, C \in Seq(Events) : RH = Cat(R, H) /\ C = Cat(Cat(D, T), M)
      BY Regroup, CatType
    <2>3. Path(s)' = Cat(Cat(Cat(RH, D), T), M)
      BY <1>4, <2>1, <2>2 DEF Path, Cat
    <2>4. Path(s)' = Cat(RH, C)
      BY <2>2, <2>3, Regroup
    <2>5. C = Own(s)
      BY <2>1, <2>2 DEF Own, Cat
    <2>6. Path(s) = Cat(Cat(Cat(E, R), H), C)
      BY <1>2, <1>5, <2>1, <2>5, PathTypes DEF Cat
    <2>7. Cat(Cat(E, R), H) = Cat(E, RH)
      BY <2>2, CatAssociative
    <2>8. Cat(Cat(E, RH), C) = Cat(E, Cat(RH, C))
      BY CatAssociative
    <2>9. Path(s) = Cat(E, Cat(RH, C))
      BY <2>6, <2>7, <2>8
    <2>10. Path(s)' \in Seq(Events)
      BY <2>4, CatType
    <2> QED BY <2>4, <2>9, <2>10 DEF Cat
  <1> QED BY <1>3, <1>5, <1>6

NewEvent(sym, n, size) == [sym |-> sym, seq |-> n, size |-> size]
OneMore(sym) == [fate EXCEPT !.made[sym] = @ + 1]

(* A publication goes to the end of its shard's path, or is dropped. *)
LEMMA PublishPaths ==
    ASSUME PipeType, NEW sym \in Symbols, NEW n \in 1..MaxSeq, NEW size \in Nat,
           Publishes(sym, n, size)
    PROVE  \E q \in Shards, e \in Events, made \in Counters(Nat) :
              /\ q = Route(sym) /\ e = NewEvent(sym, n, size) /\ made = OneMore(sym)
              /\ seq' = [seq EXCEPT ![sym] = n]
              /\ \A t \in Shards \ {q} : Path(t)' = Path(t)
              /\ \/ fate' = made /\ Path(q)' = Path(q) \o <<e>>
                 \/ fate' = [made EXCEPT !.lost[sym] = @ + 1] /\ Path(q)' = Path(q)
  <1>1. PICK q \in Shards : q = Route(sym)
    BY DEF PipeType, ThreadsOK, Route
  <1>2. PICK e \in Events : e = NewEvent(sym, n, size)
    BY DEF Events, NewEvent
  <1>3. fate \in Counters(Nat)
    BY DEF PipeType
  <1>4. PICK made \in Counters(Nat) : made = OneMore(sym)
    <2>1. OneMore(sym) = [fate EXCEPT !.made[sym] = @ + 1]
      BY DEF OneMore
    <2> QED BY <1>3, <2>1, FateMade
  <1>5. market \in [Shards -> Seq(Events)]
    BY DEF PipeType, QueuesOK
  <1>6. UNCHANGED <<orderQ, omsHeld, decisions, stratHeld>>
    BY DEF Publishes
  <1>7. seq' = [seq EXCEPT ![sym] = n]
    BY DEF Publishes, Publish
  <1>8. CASE market' = [market EXCEPT ![q] = Append(@, e)] /\ fate' = made
    <2>1. market' = [market EXCEPT ![q] = Append(@, e)] /\ fate' = made
      BY <1>8
    <2>2. ASSUME NEW t \in Shards \ {q} PROVE Path(t)' = Path(t)
      BY <1>5, <1>6, <2>1 DEF Path
    <2>3. Path(q)' = Path(q) \o <<e>>
      <3>1. PICK M \in Seq(Events) : M = market[q]
        BY <1>5
      <3>2. PICK A \in Seq(Events) :
                A = orderQ \o Hand(omsHeld) \o decisions[q] \o Hand(stratHeld[q])
        <4>1. orderQ \o Hand(omsHeld) \in Seq(Events)
          BY PathTypes, ConcatProperties
        <4>2. orderQ \o Hand(omsHeld) \o decisions[q] \in Seq(Events)
          BY <4>1, PathTypes, ConcatProperties
        <4> QED BY <4>2, PathTypes, ConcatProperties
      <3>3. market'[q] = M \o <<e>> /\ <<e>> \in Seq(Events)
        BY <1>5, <2>1, <3>1, AppendIsConcat, OneEvent
      <3>4. Path(q) = A \o M /\ Path(q)' = A \o (M \o <<e>>)
        BY <1>6, <3>1, <3>2, <3>3 DEF Path
      <3>5. (A \o M) \o <<e>> = A \o (M \o <<e>>)
        BY <3>3, ConcatAssociative
      <3> QED BY <3>4, <3>5
    <2> QED BY <1>7, <1>1, <1>2, <1>4, <2>1, <2>2, <2>3
  <1>9. CASE UNCHANGED market /\ fate' = [made EXCEPT !.lost[sym] = @ + 1]
    <2>1. UNCHANGED market /\ fate' = [made EXCEPT !.lost[sym] = @ + 1]
      BY <1>9
    <2>2. \A t \in Shards : Path(t)' = Path(t)
      BY <1>6, <2>1 DEF Path
    <2> QED BY <1>7, <1>1, <1>2, <1>4, <2>1, <2>2
  <1> QED BY <1>1, <1>2, <1>4, <1>8, <1>9 DEF Publishes, Publish, NewEvent, OneMore

------------------------------------------------------------------------------
(***************************************************************************)
(* A symbol's events go through one shard only.                            *)
(***************************************************************************)
Routed ==
    \A s \in Shards :
        /\ \A e \in Range(decisions[s]) : shardOf[e.sym] = s
        /\ \A e \in Range(Hand(stratHeld[s])) : shardOf[e.sym] = s
        /\ \A e \in Range(market[s]) : shardOf[e.sym] = s

LEMMA RangeOfOwn ==
    ASSUME PipeType, Routed, NEW s \in Shards, NEW i \in DOMAIN Own(s)
    PROVE  shardOf[Own(s)[i].sym] = s
  <1>1. PICK D, T, M \in Seq(Events) :
            D = decisions[s] /\ T = Hand(stratHeld[s]) /\ M = market[s]
    BY PathTypes
  <1>2. D \o T \in Seq(Events)
    BY ConcatProperties
  <1>3. Range(D \o T) = Range(D) \cup Range(T)
    BY RangeOfConcat
  <1>4. Range((D \o T) \o M) = Range(D \o T) \cup Range(M)
    BY <1>2, RangeOfConcat
  <1>5. Range(Own(s)) = Range(D) \cup Range(T) \cup Range(M)
    BY <1>1, <1>3, <1>4 DEF Own
  <1>6. Own(s)[i] \in Range(Own(s))
    BY DEF Range
  <1> QED BY <1>1, <1>5, <1>6 DEF Routed

LEMMA RangeOfEnds ==
    ASSUME NEW S, NEW q \in Seq(S)
    PROVE  /\ \A e \in S : Range(Append(q, e)) = Range(q) \cup {e}
           /\ q # <<>> => Range(q) = Range(Tail(q)) \cup {Head(q)} /\ Head(q) \in Range(q)
  <1>1. ASSUME NEW e \in S PROVE Range(Append(q, e)) = Range(q) \cup {e}
    <2>1. <<e>> \in Seq(S) /\ Append(q, e) = q \o <<e>>
      BY OneEvent, AppendIsConcat
    <2>2. Range(q \o <<e>>) = Range(q) \cup Range(<<e>>)
      BY <2>1, RangeOfConcat
    <2> QED BY <2>1, <2>2, RangeOfHand
  <1>2. ASSUME q # <<>> PROVE Range(q) = Range(Tail(q)) \cup {Head(q)}
    <2>1. PICK h \in S, t \in Seq(S) : h = Head(q) /\ t = Tail(q) /\ q = <<h>> \o t
      BY <1>2, TakeHead, HeadThenTail
    <2>2. <<h>> \in Seq(S)
      BY OneEvent
    <2>3. Range(<<h>> \o t) = Range(<<h>>) \cup Range(t)
      BY <2>2, RangeOfConcat
    <2> QED BY <2>1, <2>3, RangeOfHand
  <1> QED BY <1>1, <1>2

LEMMA RoutedKept == PipeType /\ Routed /\ [Next]_vars => Routed'
  <1> SUFFICES ASSUME PipeType, Routed, [Next]_vars PROVE Routed'
    OBVIOUS
  <1>1. /\ decisions \in [Shards -> Seq(Events)] /\ market \in [Shards -> Seq(Events)]
        /\ stratHeld \in [Shards -> Events \cup {None}] /\ shardOf \in [Symbols -> Shards]
    BY DEF PipeType, ThreadsOK, QueuesOK
  <1>2. CASE Still
    BY <1>2 DEF Still, queueVars, Routed
  <1>3. CASE PublishStep
    <2>1. PICK sym \in Symbols, n \in 1..MaxSeq, size \in Nat : Publishes(sym, n, size)
      BY <1>3 DEF PublishStep
    <2>2. UNCHANGED <<shardOf, decisions, stratHeld>>
      BY <2>1 DEF Publishes
    <2>3. PICK q \in Shards : q = shardOf[sym]
      BY <1>1
    <2>4. PICK e \in Events : e = [sym |-> sym, seq |-> n, size |-> size]
      BY DEF Events
    <2>5. market' = market \/ market' = [market EXCEPT ![q] = Append(@, e)]
      BY <2>1, <2>3, <2>4 DEF Publishes, Publish, Route
    <2>6. Range(Append(market[q], e)) = Range(market[q]) \cup {e} /\ e.sym = sym
      BY <1>1, <2>4, RangeOfEnds
    <2>7. ASSUME NEW s \in Shards, NEW x \in Range(market'[s]) PROVE shardOf[x.sym] = s
      <3>1. market'[s] = market[s] \/ (s = q /\ market'[s] = Append(market[q], e))
        BY <1>1, <2>5
      <3>2. x \in Range(market[s]) \/ (s = q /\ x = e)
        BY <2>6, <2>7, <3>1
      <3> QED BY <2>3, <2>6, <3>2 DEF Routed
    <2> QED BY <2>2, <2>7 DEF Routed
  <1>4. ASSUME NEW s \in Shards, StratPop(s) PROVE Routed'
    <2>1. PICK h \in Events, t \in Seq(Events) :
              h = Head(market[s]) /\ t = Tail(market[s])
      BY <1>1, <1>4, TakeHead DEF StratPop
    <2>2. Range(market[s]) = Range(t) \cup {h}
      BY <1>1, <1>4, <2>1, RangeOfEnds DEF StratPop
    <2>3. /\ stratHeld' = [stratHeld EXCEPT ![s] = h] /\ market' = [market EXCEPT ![s] = t]
          /\ UNCHANGED <<shardOf, decisions>>
      BY <1>4, <2>1 DEF StratPop, config
    <2>4. Range(Hand(h)) = {h}
      BY RangeOfHand
    <2> QED BY <1>1, <2>2, <2>3, <2>4 DEF Routed
  <1>5. ASSUME NEW s \in Shards, StratPush(s) PROVE Routed'
    <2>1. /\ stratHeld' = [stratHeld EXCEPT ![s] = None] /\ UNCHANGED <<shardOf, market>>
      BY <1>5 DEF StratPush, config
    <2>2. PICK e \in Events : e = stratHeld[s]
      BY <1>5, StratPushPaths
    <2>3. Range(Hand(e)) = {e} /\ Range(Hand(None)) = {}
      BY RangeOfHand
    <2>4. shardOf[e.sym] = s
      BY <2>2, <2>3 DEF Routed
    <2>5. CASE UNCHANGED decisions
      BY <1>1, <2>1, <2>3, <2>5 DEF Routed
    <2>6. ASSUME NEW d \in Events, d.sym = e.sym,
                 decisions' = [decisions EXCEPT ![s] = Append(@, d)]
          PROVE  Routed'
      <3>1. Range(Append(decisions[s], d)) = Range(decisions[s]) \cup {d}
        BY <1>1, RangeOfEnds
      <3> QED BY <1>1, <2>1, <2>3, <2>4, <2>6, <3>1 DEF Routed
    <2>7. \/ UNCHANGED decisions
          \/ \E d \in Events : /\ d.sym = e.sym
                              /\ decisions' = [decisions EXCEPT ![s] = Append(@, d)]
      BY <1>5, <2>2, StratPushPaths, ZenonT(40)
    <2> QED BY <2>5, <2>6, <2>7
  <1>6. CASE OmsTakes
    <2>1. PICK q \in Shards : decisions[q] # <<>> /\ decisions' = [decisions EXCEPT ![q] = Tail(@)]
      BY <1>6, OmsTakesPaths
    <2>2. Range(decisions[q]) = Range(Tail(decisions[q])) \cup {Head(decisions[q])}
      BY <1>1, <2>1, RangeOfEnds
    <2>3. UNCHANGED <<shardOf, stratHeld, market>>
      BY <1>6 DEF OmsTakes, OmsPop, config, stratVars
    <2> QED BY <1>1, <2>1, <2>2, <2>3 DEF Routed
  <1>7. CASE OmsPush \/ TradePop
    BY <1>7 DEF OmsPush, TradePop, config, stratVars, Routed
  <1> QED BY <1>2, <1>3, <1>4, <1>5, <1>6, <1>7, StepKinds

------------------------------------------------------------------------------
(***************************************************************************)
(* Order and count along the paths.                                        *)
(***************************************************************************)
Numbered ==
    \A sym \in Symbols : fate.last[sym] <= seq[sym] /\ fate.made[sym] <= seq[sym]

Ordered ==
    \A s \in Shards : InOrder(Path(s)) /\ Within(Path(s), fate.last, seq)

Counted ==
    \A sym \in Symbols :
        fate.made[sym] = fate.sent[sym] + fate.lost[sym] + Count(sym, Path(Route(sym)))

PathInv == PipeType /\ Routed /\ Numbered /\ Ordered /\ Counted

LEMMA OrderedIs == Ordered <=> SymbolOrderKept
  BY DEF Ordered, SymbolOrderKept, InOrder, Within

LEMMA PathInvInit == Init => PathInv
  <1> SUFFICES ASSUME Init PROVE PathInv
    OBVIOUS
  <1>1. PipeType
    BY TypeAtInit
  <1>2. ASSUME NEW s \in Shards PROVE Path(s) = <<>>
    <2>1. Path(s) = <<>> \o <<>> \o <<>> \o <<>> \o <<>>
      BY RangeOfHand DEF Init, Path
    <2>2. <<>> \o <<>> = <<>>
      BY EmptyIsSeq, ConcatEmptySeq
    <2> QED BY <2>1, <2>2
  <1>3. Routed
    BY RangeOfHand DEF Init, Routed
  <1>4. Numbered
    BY DEF Init, Numbered
  <1>5. Ordered
    BY <1>2, NoEvents DEF Ordered
  <1>6. Counted
    <2> SUFFICES ASSUME NEW sym \in Symbols
                 PROVE  fate.made[sym] = fate.sent[sym] + fate.lost[sym]
                                             + Count(sym, Path(Route(sym)))
      BY DEF Counted
    <2>1. Route(sym) \in Shards
      BY <1>1 DEF PipeType, ThreadsOK, Route
    <2>2. Count(sym, Path(Route(sym))) = 0
      BY <1>2, <2>1, CountOne
    <2>3. fate.made[sym] = 0 /\ fate.sent[sym] = 0 /\ fate.lost[sym] = 0
      BY DEF Init
    <2> QED BY <2>2, <2>3
  <1> QED BY <1>1, <1>3, <1>4, <1>5, <1>6 DEF PathInv

(* What the invariant says of one symbol, with the numbers named. *)
LEMMA CountedFor ==
    ASSUME PathInv, NEW sym \in Symbols
    PROVE  /\ Route(sym) \in Shards /\ Path(Route(sym)) \in Seq(Events)
           /\ Count(sym, Path(Route(sym))) \in Nat
           /\ fate.made[sym] \in Nat /\ fate.sent[sym] \in Nat /\ fate.lost[sym] \in Nat
           /\ fate.last[sym] \in Nat /\ seq[sym] \in Nat
           /\ fate.made[sym] = fate.sent[sym] + fate.lost[sym] + Count(sym, Path(Route(sym)))
  <1>1. Route(sym) \in Shards /\ seq[sym] \in 0..MaxSeq /\ MaxSeq \in Nat
    BY PipelineAssumption DEF PathInv, PipeType, ThreadsOK, Route
  <1>2. PICK p : p = Path(Route(sym))
    OBVIOUS
  <1>3. p \in Seq(Events)
    BY <1>1, <1>2, PathTypes DEF PathInv
  <1>4. Count(sym, p) \in Nat
    BY <1>3, CountType
  <1>5. /\ fate.made[sym] \in Nat /\ fate.sent[sym] \in Nat
        /\ fate.lost[sym] \in Nat /\ fate.last[sym] \in Nat
    BY DEF PathInv, PipeType, Counters
  <1> QED BY <1>1, <1>2, <1>3, <1>4, <1>5 DEF PathInv, Counted

(* A step that only changes what the events on the paths weigh. *)
LEMMA SamePathsStep ==
    ASSUME PathInv, UNCHANGED <<seq, fate, shardOf>>,
           \A s \in Shards : Path(s)' = Path(s)
    PROVE  Numbered' /\ Ordered' /\ Counted'
  <1>1. Numbered'
    BY DEF PathInv, Numbered
  <1>2. Ordered'
    BY DEF PathInv, Ordered
  <1>3. ASSUME NEW sym \in Symbols
        PROVE  fate'.made[sym] = fate'.sent[sym] + fate'.lost[sym]
                                     + Count(sym, Path(Route(sym))')
    <2>1. PICK q \in Shards : q = Route(sym)
      BY <1>3, CountedFor
    <2>2. Route(sym)' = q /\ Path(Route(sym))' = Path(q)'
      BY <2>1 DEF Route, Path
    <2> QED BY <2>1, <2>2, CountedFor
  <1> QED BY <1>1, <1>2, <1>3 DEF Counted

(* Losing an event. *)
LEMMA LoseStep ==
    ASSUME PathInv, NEW e \in Events, UNCHANGED <<seq, shardOf>>,
           fate' = [fate EXCEPT !.lost[e.sym] = @ + 1],
           Replaces(Path(Route(e.sym)), Path(Route(e.sym))', <<e>>, <<>>),
           \A s \in Shards : \/ Path(s)' = Path(s) /\ s # Route(e.sym)
                             \/ Replaces(Path(s), Path(s)', <<e>>, <<>>)
    PROVE  Numbered' /\ Ordered' /\ Counted'
  <1>1. e.sym \in Symbols
    BY DEF Events
  <1>2. /\ fate'.made = fate.made /\ fate'.sent = fate.sent /\ fate'.last = fate.last
        /\ fate'.lost = [fate.lost EXCEPT ![e.sym] = @ + 1]
    BY <1>1, FateLost DEF PathInv, PipeType
  <1>3. Numbered'
    BY <1>2 DEF PathInv, Numbered
  <1>4. Ordered'
    <2> SUFFICES ASSUME NEW s \in Shards
                 PROVE  InOrder(Path(s)') /\ Within(Path(s)', fate'.last, seq')
      BY DEF Ordered
    <2>1. PICK p, p2 : p = Path(s) /\ p2 = Path(s)'
      OBVIOUS
    <2>2. InOrder(p) /\ Within(p, fate.last, seq)
      BY <2>1 DEF PathInv, Ordered
    <2>3. p2 = p \/ Replaces(p, p2, <<e>>, <<>>)
      BY <2>1
    <2>4. InOrder(p2) /\ Within(p2, fate.last, seq)
      BY <2>2, <2>3, OrderWithout
    <2> QED BY <1>2, <2>1, <2>4
  <1>5. ASSUME NEW sym \in Symbols
        PROVE  fate'.made[sym] = fate'.sent[sym] + fate'.lost[sym]
                                     + Count(sym, Path(Route(sym))')
    <2>1. PICK q \in Shards : q = Route(sym)
      BY <1>5, CountedFor
    <2>2. Route(sym)' = q /\ Path(Route(sym))' = Path(q)'
      BY <2>1 DEF Route, Path
    <2>3. PICK p, p2 : p = Path(q) /\ p2 = Path(q)'
      OBVIOUS
    <2>4. Count(sym, <<e>>) = (IF e.sym = sym THEN 1 ELSE 0) /\ Count(sym, <<>>) = 0
      BY CountOne
    <2>5. Count(sym, p) = Count(sym, p2) + (IF e.sym = sym THEN 1 ELSE 0)
          /\ Count(sym, p2) \in Nat
      <3>1. CASE Replaces(p, p2, <<e>>, <<>>)
        <4>1. PICK X, Y \in Seq(Events) : X = <<e>> /\ Y = <<>>
          BY OneEvent, EmptyIsSeq
        <4>2. Replaces(p, p2, X, Y)
          BY <3>1, <4>1
        <4>3. Count(sym, p2) + Count(sym, X) = Count(sym, p) + Count(sym, Y)
          BY <4>2, CountReplaced
        <4>4. Count(sym, p) \in Nat /\ Count(sym, p2) \in Nat
          BY <4>2, ReplacedType, CountType
        <4> QED BY <2>4, <4>1, <4>3, <4>4
      <3>2. CASE p2 = p /\ q # Route(e.sym)
        <4>1. e.sym # sym
          BY <2>1, <3>2
        <4>2. Count(sym, p) \in Nat
          BY <2>1, <2>3, CountedFor
        <4> QED BY <3>2, <4>1, <4>2
      <3> QED BY <2>3, <3>1, <3>2
    <2>6. fate'.lost[sym] = fate.lost[sym] + (IF e.sym = sym THEN 1 ELSE 0)
      <3>1. fate.lost \in [Symbols -> Nat]
        BY DEF PathInv, PipeType, Counters
      <3> QED BY <1>1, <1>2, <1>5, <3>1
    <2>7. PICK m \in Nat, s \in Nat, l \in Nat, k \in Nat, d \in {0, 1} :
              /\ m = fate.made[sym] /\ s = fate.sent[sym] /\ l = fate.lost[sym]
              /\ k = Count(sym, p2) /\ d = (IF e.sym = sym THEN 1 ELSE 0)
      BY <2>1, <2>5, CountedFor
    <2>8. fate.made[sym] = fate.sent[sym] + fate.lost[sym] + Count(sym, p)
      BY <2>1, <2>3, CountedFor
    <2>9. m = s + l + (k + d)
      BY <2>5, <2>7, <2>8
    <2>10. m = s + (l + d) + k
      BY <2>9
    <2>11. fate'.made[sym] = m /\ fate'.sent[sym] = s /\ fate'.lost[sym] = l + d
      BY <1>2, <2>6, <2>7
    <2> QED BY <2>2, <2>3, <2>7, <2>10, <2>11
  <1> QED BY <1>3, <1>4, <1>5 DEF Counted

LEMMA StratPushStep ==
    ASSUME PathInv, NEW s \in Shards, StratPush(s)
    PROVE  Numbered' /\ Ordered' /\ Counted'
  <1>1. PipeType /\ UNCHANGED <<seq, shardOf>>
    BY DEF PathInv, StratPush, config, feedVars
  <1>2. \A t \in Shards \ {s} : Path(t)' = Path(t)
    BY <1>1, StratPushPaths
  <1>3. PICK e \in Events :
            /\ e = stratHeld[s]
            /\ \/ /\ UNCHANGED fate
                  /\ \E d \in Events :
                        /\ d.sym = e.sym /\ d.seq = e.seq
                        /\ Replaces(Path(s), Path(s)', <<e>>, <<d>>)
               \/ /\ fate' = Lost(e.sym)
                  /\ Replaces(Path(s), Path(s)', <<e>>, <<>>)
    BY <1>1, StratPushPaths
  <1>4. Route(e.sym) = s
    <2>1. Range(Hand(e)) = {e}
      BY RangeOfHand
    <2> QED BY <1>3, <2>1 DEF PathInv, Routed, Route
  <1>5. CASE fate' = Lost(e.sym) /\ Replaces(Path(s), Path(s)', <<e>>, <<>>)
    <2>1. fate' = [fate EXCEPT !.lost[e.sym] = @ + 1]
      BY <1>5 DEF Lost
    <2>2. \A t \in Shards : \/ Path(t)' = Path(t) /\ t # Route(e.sym)
                            \/ Replaces(Path(t), Path(t)', <<e>>, <<>>)
      BY <1>2, <1>4, <1>5
    <2>3. Replaces(Path(Route(e.sym)), Path(Route(e.sym))', <<e>>, <<>>)
      <3>1. Path(Route(e.sym)) = Path(s) /\ Path(Route(e.sym))' = Path(s)'
        BY <1>1, <1>4 DEF Path, Route
      <3> QED BY <1>5, <3>1
    <2> QED BY <1>1, <2>1, <2>2, <2>3, LoseStep
  <1>6. ASSUME UNCHANGED fate, NEW d \in Events, d.sym = e.sym, d.seq = e.seq,
               Replaces(Path(s), Path(s)', <<e>>, <<d>>)
        PROVE  Numbered' /\ Ordered' /\ Counted'
    <2>1. PICK p, p2 : p = Path(s) /\ p2 = Path(s)'
      OBVIOUS
    <2>2. PICK X, Y \in Seq(Events) : X = <<e>> /\ Y = <<d>>
      BY OneEvent
    <2>3. Replaces(p, p2, X, Y)
      BY <1>6, <2>1, <2>2
    <2>4. Numbered'
      BY <1>1, <1>6 DEF PathInv, Numbered
    <2>5. InOrder(p2) /\ Within(p2, fate.last, seq)
      <3>1. InOrder(p) /\ Within(p, fate.last, seq)
        BY <2>1 DEF PathInv, Ordered
      <3> QED BY <1>6, <2>2, <2>3, <3>1, OrderResized
    <2>6. Ordered'
      BY <1>1, <1>2, <1>6, <2>1, <2>5 DEF PathInv, Ordered
    <2>7. ASSUME NEW sym \in Symbols
          PROVE  fate'.made[sym] = fate'.sent[sym] + fate'.lost[sym]
                                       + Count(sym, Path(Route(sym))')
      <3>1. PICK q \in Shards : q = Route(sym)
        BY <2>7, CountedFor
      <3>2. Route(sym)' = q /\ Path(Route(sym))' = Path(q)'
        BY <1>1, <3>1 DEF Route, Path
      <3>3. CASE q # s
        BY <1>2, <1>6, <3>1, <3>2, <3>3, CountedFor
      <3>4. CASE q = s
        <4>1. Count(sym, X) = (IF e.sym = sym THEN 1 ELSE 0)
          BY <2>2, CountOne
        <4>2. Count(sym, Y) = (IF e.sym = sym THEN 1 ELSE 0)
          BY <1>6, <2>2, CountOne
        <4>3. Count(sym, p2) + Count(sym, X) = Count(sym, p) + Count(sym, Y)
          BY <2>3, CountReplaced
        <4>4. Count(sym, p) \in Nat /\ Count(sym, p2) \in Nat
          BY <2>3, ReplacedType, CountType
        <4>5. Count(sym, p2) = Count(sym, p)
          BY <4>1, <4>2, <4>3, <4>4
        <4> QED BY <1>6, <2>1, <3>1, <3>2, <3>4, <4>5, CountedFor
      <3> QED BY <3>3, <3>4
    <2> QED BY <2>4, <2>6, <2>7 DEF Counted
  <1> QED BY <1>3, <1>5, <1>6

LEMMA OmsPushStep ==
    ASSUME PathInv, OmsPush
    PROVE  Numbered' /\ Ordered' /\ Counted'
  <1>1. PipeType /\ UNCHANGED <<seq, shardOf>>
    BY DEF PathInv, OmsPush, config, feedVars
  <1>2. PICK e \in Events :
            \/ /\ UNCHANGED fate
               /\ \A s \in Shards : Path(s)' = Path(s)
            \/ /\ fate' = Lost(e.sym)
               /\ \A s \in Shards : Replaces(Path(s), Path(s)', <<e>>, <<>>)
    BY <1>1, OmsPushPaths
  <1>3. CASE UNCHANGED fate /\ \A s \in Shards : Path(s)' = Path(s)
    BY <1>1, <1>3, SamePathsStep
  <1>4. CASE /\ fate' = Lost(e.sym)
             /\ \A s \in Shards : Replaces(Path(s), Path(s)', <<e>>, <<>>)
    <2>1. fate' = [fate EXCEPT !.lost[e.sym] = @ + 1]
      BY <1>4 DEF Lost
    <2>2. PICK q \in Shards : q = Route(e.sym)
      BY <1>1 DEF PipeType, ThreadsOK, Route, Events
    <2>3. Path(Route(e.sym)) = Path(q) /\ Path(Route(e.sym))' = Path(q)'
      BY <1>1, <2>2 DEF Path, Route
    <2>4. Replaces(Path(Route(e.sym)), Path(Route(e.sym))', <<e>>, <<>>)
      BY <1>4, <2>3
    <2> QED BY <1>1, <1>4, <2>1, <2>4, LoseStep
  <1> QED BY <1>2, <1>3, <1>4

(* The order taken off is the oldest of its symbol: its number is the last *)
(* one sent, and everything still on the way is later.                     *)
LEMMA TradePopStep ==
    ASSUME PathInv, TradePop
    PROVE  Numbered' /\ Ordered' /\ Counted'
  <1>1. PipeType /\ UNCHANGED <<seq, shardOf>>
    BY DEF PathInv, TradePop, config, feedVars
  <1>2. PICK e \in Events :
            /\ fate' = [fate EXCEPT !.sent[e.sym] = @ + 1, !.last[e.sym] = e.seq]
            /\ \A s \in Shards :
                  /\ Path(s)' \in Seq(Events)
                  /\ Path(s) = <<e>> \o Path(s)'
    BY <1>1, TradePopPaths
  <1>3. e.sym \in Symbols /\ e.seq \in Nat
    BY DEF Events
  <1>4. /\ fate'.made = fate.made /\ fate'.lost = fate.lost
        /\ fate'.sent = [fate.sent EXCEPT ![e.sym] = @ + 1]
        /\ fate'.last = [fate.last EXCEPT ![e.sym] = e.seq]
    <2>1. PICK f \in Counters(Nat), sym \in Symbols, n \in Nat :
              f = fate /\ sym = e.sym /\ n = e.seq
      BY <1>1, <1>3 DEF PipeType
    <2>2. PICK h : h = [f EXCEPT !.sent[sym] = @ + 1]
      OBVIOUS
    <2>3. /\ h \in Counters(Nat) /\ h.sent = [f.sent EXCEPT ![sym] = @ + 1]
          /\ h.made = f.made /\ h.lost = f.lost /\ h.last = f.last
      BY <2>2 DEF Counters
    <2>4. fate' = [h EXCEPT !.last[sym] = n]
      BY <1>2, <2>1, <2>2
    <2>5. /\ fate'.last = [h.last EXCEPT ![sym] = n]
          /\ fate'.made = h.made /\ fate'.lost = h.lost /\ fate'.sent = h.sent
      BY <2>3, <2>4 DEF Counters
    <2> QED BY <2>1, <2>3, <2>5
  <1>5. ASSUME NEW s \in Shards
        PROVE  /\ InOrder(Path(s)') /\ Before(<<e>>, Path(s)')
               /\ Within(Path(s)', fate.last, seq) /\ Within(<<e>>, fate.last, seq)
    <2>1. PICK p2 \in Seq(Events) : p2 = Path(s)'
      BY <1>2
    <2>2. <<e>> \in Seq(Events)
      BY OneEvent
    <2>3. InOrder(<<e>> \o p2) /\ Within(<<e>> \o p2, fate.last, seq)
      BY <1>2, <2>1 DEF PathInv, Ordered
    <2>4. InOrder(p2) /\ Before(<<e>>, p2)
      BY <2>2, <2>3, InOrderConcat
    <2>5. Within(p2, fate.last, seq) /\ Within(<<e>>, fate.last, seq)
      BY <2>2, <2>3, WithinConcat
    <2> QED BY <2>1, <2>4, <2>5
  <1>6. e.seq <= seq[e.sym]
    <2>1. ShardList[1] \in Shards
      BY ListFacts
    <2>2. Within(<<e>>, fate.last, seq)
      BY <1>5, <2>1
    <2> QED BY <2>2, OneEvent
  <1>7. Numbered'
    BY <1>1, <1>3, <1>4, <1>6 DEF PathInv, Numbered, PipeType, Counters
  <1>8. Ordered'
    <2> SUFFICES ASSUME NEW s \in Shards PROVE Within(Path(s)', fate'.last, seq')
      BY <1>5 DEF Ordered
    <2>1. PICK p2 \in Seq(Events) : p2 = Path(s)'
      BY <1>2
    <2>2. Before(<<e>>, p2) /\ Within(p2, fate.last, seq)
      BY <1>5, <2>1
    <2>3. ASSUME NEW i \in DOMAIN p2
          PROVE  fate'.last[p2[i].sym] < p2[i].seq /\ p2[i].seq <= seq[p2[i].sym]
      <3>1. fate.last[p2[i].sym] < p2[i].seq /\ p2[i].seq <= seq[p2[i].sym]
        BY <2>2 DEF Within
      <3>2. e.sym = p2[i].sym => e.seq < p2[i].seq
        <4>1. DOMAIN <<e>> = {1} /\ <<e>>[1] = e
          OBVIOUS
        <4> QED BY <2>2, <4>1 DEF Before
      <3>3. p2[i].sym \in Symbols
        <4>1. DOMAIN p2 = 1..Len(p2)
          BY LenProperties
        <4>2. p2[i] \in Events
          BY <4>1, ElementOfSeq
        <4> QED BY <4>2 DEF Events
      <3>4. fate.last \in [Symbols -> Nat]
        BY <1>1 DEF PipeType, Counters
      <3> QED BY <1>4, <3>1, <3>2, <3>3, <3>4
    <2> QED BY <1>1, <2>1, <2>3 DEF Within
  <1>9. ASSUME NEW sym \in Symbols
        PROVE  fate'.made[sym] = fate'.sent[sym] + fate'.lost[sym]
                                     + Count(sym, Path(Route(sym))')
    <2>1. PICK q \in Shards : q = Route(sym)
      BY <1>9, CountedFor
    <2>2. Route(sym)' = q /\ Path(Route(sym))' = Path(q)'
      BY <1>1, <2>1 DEF Route, Path
    <2>3. PICK p2 \in Seq(Events) : p2 = Path(q)'
      BY <1>2
    <2>4. PICK X \in Seq(Events) : X = <<e>>
      BY OneEvent
    <2>5. Count(sym, X) = (IF e.sym = sym THEN 1 ELSE 0)
      BY <2>4, CountOne
    <2>6. Count(sym, X \o p2) = Count(sym, X) + Count(sym, p2)
      BY CountConcat
    <2>7. Count(sym, Path(q)) = Count(sym, X) + Count(sym, p2)
      BY <1>2, <2>3, <2>4, <2>6
    <2>8. Count(sym, p2) \in Nat
      BY CountType
    <2>9. fate'.sent[sym] = fate.sent[sym] + (IF e.sym = sym THEN 1 ELSE 0)
      BY <1>1, <1>3, <1>4, <1>9 DEF PipeType, Counters
    <2>10. /\ fate.made[sym] = fate.sent[sym] + fate.lost[sym] + Count(sym, Path(q))
           /\ fate.made[sym] \in Nat /\ fate.sent[sym] \in Nat /\ fate.lost[sym] \in Nat
      BY <2>1, CountedFor
    <2> QED BY <1>4, <2>2, <2>3, <2>5, <2>7, <2>8, <2>9, <2>10
  <1> QED BY <1>7, <1>8, <1>9 DEF Counted

(* The decision in hand comes in front of the other shards' events; they   *)
(* are of other symbols.                                                   *)
LEMMA OmsTakesStep ==
    ASSUME PathInv, OmsTakes
    PROVE  Numbered' /\ Ordered' /\ Counted'
  <1>1. PipeType /\ UNCHANGED <<seq, fate, shardOf>>
    BY DEF PathInv, OmsTakes, OmsPop, config, feedVars
  <1>2. PICK q \in Shards, e \in Events :
            /\ decisions[q] # <<>> /\ e = Head(decisions[q])
            /\ Path(q)' = Path(q)
            /\ \E B \in Seq(Events) : Path(q) = orderQ \o <<e>> \o B
            /\ \A t \in Shards \ {q} :
                  /\ Path(t) = orderQ \o <<>> \o Own(t)
                  /\ Path(t)' = orderQ \o <<e>> \o Own(t)
    BY <1>1, OmsTakesPaths
  <1>3. shardOf[e.sym] = q
    <2>1. decisions[q] \in Seq(Events)
      BY <1>1, PathTypes
    <2>2. e \in Range(decisions[q])
      BY <1>2, <2>1, RangeOfEnds
    <2> QED BY <2>2 DEF PathInv, Routed
  <1>4. PICK O \in Seq(Events) : O = orderQ
    BY <1>1, PathTypes
  <1>5. Before(O, <<e>>) /\ fate.last[e.sym] < e.seq /\ e.seq <= seq[e.sym]
    <2>1. PICK B \in Seq(Events), X \in Seq(Events) : Path(q) = O \o X \o B /\ X = <<e>>
      BY <1>2, <1>4, OneEvent
    <2>2. InOrder(O \o X \o B) /\ Within(O \o X \o B, fate.last, seq)
      BY <2>1 DEF PathInv, Ordered
    <2>3. Before(O, X) /\ Within(X, fate.last, seq)
      BY <2>2, ThreeParts
    <2> QED BY <2>1, <2>3, OneEvent
  <1>6. Numbered'
    BY <1>1 DEF PathInv, Numbered
  <1>7. Ordered'
    <2> SUFFICES ASSUME NEW t \in Shards
                 PROVE  InOrder(Path(t)') /\ Within(Path(t)', fate.last, seq)
      BY <1>1 DEF Ordered
    <2>1. InOrder(Path(t)) /\ Within(Path(t), fate.last, seq)
      BY DEF PathInv, Ordered
    <2>2. CASE t = q
      BY <1>2, <2>1, <2>2
    <2>3. CASE t # q
      <3>1. PICK B \in Seq(Events) : B = Own(t)
        BY <1>1, PathTypes
      <3>2. PICK p, p2 : p = Path(t) /\ p2 = Path(t)' /\ Inserts(p, p2, O, e, B)
        BY <1>2, <1>4, <2>3, <3>1 DEF Inserts
      <3>3. \A i \in DOMAIN B : B[i].sym # e.sym
        BY <1>1, <1>3, <2>3, <3>1, RangeOfOwn DEF PathInv
      <3>4. InOrder(p) /\ Within(p, fate.last, seq)
        BY <2>1, <3>2
      <3>5. InOrder(p2) /\ Within(p2, fate.last, seq)
        BY <1>5, <3>2, <3>3, <3>4, OrderWithOther
      <3> QED BY <3>2, <3>5
    <2> QED BY <2>2, <2>3
  <1>8. ASSUME NEW sym \in Symbols
        PROVE  fate'.made[sym] = fate'.sent[sym] + fate'.lost[sym]
                                     + Count(sym, Path(Route(sym))')
    <2>1. PICK t \in Shards : t = Route(sym)
      BY <1>8, CountedFor
    <2>2. Route(sym)' = t /\ Path(Route(sym))' = Path(t)'
      BY <1>1, <2>1 DEF Route, Path
    <2>3. CASE t = q
      BY <1>1, <1>2, <2>1, <2>2, <2>3, CountedFor
    <2>4. CASE t # q
      <3>1. PICK X, Y \in Seq(Events) : X = <<>> /\ Y = <<e>>
        BY OneEvent, EmptyIsSeq
      <3>2. PICK p, p2 : p = Path(t) /\ p2 = Path(t)'
        OBVIOUS
      <3>3. Replaces(p, p2, X, Y)
        <4>1. PICK B \in Seq(Events) : B = Own(t)
          BY <1>1, PathTypes
        <4>2. p = O \o X \o B /\ p2 = O \o Y \o B
          BY <1>2, <1>4, <2>4, <3>1, <3>2, <4>1
        <4> QED BY <4>2 DEF Replaces
      <3>4. e.sym # sym
        BY <1>3, <2>1, <2>4 DEF Route
      <3>5. Count(sym, X) = 0 /\ Count(sym, Y) = 0
        BY <3>1, <3>4, CountOne
      <3>6. Count(sym, p2) + Count(sym, X) = Count(sym, p) + Count(sym, Y)
        BY <3>3, CountReplaced
      <3>7. Count(sym, p) \in Nat /\ Count(sym, p2) \in Nat
        BY <3>3, ReplacedType, CountType
      <3>8. Count(sym, p2) = Count(sym, p)
        BY <3>5, <3>6, <3>7
      <3> QED BY <1>1, <2>1, <2>2, <3>2, <3>8, CountedFor
    <2> QED BY <2>3, <2>4
  <1> QED BY <1>6, <1>7, <1>8 DEF Counted

LEMMA OneMoreEach ==
    \A m, s, l, k \in Nat :
        m = s + l + k => m + 1 = s + l + (k + 1) /\ m + 1 = s + (l + 1) + k
  OBVIOUS

(* A new event has the largest number of its symbol. *)
LEMMA PublishStepKeeps ==
    ASSUME PathInv, PublishStep
    PROVE  Numbered' /\ Ordered' /\ Counted'
  <1>1. PICK sym \in Symbols, n \in 1..MaxSeq, size \in Nat :
            seq[sym] < n /\ Publishes(sym, n, size)
    BY DEF PublishStep
  <1>2. PipeType /\ UNCHANGED shardOf
    BY <1>1 DEF PathInv, Publishes
  <1>3. PICK q \in Shards, e \in Events, made \in Counters(Nat) :
            /\ q = Route(sym) /\ e = NewEvent(sym, n, size) /\ made = OneMore(sym)
            /\ seq' = [seq EXCEPT ![sym] = n]
            /\ \A t \in Shards \ {q} : Path(t)' = Path(t)
            /\ \/ fate' = made /\ Path(q)' = Path(q) \o <<e>>
               \/ fate' = [made EXCEPT !.lost[sym] = @ + 1] /\ Path(q)' = Path(q)
    BY <1>1, <1>2, PublishPaths
  <1>5. e.sym = sym /\ e.seq = n /\ n \in Nat
    BY <1>3 DEF NewEvent
  <1>7. /\ seq' = [seq EXCEPT ![sym] = n]
        /\ \A t \in Shards \ {q} : Path(t)' = Path(t)
        /\ \/ fate' = made /\ Path(q)' = Path(q) \o <<e>>
           \/ fate' = [made EXCEPT !.lost[sym] = @ + 1] /\ Path(q)' = Path(q)
    BY <1>3
  <1>8. /\ made.made = [fate.made EXCEPT ![sym] = @ + 1]
        /\ made.sent = fate.sent /\ made.lost = fate.lost /\ made.last = fate.last
    <2>1. fate \in Counters(Nat)
      BY <1>2 DEF PipeType
    <2>2. made = [fate EXCEPT !.made[sym] = @ + 1]
      BY <1>3 DEF OneMore
    <2> QED BY <2>1, <2>2, FateMade
  <1>9. /\ fate'.made = made.made /\ fate'.sent = made.sent /\ fate'.last = made.last
        /\ \/ fate'.lost = made.lost /\ Path(q)' = Path(q) \o <<e>>
           \/ fate'.lost = [made.lost EXCEPT ![sym] = @ + 1] /\ Path(q)' = Path(q)
    BY <1>7, <1>8, FateLost
  <1>10. /\ seq \in [Symbols -> 0..MaxSeq] /\ MaxSeq \in Nat /\ fate \in Counters(Nat)
    BY <1>2, PipelineAssumption DEF PipeType, ThreadsOK
  <1>11. Numbered'
    BY <1>1, <1>5, <1>7, <1>8, <1>9, <1>10 DEF PathInv, Numbered, Counters
  <1>12. ASSUME NEW t \in Shards PROVE Within(Path(t), fate.last, seq')
    <2>1. PICK p \in Seq(Events) : p = Path(t)
      BY <1>2, PathTypes
    <2>2. Within(p, fate.last, seq)
      BY <2>1 DEF PathInv, Ordered
    <2>3. ASSUME NEW i \in DOMAIN p
          PROVE  fate.last[p[i].sym] < p[i].seq /\ p[i].seq <= seq'[p[i].sym]
      <3>1. DOMAIN p = 1..Len(p)
        BY LenProperties
      <3>2. p[i] \in Events
        BY <3>1, ElementOfSeq
      <3>3. p[i].sym \in Symbols /\ p[i].seq \in Nat
        BY <3>2 DEF Events
      <3>4. fate.last[p[i].sym] < p[i].seq /\ p[i].seq <= seq[p[i].sym]
        BY <2>2 DEF Within
      <3>5. seq[p[i].sym] <= seq'[p[i].sym] /\ seq[p[i].sym] \in Nat /\ seq'[p[i].sym] \in Nat
        BY <1>1, <1>5, <1>7, <1>10, <3>3
      <3> QED BY <3>3, <3>4, <3>5
    <2> QED BY <2>1, <2>3 DEF Within
  <1>13. Ordered'
    <2> SUFFICES ASSUME NEW t \in Shards
                 PROVE  InOrder(Path(t)') /\ Within(Path(t)', fate.last, seq')
      BY <1>8, <1>9 DEF Ordered
    <2>1. InOrder(Path(t))
      BY DEF PathInv, Ordered
    <2>2. CASE Path(t)' = Path(t)
      BY <1>12, <2>1, <2>2
    <2>3. CASE t = q /\ Path(q)' = Path(q) \o <<e>>
      <3>1. PICK p \in Seq(Events), X \in Seq(Events) : p = Path(q) /\ X = <<e>>
        BY <1>2, PathTypes, OneEvent
      <3>2. DOMAIN X = {1} /\ X[1] = e /\ InOrder(X)
        BY <3>1, OneEvent
      <3>3. Before(p, X)
        <4>1. ASSUME NEW i \in DOMAIN p, p[i].sym = e.sym PROVE p[i].seq < e.seq
          <5>1. DOMAIN p = 1..Len(p)
            BY LenProperties
          <5>2. p[i] \in Events
            BY <5>1, ElementOfSeq
          <5>3. p[i].seq \in Nat
            BY <5>2 DEF Events
          <5>4. Within(p, fate.last, seq)
            BY <3>1 DEF PathInv, Ordered
          <5>5. p[i].seq <= seq[sym]
            BY <1>5, <4>1, <5>4 DEF Within
          <5>6. seq[sym] < n /\ seq[sym] \in Nat
            BY <1>1, <1>10
          <5> QED BY <1>5, <5>3, <5>5, <5>6
        <4> QED BY <3>2, <4>1 DEF Before
      <3>4. Within(X, fate.last, seq')
        <4>1. fate.last[sym] <= seq[sym] /\ seq[sym] < n /\ seq'[sym] = n
          BY <1>1, <1>7, <1>10 DEF PathInv, Numbered
        <4>2. fate.last[sym] \in Nat /\ seq[sym] \in Nat
          BY CountedFor
        <4> QED BY <1>5, <3>2, <4>1, <4>2 DEF Within
      <3>5. InOrder(p \o X)
        BY <2>1, <2>3, <3>1, <3>2, <3>3, InOrderConcat
      <3>6. Within(p, fate.last, seq')
        BY <1>12, <3>1
      <3>7. Within(p \o X, fate.last, seq')
        BY <3>4, <3>6, WithinConcat
      <3> QED BY <2>3, <3>1, <3>5, <3>7
    <2> QED BY <1>7, <2>2, <2>3
  <1>14. ASSUME NEW x \in Symbols
         PROVE  fate'.made[x] = fate'.sent[x] + fate'.lost[x] + Count(x, Path(Route(x))')
    <2>1. PICK t \in Shards : t = Route(x)
      BY <1>14, CountedFor
    <2>2. Count(x, Path(Route(x))') = Count(x, Path(t)')
      <3>1. Path(Route(x))' = Path(t)'
        BY <1>2, <2>1 DEF Route, Path
      <3> QED BY <3>1
    <2>3. PICK m \in Nat, s \in Nat, l \in Nat, k \in Nat :
              /\ m = fate.made[x] /\ s = fate.sent[x] /\ l = fate.lost[x]
              /\ k = Count(x, Path(t)) /\ m = s + l + k
      BY <1>14, <2>1, CountedFor
    <2>4. m + 1 = s + l + (k + 1) /\ m + 1 = s + (l + 1) + k
      BY <2>3, OneMoreEach
    <2>5. PICK p \in Seq(Events), X \in Seq(Events) : p = Path(t) /\ X = <<e>>
      BY <1>2, PathTypes, OneEvent
    <2>6. Count(x, p \o X) = k + Count(x, X)
      BY <2>3, <2>5, CountConcat
    <2>7. Count(x, X) = (IF sym = x THEN 1 ELSE 0)
      BY <1>5, <2>5, CountOne
    <2>8. fate'.sent[x] = s
      BY <1>8, <1>9, <2>3
    <2>9. CASE x = sym
      <3>1. t = q
        BY <1>3, <2>1, <2>9
      <3>2. fate'.made[x] = m + 1
        BY <1>8, <1>9, <1>10, <2>3, <2>9 DEF Counters
      <3>3. CASE fate'.lost = made.lost /\ Path(q)' = Path(q) \o <<e>>
        <4>1. Count(x, Path(t)') = k + 1
          BY <2>5, <2>6, <2>7, <2>9, <3>1, <3>3
        <4>2. fate'.lost[x] = l
          BY <1>8, <2>3, <3>3
        <4> QED BY <2>2, <2>8, <2>4, <3>2, <4>1, <4>2
      <3>4. CASE fate'.lost = [made.lost EXCEPT ![sym] = @ + 1] /\ Path(q)' = Path(q)
        <4>1. Count(x, Path(t)') = k
          BY <2>3, <3>1, <3>4
        <4>2. fate'.lost[x] = l + 1
          BY <1>8, <1>10, <2>3, <2>9, <3>4 DEF Counters
        <4> QED BY <2>2, <2>8, <2>4, <3>2, <4>1, <4>2
      <3> QED BY <1>9, <3>3, <3>4
    <2>10. CASE x # sym
      <3>1. fate'.made[x] = m
        BY <1>8, <1>9, <1>10, <2>3, <2>10 DEF Counters
      <3>2. fate'.lost[x] = l
        BY <1>8, <1>9, <1>10, <2>3, <2>10 DEF Counters
      <3>3. Count(x, Path(t)') = k
        <4>1. CASE Path(t)' = Path(t)
          BY <2>3, <4>1
        <4>2. CASE t = q /\ Path(q)' = Path(q) \o <<e>>
          <5>1. Count(x, X) = 0
            BY <2>7, <2>10
          <5>2. Path(t)' = p \o X
            BY <2>5, <4>2
          <5>3. Count(x, p \o X) = k
            BY <2>6, <5>1
          <5> QED BY <5>2, <5>3
        <4> QED BY <1>7, <4>1, <4>2
      <3> QED BY <2>2, <2>3, <2>8, <3>1, <3>2, <3>3
    <2> QED BY <2>9, <2>10
  <1> QED BY <1>11, <1>13, <1>14 DEF Counted

LEMMA PathInvKept == PathInv /\ [Next]_vars => PathInv'
  <1> SUFFICES ASSUME PathInv, [Next]_vars PROVE PathInv'
    OBVIOUS
  <1>1. PipeType' /\ Routed'
    BY TypeKept, RoutedKept DEF PathInv
  <1>2. PipeType
    BY DEF PathInv
  <1>3. ASSUME Still PROVE Numbered' /\ Ordered' /\ Counted'
    <2>1. \A s \in Shards : Path(s)' = Path(s)
      BY <1>2, <1>3, StillPaths
    <2>2. UNCHANGED <<seq, fate, shardOf>>
      BY <1>3 DEF Still
    <2> QED BY <2>1, <2>2, SamePathsStep
  <1>4. ASSUME NEW s \in Shards, StratPop(s) PROVE Numbered' /\ Ordered' /\ Counted'
    <2>1. UNCHANGED <<seq, fate, shardOf>>
      BY <1>4 DEF StratPop, config, feedVars
    <2>2. \A t \in Shards : Path(t)' = Path(t)
      BY <1>2, <1>4, StratPopPaths
    <2> QED BY <2>1, <2>2, SamePathsStep
  <1>5. Numbered' /\ Ordered' /\ Counted'
    BY <1>2, <1>3, <1>4, StepKinds, StratPushStep, OmsTakesStep, OmsPushStep,
       TradePopStep, PublishStepKeeps
  <1> QED BY <1>1, <1>5 DEF PathInv

(***************************************************************************)
(* The orders of a symbol stay in the order of its events, up to the last  *)
(* one sent: whatever shard shard_for_symbol gives a symbol, however the   *)
(* OMS's polling interleaves the shards, and whatever is dropped.          *)
(***************************************************************************)
THEOREM OrderIsKept == Spec => []SymbolOrderKept
  <1>1. PathInv => SymbolOrderKept
    BY OrderedIs DEF PathInv
  <1> QED BY <1>1, PathInvInit, PathInvKept, PTL DEF Spec

(* The counters stay within the bound: what is made is numbered, and what  *)
(* is sent or lost was made.                                               *)
LEMMA CountersBounded == PathInv => TypeOK
  <1> SUFFICES ASSUME PathInv PROVE fate \in Counters(0..MaxSeq)
    BY DEF PathInv, PipeType, TypeOK
  <1>1. ASSUME NEW sym \in Symbols
        PROVE  /\ fate.made[sym] \in 0..MaxSeq /\ fate.sent[sym] \in 0..MaxSeq
               /\ fate.lost[sym] \in 0..MaxSeq /\ fate.last[sym] \in 0..MaxSeq
    <2>1. fate.made[sym] <= seq[sym] /\ fate.last[sym] <= seq[sym]
      BY DEF PathInv, Numbered
    <2>2. seq[sym] \in 0..MaxSeq /\ MaxSeq \in Nat
      BY PipelineAssumption DEF PathInv, PipeType, ThreadsOK
    <2>3. PICK c \in Nat : c = Count(sym, Path(Route(sym)))
      BY CountedFor
    <2>4. /\ fate.made[sym] = fate.sent[sym] + fate.lost[sym] + c
          /\ fate.made[sym] \in Nat /\ fate.sent[sym] \in Nat
          /\ fate.lost[sym] \in Nat /\ fate.last[sym] \in Nat
      BY <2>3, CountedFor
    <2> QED BY <2>1, <2>2, <2>4
  <1>2. fate \in Counters(Nat)
    BY DEF PathInv, PipeType
  <1> QED BY <1>1, <1>2 DEF Counters

(***************************************************************************)
(* No event is lost from sight or seen twice: each one made was sent, was  *)
(* dropped at a full queue or by the risk check, or is on its way in       *)
(* exactly one place, and no queue is longer than its capacity.            *)
(***************************************************************************)
THEOREM NothingIsLost == Spec => []NothingVanishes
  <1>1. PathInv => NothingVanishes
    BY CountersBounded DEF PathInv, Counted, NothingVanishes
  <1> QED BY <1>1, PathInvInit, PathInvKept, PTL DEF Spec

==============================================================================
