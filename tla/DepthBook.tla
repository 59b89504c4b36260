------------------------------ MODULE DepthBook ------------------------------
(***************************************************************************)
(* The two OrderBooks fed with levels, none of which ever loses one.       *)
(* frame_work's is fed by the connector to the exchange's partial book     *)
(* stream (@depth5): a message lists the best levels of each side as they  *)
(* now are, and one that is worse or gone is just not listed.  hft_test's  *)
(* is fed by its MarketDataGenerator.                                      *)
(***************************************************************************)
EXTENDS Integers, FiniteSets, FiniteSetsExt

CONSTANTS Prices,   \* prices of levels
          Qtys,     \* quantities of levels; 0 where there is none
          Depth,    \* levels of a side that a message lists: 5
          MaxChanged, \* bound: levels that change from a message to the next
          TickSize, \* tick of the generator
          MaxMoves  \* bound: prices the generator makes

ASSUME DepthBookAssumption ==
  /\ Prices \subseteq Nat /\ IsFiniteSet(Prices) /\ Depth \in Nat \ {0}
  /\ {MaxChanged, TickSize, MaxMoves} \subseteq Nat
  /\ Qtys \subseteq Nat /\ 0 \in Qtys /\ IsFiniteSet(Qtys)

VARIABLES
  feeder,    \* "binance" or "synthetic"
  levels,    \* the book: the quantity at each <<side, price>> it has
  exch,      \* the exchange's book, 0 where there is nothing
  shown,     \* levels that some message applied has listed
  sure,      \* those the exchange has not changed since they were listed
  event,     \* what the last message made it publish: [bid, ask, qty], or <<>>
  px, moves, \* the generator's price, and how many it has made
  high, low  \* the range of its prices

bookVars == <<feeder, levels, exch, shown, sure, event, px, moves, high, low>>

Ladder == {"bid", "ask"} \X Prices
BidPrices(b) == {l[2] : l \in {x \in b : x[1] = "bid"}}
AskPrices(b) == {l[2] : l \in {x \in b : x[1] = "ask"}}
OnBook(e) == {l \in Ladder : e[l] > 0}
Uncrossed(b) == \A p \in BidPrices(b), q \in AskPrices(b) : p < q
Top(b) == [bid |-> Max(BidPrices(b)), ask |-> Min(AskPrices(b))]
TwoSided(b) == BidPrices(b) # {} /\ AskPrices(b) # {}

BookInit ==
  /\ feeder \in {"binance", "synthetic"}
  /\ levels = [l \in {} |-> 0]
  /\ IF feeder = "binance"
     THEN exch \in {e \in [Ladder -> {0, Max(Qtys)}] : Uncrossed(OnBook(e))}
     ELSE exch = [l \in Ladder |-> 0]
  /\ shown = {} /\ sure = {}
  /\ event = <<>> /\ moves = 0
  /\ px = 0 /\ high = 0 /\ low = 0

-----------------------------------------------------------------------------
\* Fault: quantities taken for changes.
AppliedFault(d) ==
  LET gone == {l \in DOMAIN d : d[l] = 0}
  IN [l \in (DOMAIN levels \cup DOMAIN d) \ gone |->
        IF l \notin DOMAIN d THEN levels[l]
        ELSE IF l \in DOMAIN levels THEN levels[l] + d[l] ELSE d[l]]
\* apply_deltas: quantities are absolute, 0 erases.
Applied(d) ==
  LET gone == {l \in DOMAIN d : d[l] = 0}
  IN [l \in (DOMAIN levels \cup DOMAIN d) \ gone |-> IF l \in DOMAIN d THEN d[l] ELSE levels[l]]

\* best(): nothing without both sides; the event has the smaller quantity.
Best(b) ==
  LET t == Top(DOMAIN b)
  IN IF ~TwoSided(DOMAIN b) THEN <<>>
     ELSE <<[bid |-> t.bid, ask |-> t.ask,
             qty |-> Min({b[<<"bid", t.bid>>], b[<<"ask", t.ask>>]})]>>

\* What the partial book stream lists of a book: of each side, the Depth best.
Better(k, l) == k[1] = l[1] /\ IF l[1] = "bid" THEN k[2] > l[2] ELSE k[2] < l[2]
Listed(e) == {l \in OnBook(e) : Cardinality({k \in OnBook(e) : Better(k, l)}) < Depth}

\* A message, after some levels changed.  handle_message parses it whole before
\* it applies any of it; one that does not parse is logged and dropped (so is
\* every one of a stream whose members are not called b, a and u).
HandleMessage ==
  /\ feeder = "binance"
  /\ \E changed \in {c \in SUBSET Ladder : Cardinality(c) <= MaxChanged} :
       \E d \in [changed -> Qtys] :
         /\ exch' = [l \in Ladder |-> IF l \in changed THEN d[l] ELSE exch[l]]
         /\ Uncrossed(OnBook(exch'))
         /\ \/ /\ levels' = Applied([l \in Listed(exch') |-> exch'[l]])
               /\ event' = Best(levels')
               /\ shown' = shown \cup Listed(exch')
               /\ sure' = (sure \ changed) \cup Listed(exch')
            \/ /\ sure' = sure \ changed
               /\ event' = <<>>
               /\ UNCHANGED <<levels, shown>>
  /\ UNCHANGED <<feeder, px, moves, high, low>>

\* MarketDataGenerator.next and Strategy.on_book: a level either side of the price.
NextDelta ==
  /\ feeder = "synthetic" /\ moves < MaxMoves
  /\ \E step \in -TickSize..TickSize :
       /\ px' = px + step
       /\ levels' = Applied([l \in {<<"bid", px' - TickSize>>, <<"ask", px' + TickSize>>} |-> 1])
       /\ high' = IF moves = 0 THEN px' ELSE Max({high, px'})
       /\ low' = IF moves = 0 THEN px' ELSE Min({low, px'})
  /\ moves' = moves + 1
  /\ event' = Best(levels')
  /\ UNCHANGED <<feeder, exch, shown, sure>>

BookNext == HandleMessage \/ NextDelta

-----------------------------------------------------------------------------
(***************************************************************************)
(* A level that was listed, and has not changed since, is in the book as   *)
(* the exchange has it.  But no level ever leaves it: what is published is *)
(* the highest bid and the lowest ask that were ever listed - the          *)
(* exchange's own best only while neither has changed since - and the book *)
(* crosses as soon as the exchange left such a level behind, and not       *)
(* before.  The synthetic book keeps every level too: its spread is two    *)
(* ticks less the whole range of the price so far, and soon negative.      *)
(***************************************************************************)
BookKnowsWhatItSaw ==
  /\ feeder = "binance" =>
       /\ \A l \in sure : l \in DOMAIN levels /\ levels[l] = exch[l]
       /\ event # <<>> =>
            /\ event[1].bid = Max(BidPrices(shown)) /\ event[1].ask = Min(AskPrices(shown))
            /\ {<<"bid", event[1].bid>>, <<"ask", event[1].ask>>} \subseteq sure =>
                 event = Best([l \in OnBook(exch) |-> exch[l]])
       /\ ~Uncrossed(DOMAIN levels) => ~(DOMAIN levels \subseteq sure)
  /\ feeder = "synthetic" /\ event # <<>> =>
       event[1].ask - event[1].bid = 2 * TickSize - (high - low)
=============================================================================
