------------------------------ MODULE PaperBroker ------------------------------
(***************************************************************************)
(* The paper trading ledger: PaperBroker (paper/broker.py), the RiskManager  *)
(* it reports to (paper/risk.py) and the PaperExecutionService that feeds    *)
(* both from the event stream (paper/service.py).                            *)
(*                                                                           *)
(* Every coroutine of the application runs on one event loop and none of the *)
(* handlers below awaits, so a handler is atomic.  on_market is still split  *)
(* into one step per order of its sorted loop: `tick' holds the loop's local *)
(* state and no other handler runs until the loop has ended.  The one caller *)
(* that is not on the event loop (reset, run in a worker thread by the API)  *)
(* is atomic here and split in module PaperResetRace.                        *)
(*                                                                           *)
(* Abstraction.  Decimals are integers (one price tick, one quantity step,   *)
(* one money unit; a division rounds down, as Decimal rounds to 28 digits).  *)
(* An order identity is the tuple that the code hashes with uuid5, so two    *)
(* orders collide exactly when the code's identities do.  The visible book   *)
(* has one level per side, and the slippage is a constant rate.              *)
(***************************************************************************)
EXTENDS Integers, FiniteSets, FiniteSetsExt

CONSTANTS
  Symbols,            \* the traded symbols
  Signals,            \* the signal ids the strategy may emit, each once
  SignalOf,           \* signal id -> [symbol, side, entry, stop]
  Quotes,             \* the market data: [bid, bidQty, ask, askQty]
  FundingTimes,       \* the funding timestamps markPrice announces
  InitialBalance, TakerFeeBps, SlippageBps, FundingBps,
  Latency,            \* paper_network_latency_ms
  MaxHold,            \* paper_max_hold_seconds
  TakeProfitR,        \* paper_take_profit_r_multiple
  RiskBps,            \* risk_per_trade_fraction
  NotionalMultiple,   \* risk_max_position_notional_multiple
  MaxPositions, MaxDailyLossBps, LossLimit, Cooldown, MaxDataAge, MaxSpreadBps,
  DayLength,          \* length of a UTC day on the model's clock
  MaxDelay,           \* bound: how far an event's time lags behind the clock
  MaxTime,            \* bound: the last instant of the clock
  MaxQuantity,        \* bound: no position_size is larger
  MaxEmergencies      \* bound: calls of /api/emergency-stop

Sides == {"LONG", "SHORT"}
Kinds == {"entry", "stop", "take-profit", "time", "emergency"}
Statuses == {"PENDING", "PARTIALLY_FILLED", "FILLED", "CANCELED", "REJECTED"}
None == -1

ASSUME SettingsAssumption ==
  /\ {InitialBalance, TakerFeeBps, SlippageBps, Latency, MaxHold, RiskBps,
      Cooldown, MaxDataAge, MaxSpreadBps, MaxDelay, MaxTime, MaxEmergencies,
      NotionalMultiple, MaxDailyLossBps} \subseteq Nat
  /\ {TakeProfitR, MaxPositions, LossLimit, DayLength, MaxQuantity}
       \subseteq Nat \ {0}
  /\ FundingBps \in Int /\ FundingTimes \subseteq Nat

ASSUME DataAssumption ==
  /\ SignalOf \in [Signals -> [symbol : Symbols, side : Sides, entry : Nat, stop : Nat]]
  /\ Quotes \subseteq [bid : Nat \ {0}, bidQty : Nat, ask : Nat \ {0}, askQty : Nat]

VARIABLES
  now,            \* the wall clock, ahead of every event's timestamp
  emitted,        \* signals the strategy has emitted
  consuming,      \* FALSE once a listener's exception has ended the consumer task
  orders,         \* PaperBroker.orders: identity -> order
  positions,      \* PaperBroker.positions: open symbol -> position
  account,        \* PaperBroker.account
  fills,          \* PaperBroker.fills, as total quantity by symbol and role
  closedPnl,      \* sum of PaperBroker.closed_trade_pnls
  lastMarkets,    \* PaperBroker._last_markets with _last_market_time
  fundingEvents,  \* PaperBroker._funding_events
  tick,           \* local state of the running on_market loop
  latestMarkets,  \* PaperExecutionService._latest_markets
  nextFunding,    \* PaperExecutionService._next_funding_time
  pendingFunding, \* PaperExecutionService._pending_funding_id
  emergency, paused, daily, losses, cooldownUntil,  \* RiskManager
  emergencies     \* how often emergency_close_all has run

ledger   == <<orders, positions, account, fills, closedPnl>>
feed     == <<lastMarkets, fundingEvents, latestMarkets, nextFunding, pendingFunding>>
riskVars == <<emergency, paused, daily, losses, cooldownUntil>>
env      == <<now, emitted, consuming, emergencies>>
vars     == <<ledger, feed, riskVars, env, tick>>

Min2(a, b) == IF a <= b THEN a ELSE b
Abs(a) == IF a >= 0 THEN a ELSE -a
\* An assignment to a key of a dict.
Put(f, key, value) == [k \in DOMAIN f \cup {key} |-> IF k = key THEN value ELSE f[k]]
Sign(side) == IF side = "LONG" THEN 1 ELSE -1

-----------------------------------------------------------------------------
(* Orders.                                                                   *)

\* An order's identity: kind, parent (signal or symbol) and what tells apart
\* the orders of one parent (position quantity, opening time, call number).
Id(kind, parent, n) == <<kind, parent, n>>
OrderIds == Kinds \X (Signals \cup Symbols) \X Nat

Order == [symbol : Symbols, side : Sides, quantity : Nat, filled : Nat,
          trigger : Int, createdAt : Nat, status : Statuses, stop : Int, takeProfit : Int]

ReduceOnly(id) == id[1] # "entry"
Working(o) == o.status \in {"PENDING", "PARTIALLY_FILLED"}
Remaining(o) == o.quantity - o.filled

\* OrderSide.BUY: an entry buys to go long, an exit buys to leave a short.
Buys(id) == (orders[id].side = "LONG") # ReduceOnly(id)

\* _take_profit_reference
TakeProfitReference(sig) ==
  LET i == SignalOf[sig]
  IN  i.entry + Sign(i.side) * Abs(i.entry - i.stop) * TakeProfitR

\* The order submit_entry saves.
EntryOrder(sig, approved, quantity, at) ==
  [symbol |-> SignalOf[sig].symbol, side |-> SignalOf[sig].side,
   quantity |-> quantity, filled |-> 0, trigger |-> None, createdAt |-> at,
   status |-> IF ~approved \/ SignalOf[sig].symbol \in DOMAIN positions
              THEN "REJECTED" ELSE "PENDING",
   stop |-> SignalOf[sig].stop, takeProfit |-> TakeProfitReference(sig)]

\* The order submit_reduce_only saves for an open position p of symbol s; every
\* caller passes an open position and a positive quantity.
ExitOrder(s, p, quantity, at, trigger) ==
  [symbol |-> s, side |-> p.side, quantity |-> Min2(quantity, p.quantity),
   filled |-> 0, trigger |-> trigger, createdAt |-> at, status |-> "PENDING",
   stop |-> None, takeProfit |-> None]

\* _triggered, for the order o of identity id under the quote m.
Triggered(id, o, m) ==
  CASE id[1] = "stop" ->
         IF o.side = "LONG" THEN m.bid <= o.trigger ELSE m.ask >= o.trigger
    [] id[1] = "take-profit" ->
         IF o.side = "LONG" THEN m.bid >= o.trigger ELSE m.ask <= o.trigger
    [] OTHER -> TRUE

-----------------------------------------------------------------------------
(* Account and positions.                                                    *)

Position == [side : Sides, quantity : Nat \ {0}, entryPrice : Int, openedAt : Nat,
             entryId : OrderIds, stop : Int, takeProfit : Int, realized : Int,
             funding : Int]

TimeStopAt(p) == p.openedAt + MaxHold
Midpoint(m) == (m.bid + m.ask) \div 2

\* equity(), for given positions and cash balance.
Equity(ps, cash) ==
  cash + MapThenSumSet(
           LAMBDA s : IF lastMarkets[s].time = None THEN 0
                      ELSE (Midpoint(lastMarkets[s]) - ps[s].entryPrice)
                             * ps[s].quantity * Sign(ps[s].side),
           DOMAIN ps)

-----------------------------------------------------------------------------
(* RiskManager.                                                              *)

\* _roll_day
RolledDay(at, equity) ==
  LET day == at \div DayLength
  IN  IF daily.day # day THEN [day |-> day, start |-> equity, pnl |-> 0] ELSE daily

DailyLossExceeded(d) == d.pnl * 10000 <= -d.start * MaxDailyLossBps

\* position_size: the largest number of whole steps within both the risk budget
\* and the notional cap.
WithinBudget(n, sig, equity) ==
  LET i == SignalOf[sig]
  IN  /\ n * Abs(i.entry - i.stop) * 10000 <= equity * RiskBps
      /\ n * i.entry <= equity * NotionalMultiple
IsPositionSize(n, sig, equity) ==
  /\ SignalOf[sig].entry > 0 /\ SignalOf[sig].entry # SignalOf[sig].stop
  /\ WithinBudget(n, sig, equity) /\ ~WithinBudget(n + 1, sig, equity)

SpreadBps(m) == ((m.ask - m.bid) * 10000) \div Midpoint(m)

\* The checks of evaluate_entry that do not depend on the position size.
Admissible(sig, at, healthy, synchronized, equity) ==
  LET i == SignalOf[sig]
      age == at - latestMarkets[i.symbol].time
  IN  /\ ~emergency /\ ~paused
      /\ ~DailyLossExceeded(RolledDay(at, equity))
      /\ cooldownUntil = None \/ at >= cooldownUntil
      /\ age \in 0 .. MaxDataAge
      /\ healthy /\ synchronized
      /\ SpreadBps(latestMarkets[i.symbol]) <= MaxSpreadBps
      /\ Cardinality(DOMAIN positions) < MaxPositions
      /\ i.symbol \notin DOMAIN positions
      /\ Sign(i.side) * (i.entry - i.stop) > 0

\* record_closed_trade
RecordClosedTrade(at, pnl, equity) ==
  /\ daily' = LET d == RolledDay(at, equity - pnl) IN [d EXCEPT !.pnl = @ + pnl]
  /\ losses' = IF pnl < 0 THEN losses + 1 ELSE 0
  /\ cooldownUntil' = IF pnl >= 0 THEN None
                      ELSE IF losses + 1 >= LossLimit THEN at + Cooldown
                      ELSE cooldownUntil

-----------------------------------------------------------------------------
NoMarket == [time |-> None, bid |-> 0, ask |-> 0]
Idle == [market |-> NoMarket, bids |-> 0, asks |-> 0, todo |-> {}]

\* The timestamps of the events delivered now.
DeliveryWindow == {t \in 0 .. now : t >= now - MaxDelay}

\* The event loop can start another handler; the market data consumer lives.
LoopFree == tick = Idle
ConsumerFree == LoopFree /\ consuming

Init ==
  /\ now = 0 /\ emitted = {} /\ consuming = TRUE /\ emergencies = 0
  /\ orders = << >> /\ positions = << >> /\ closedPnl = 0
  /\ account = [cash |-> InitialBalance, realized |-> 0, fees |-> 0, funding |-> 0]
  /\ fills = [s \in Symbols |-> [entry |-> 0, exit |-> 0]]
  /\ lastMarkets = [s \in Symbols |-> NoMarket] /\ latestMarkets = lastMarkets
  /\ fundingEvents = {} /\ tick = Idle
  /\ nextFunding = [s \in Symbols |-> None] /\ pendingFunding = nextFunding
  /\ emergency = FALSE /\ paused = FALSE /\ losses = 0 /\ cooldownUntil = None
  /\ daily = [day |-> None, start |-> None, pnl |-> 0]

ClockTick ==
  /\ now < MaxTime /\ now' = now + 1
  /\ UNCHANGED <<ledger, feed, riskVars, emitted, consuming, emergencies, tick>>

-----------------------------------------------------------------------------
(* PaperExecutionService.on_signal, with evaluate_entry and submit_entry.    *)

\* A signal before the symbol's first market is dropped.
DropSignal(sig) ==
  /\ ConsumerFree /\ sig \notin emitted
  /\ latestMarkets[SignalOf[sig].symbol].time = None
  /\ emitted' = emitted \cup {sig}
  /\ UNCHANGED <<ledger, feed, riskVars, now, consuming, emergencies, tick>>

\* The signal carries the timestamp of the event that caused it.
OnSignal(sig, at, healthy, synchronized) ==
  /\ ConsumerFree /\ sig \notin emitted
  /\ latestMarkets[SignalOf[sig].symbol].time # None
  /\ emitted' = emitted \cup {sig}
  /\ LET equity == Equity(positions, account.cash)
         ok == Admissible(sig, at, healthy, synchronized, equity)
         sizes == {n \in 1 .. MaxQuantity : IsPositionSize(n, sig, equity)}
     IN  /\ daily' = RolledDay(at, equity)
         /\ \/ \E n \in sizes :
                 /\ ok
                 /\ orders' = Put(orders, Id("entry", sig, 0), EntryOrder(sig, TRUE, n, at))
            \/ /\ ~(ok /\ sizes # {})
               /\ orders' = Put(orders, Id("entry", sig, 0), EntryOrder(sig, FALSE, 0, at))
  /\ UNCHANGED <<positions, account, fills, closedPnl, feed, emergency, paused, losses,
                 cooldownUntil, now, consuming, emergencies, tick>>

-----------------------------------------------------------------------------
(* PaperExecutionService.on_event, with PaperBroker.on_market.               *)

\* markPrice: a changed next funding time makes the previous one an event.
OnMarkPrice(s, at, next) ==
  /\ ConsumerFree
  /\ nextFunding' = [nextFunding EXCEPT ![s] = next]
  /\ pendingFunding' = IF nextFunding[s] \notin {None, next} /\ at >= nextFunding[s]
                       THEN [pendingFunding EXCEPT ![s] = nextFunding[s]]
                       ELSE pendingFunding
  /\ UNCHANGED <<ledger, lastMarkets, fundingEvents, latestMarkets, riskVars, env, tick>>

\* Mutant: the funding event is not remembered.
FundingDueAgain(s, event) == event # None /\ s \in DOMAIN positions

\* _apply_funding, for the funding event the snapshot carries.
FundingDue(s, event) ==
  event # None /\ event \notin fundingEvents /\ s \in DOMAIN positions
FundingPayment(p, m) ==
  -((Midpoint(m) * p.quantity * FundingBps) \div 10000) * Sign(p.side)

\* Mutant: the payment is booked on the account only.
ApplyFundingToAccount(s, m) ==
  LET event == pendingFunding[s]
      payment == FundingPayment(positions[s], m)
  IN  /\ UNCHANGED positions
      /\ IF FundingDue(s, event)
         THEN /\ account' = [account EXCEPT !.cash = @ + payment, !.realized = @ + payment,
                                            !.funding = @ + payment]
              /\ fundingEvents' = fundingEvents \cup {event}
         ELSE UNCHANGED <<account, fundingEvents>>

ApplyFunding(s, m) ==
  LET event == pendingFunding[s]
      payment == FundingPayment(positions[s], m)
  IN  IF FundingDue(s, event)
      THEN /\ positions' = [positions EXCEPT ![s].funding = @ + payment]
           /\ account' = [account EXCEPT !.cash = @ + payment, !.realized = @ + payment,
                                         !.funding = @ + payment]
           /\ fundingEvents' = fundingEvents \cup {event}
      ELSE UNCHANGED <<positions, account, fundingEvents>>

\* Mutant: a finished time stop counts as one that still works.
TimeStopExists(s) == \E id \in DOMAIN orders : id[1] = "time" /\ orders[id].symbol = s

\* _schedule_time_stop: the orders once it has run.
TimeStopWorking(s) ==
  \E id \in DOMAIN orders :
    id[1] = "time" /\ orders[id].symbol = s /\ Working(orders[id])
WithTimeStop(s, at) ==
  IF s \in DOMAIN positions /\ at >= TimeStopAt(positions[s]) /\ ~TimeStopWorking(s)
  THEN LET p == positions[s]
       IN  Put(orders, Id("time", s, p.openedAt), ExitOrder(s, p, p.quantity, at, None))
  ELSE orders

\* What the loop over the scheduled orders will execute: the working, eligible
\* and triggered orders of the symbol.  The loop changes none of the three
\* conditions but the first, which ExecutionTurn reads again.
Scheduled(s, m, all) ==
  {id \in DOMAIN all :
     /\ all[id].symbol = s /\ Working(all[id])
     /\ m.time >= all[id].createdAt + Latency
     /\ Triggered(id, all[id], m)}

OnMarket(s, at, q) ==
  /\ ConsumerFree
  /\ at >= lastMarkets[s].time
  /\ LET m == [time |-> at, bid |-> q.bid, ask |-> q.ask]
         after == WithTimeStop(s, at)
         todo == Scheduled(s, m, after)
     IN  /\ latestMarkets' = [latestMarkets EXCEPT ![s] = m]
         /\ lastMarkets' = [lastMarkets EXCEPT ![s] = m]
         /\ ApplyFunding(s, m)
         /\ orders' = after
         /\ tick' = IF todo = {} THEN Idle
                    ELSE [market |-> m, bids |-> q.bidQty, asks |-> q.askQty, todo |-> todo]
  /\ pendingFunding' = [pendingFunding EXCEPT ![s] = None]
  /\ UNCHANGED <<fills, closedPnl, nextFunding, riskVars, env>>

\* A snapshot older than the symbol's last one: on_market raises, and the
\* exception ends the task that consumes the events (market_data/service.py).
OnMarketBackward(s, at, q) ==
  /\ ConsumerFree
  /\ at < lastMarkets[s].time
  /\ latestMarkets' = [latestMarkets EXCEPT ![s] = [time |-> at, bid |-> q.bid, ask |-> q.ask]]
  /\ pendingFunding' = [pendingFunding EXCEPT ![s] = None]
  /\ consuming' = FALSE
  /\ UNCHANGED <<ledger, lastMarkets, fundingEvents, nextFunding, riskVars, now, emitted,
                 emergencies, tick>>

-----------------------------------------------------------------------------
(* One iteration of on_market's loop, with _execute and                      *)
(* _apply_fill_to_account.                                                   *)

\* The sort key (not reduce_only, created_at, order_id); order_id is a hash, so
\* orders that tie on the rest come in an arbitrary order.
Before(a, b) ==
  \/ ReduceOnly(a) /\ ~ReduceOnly(b)
  \/ ReduceOnly(a) = ReduceOnly(b) /\ orders[a].createdAt < orders[b].createdAt
Turn(id) == id \in tick.todo /\ \A other \in tick.todo : ~Before(other, id)

\* The loop after the iteration for id, which took so much of either side.
Advance(id, bids, asks) ==
  tick' = IF tick.todo = {id} THEN Idle
          ELSE [tick EXCEPT !.todo = @ \ {id}, !.bids = @ - bids, !.asks = @ - asks]
Consume(id, quantity) ==
  IF Buys(id) THEN Advance(id, 0, quantity) ELSE Advance(id, quantity, 0)

\* Whether the order finds the position it works for.
OwnPosition(id) ==
  LET o == orders[id]
  IN  IF ReduceOnly(id)
      THEN o.symbol \in DOMAIN positions /\ positions[o.symbol].side = o.side
      ELSE o.symbol \in DOMAIN positions => positions[o.symbol].entryId = id

\* Mutant: an exit is not capped by the position.
RequestedUncapped(id) == Remaining(orders[id])

\* _consume: how much of the requested quantity is visible.
Requested(id) ==
  LET o == orders[id]
  IN  IF ReduceOnly(id) THEN Min2(Remaining(o), positions[o.symbol].quantity) ELSE Remaining(o)
FillQuantity(id) == Min2(Requested(id), IF Buys(id) THEN tick.asks ELSE tick.bids)
FillPrice(id) ==
  IF Buys(id) THEN (tick.market.ask * (10000 + SlippageBps)) \div 10000
              ELSE (tick.market.bid * (10000 - SlippageBps)) \div 10000
Fee(id) == (FillPrice(id) * FillQuantity(id) * TakerFeeBps) \div 10000

\* The order as _execute saves it after a fill.
AfterFill(id) ==
  LET filled == orders[id].filled + FillQuantity(id)
  IN  [orders[id] EXCEPT !.filled = filled,
         !.status = IF filled >= orders[id].quantity THEN "FILLED" ELSE "PARTIALLY_FILLED"]

SkipOrder(id) ==
  /\ Turn(id) /\ ~Working(orders[id])
  /\ Advance(id, 0, 0)
  /\ UNCHANGED <<ledger, feed, riskVars, env>>

\* A reduce-only order without its position is canceled, an entry that meets the
\* position of another entry is rejected.
RefuseOrder(id) ==
  /\ Turn(id) /\ Working(orders[id]) /\ ~OwnPosition(id)
  /\ orders' = [orders EXCEPT ![id].status = IF ReduceOnly(id) THEN "CANCELED" ELSE "REJECTED"]
  /\ Advance(id, 0, 0)
  /\ UNCHANGED <<positions, account, fills, closedPnl, feed, riskVars, env>>

\* The iteration reaches _consume, with or without liquidity.
Executes(id) == Turn(id) /\ Working(orders[id]) /\ OwnPosition(id)

StarveOrder(id) ==
  /\ Executes(id) /\ FillQuantity(id) <= 0
  /\ Advance(id, 0, 0)
  /\ UNCHANGED <<ledger, feed, riskVars, env>>

\* The position after an entry fill: opened, or averaged into.
EntryPosition(id) ==
  LET o == orders[id]
      q == FillQuantity(id)
      price == FillPrice(id)
      orPrice(reference) == IF reference = 0 THEN price ELSE reference
      p == positions[o.symbol]
  IN  IF o.symbol \notin DOMAIN positions
      THEN [side |-> o.side, quantity |-> q, entryPrice |-> price,
            openedAt |-> tick.market.time, entryId |-> id, stop |-> orPrice(o.stop),
            takeProfit |-> orPrice(o.takeProfit), realized |-> -Fee(id), funding |-> 0]
      ELSE [p EXCEPT !.entryPrice = (@ * p.quantity + price * q) \div (p.quantity + q),
                     !.quantity = @ + q, !.realized = @ - Fee(id)]

\* Mutant: the protective orders of an entry have one identity.
WithOneProtection(id, p, quantity) ==
  LET s == orders[id].symbol
      at == tick.market.time
  IN  Put(Put(orders, Id("stop", id[2], 0), ExitOrder(s, p, quantity, at, p.stop)),
          Id("take-profit", id[2], 0), ExitOrder(s, p, quantity, at, p.takeProfit))

\* _create_protective_orders: the fill's quantity, identified by the position's.
WithProtection(id, p, quantity) ==
  LET s == orders[id].symbol
      at == tick.market.time
  IN  Put(Put(orders, Id("stop", id[2], p.quantity), ExitOrder(s, p, quantity, at, p.stop)),
          Id("take-profit", id[2], p.quantity), ExitOrder(s, p, quantity, at, p.takeProfit))

FillEntry(id) ==
  /\ Executes(id) /\ ~ReduceOnly(id) /\ FillQuantity(id) > 0
  /\ LET s == orders[id].symbol
         q == FillQuantity(id)
         p == EntryPosition(id)
     IN  /\ positions' = Put(positions, s, p)
         /\ orders' = Put(WithProtection(id, p, q), id, AfterFill(id))
         /\ fills' = [fills EXCEPT ![s].entry = @ + q]
         /\ account' = [account EXCEPT !.cash = @ - Fee(id), !.realized = @ - Fee(id),
                                       !.fees = @ + Fee(id)]
         /\ Consume(id, q)
  /\ UNCHANGED <<closedPnl, feed, riskVars, env>>

\* What an exit fill earns before fees, and the account that books it.
Gross(id) ==
  LET p == positions[orders[id].symbol]
  IN  (FillPrice(id) - p.entryPrice) * FillQuantity(id) * Sign(p.side)

\* Mutant: the exit's fee is taken from the cash and not from the result.
AfterExitNet(id) ==
  [account EXCEPT !.cash = @ - Fee(id) + Gross(id), !.realized = @ + Gross(id),
                  !.fees = @ + Fee(id)]
AfterExit(id) ==
  [account EXCEPT !.cash = @ - Fee(id) + Gross(id), !.realized = @ - Fee(id) + Gross(id),
                  !.fees = @ + Fee(id)]

\* Mutant: the position is closed only when it would turn negative.
ClosesBelowZero(id) == FillQuantity(id) > positions[orders[id].symbol].quantity
Closes(id) == FillQuantity(id) >= positions[orders[id].symbol].quantity

\* An exit fill that leaves part of the position.
ReducePosition(id) ==
  LET s == orders[id].symbol
      q == FillQuantity(id)
  IN  /\ Executes(id) /\ ReduceOnly(id) /\ q > 0
      /\ ~Closes(id)
      /\ positions' = [positions EXCEPT ![s].quantity = @ - q,
                                        ![s].realized = @ + Gross(id) - Fee(id)]
      /\ orders' = [orders EXCEPT ![id] = AfterFill(id)]
      /\ fills' = [fills EXCEPT ![s].exit = @ + q]
      /\ account' = AfterExit(id)
      /\ Consume(id, q)
      /\ UNCHANGED <<closedPnl, feed, riskVars, env>>

\* Mutants: only the exits are canceled; only the entries; finished orders as well.
CanceledExits(s, id) ==
  [other \in DOMAIN orders |->
     IF orders[other].symbol = s /\ other # id /\ Working(orders[other]) /\ ReduceOnly(other)
     THEN [orders[other] EXCEPT !.status = "CANCELED"] ELSE orders[other]]
CanceledEntries(s, id) ==
  [other \in DOMAIN orders |->
     IF orders[other].symbol = s /\ other # id /\ Working(orders[other]) /\ ~ReduceOnly(other)
     THEN [orders[other] EXCEPT !.status = "CANCELED"] ELSE orders[other]]
CanceledAll(s, id) ==
  [other \in DOMAIN orders |->
     IF orders[other].symbol = s /\ other # id
     THEN [orders[other] EXCEPT !.status = "CANCELED"] ELSE orders[other]]

\* _cancel_remaining_orders, for an execution of id that closed s.
CanceledWith(s, id) ==
  [other \in DOMAIN orders |->
     IF orders[other].symbol = s /\ other # id /\ Working(orders[other])
     THEN [orders[other] EXCEPT !.status = "CANCELED"] ELSE orders[other]]

\* An exit fill that closes the position: the other orders of the symbol are
\* canceled and the risk manager learns the result.
ClosePosition(id) ==
  LET s == orders[id].symbol
      q == FillQuantity(id)
      rest == [other \in DOMAIN positions \ {s} |-> positions[other]]
      pnl == positions[s].realized + Gross(id) - Fee(id) + positions[s].funding
  IN  /\ Executes(id) /\ ReduceOnly(id) /\ q > 0
      /\ Closes(id)
      /\ positions' = rest
      /\ orders' = Put(CanceledWith(s, id), id, AfterFill(id))
      /\ fills' = [fills EXCEPT ![s].exit = @ + q]
      /\ account' = AfterExit(id)
      /\ closedPnl' = closedPnl + pnl
      /\ RecordClosedTrade(tick.market.time, pnl, Equity(rest, AfterExit(id).cash))
      /\ Consume(id, q)
      /\ UNCHANGED <<feed, emergency, paused, env>>

ExecuteOrder ==
  \E id \in tick.todo :
    \/ SkipOrder(id) \/ RefuseOrder(id) \/ StarveOrder(id)
    \/ FillEntry(id) \/ ReducePosition(id) \/ ClosePosition(id)

-----------------------------------------------------------------------------
(* The operator's controls (api/app.py).                                     *)

\* emergency_close_all: one market exit per position.  The timestamp of the
\* call is in the identity, the number of the call here.
WithEmergencyExits ==
  LET new == {Id("emergency", s, emergencies) : s \in DOMAIN positions}
  IN  [id \in DOMAIN orders \cup new |->
         IF id \in new
         THEN ExitOrder(id[2], positions[id[2]], positions[id[2]].quantity, now, None)
         ELSE orders[id]]
EmergencyCloseAll ==
  /\ LoopFree /\ emergencies < MaxEmergencies
  /\ emergency' = TRUE /\ emergencies' = emergencies + 1
  /\ orders' = WithEmergencyExits
  /\ UNCHANGED <<positions, account, fills, closedPnl, feed, paused, daily, losses,
                 cooldownUntil, now, emitted, consuming, tick>>

PauseEntries ==
  /\ LoopFree /\ ~paused /\ paused' = TRUE
  /\ UNCHANGED <<ledger, feed, emergency, daily, losses, cooldownUntil, env, tick>>
ResumeEntries ==
  /\ LoopFree /\ paused /\ paused' = FALSE
  /\ UNCHANGED <<ledger, feed, emergency, daily, losses, cooldownUntil, env, tick>>

\* reset, which refuses while a position is open.
ClearRisk ==
  /\ emergency' = FALSE /\ paused' = FALSE /\ losses' = 0 /\ cooldownUntil' = None
  /\ daily' = [day |-> None, start |-> None, pnl |-> 0]
Reset ==
  /\ LoopFree /\ DOMAIN positions = {}
  /\ account' = [cash |-> InitialBalance, realized |-> 0, fees |-> 0, funding |-> 0]
  /\ orders' = << >> /\ closedPnl' = 0
  /\ fills' = [s \in Symbols |-> [entry |-> 0, exit |-> 0]]
  /\ lastMarkets' = [s \in Symbols |-> NoMarket] /\ fundingEvents' = {}
  /\ ClearRisk
  /\ UNCHANGED <<positions, latestMarkets, nextFunding, pendingFunding, env, tick>>

-----------------------------------------------------------------------------
MarketData ==
  \E s \in Symbols, at \in DeliveryWindow :
    \/ \E q \in Quotes : OnMarket(s, at, q) \/ OnMarketBackward(s, at, q)
    \/ \E next \in FundingTimes : OnMarkPrice(s, at, next)
Strategy ==
  \E sig \in Signals :
    \/ DropSignal(sig)
    \/ \E at \in DeliveryWindow, healthy, synchronized \in BOOLEAN :
         OnSignal(sig, at, healthy, synchronized)
Controls == EmergencyCloseAll \/ PauseEntries \/ ResumeEntries \/ Reset

Next == ClockTick \/ MarketData \/ Strategy \/ ExecuteOrder \/ Controls
Spec == Init /\ [][Next]_vars

\* The loop of on_market runs to its end, and the exchange keeps sending
\* current quotes that can fill any order.
Ample(q) == q.bidQty >= MaxQuantity /\ q.askQty >= MaxQuantity
AmpleMarket(s) == \E q \in Quotes : Ample(q) /\ OnMarket(s, now, q)
LiveSpec ==
  Spec /\ WF_vars(ExecuteOrder) /\ \A s \in Symbols : SF_vars(AmpleMarket(s))

-----------------------------------------------------------------------------
(* Properties.                                                               *)

OrdersType ==
  DOMAIN orders \subseteq OrderIds /\ \A id \in DOMAIN orders : orders[id] \in Order
PositionsType ==
  DOMAIN positions \subseteq Symbols /\ \A s \in DOMAIN positions : positions[s] \in Position
AccountType ==
  /\ account \in [cash : Int, realized : Int, fees : Int, funding : Int] /\ closedPnl \in Int
  /\ fills \in [Symbols -> [entry : Nat, exit : Nat]]
EnvType ==
  now \in Nat /\ emitted \subseteq Signals /\ consuming \in BOOLEAN /\ emergencies \in Nat
TickType ==
  /\ tick \in [market : [time : Nat \cup {None}, bid : Nat, ask : Nat],
               bids : Nat, asks : Nat, todo : SUBSET OrderIds]
  /\ tick.todo \subseteq DOMAIN orders
  /\ tick.todo # {} => tick.market.time # None

\* Type invariant of the ledger and of the running loop.
TypeOK == OrdersType /\ PositionsType /\ AccountType /\ EnvType /\ TickType

\* The cash is the initial balance and what has been realized since.
CashIsRealized == account.cash = InitialBalance + account.realized

\* What the open positions ps have booked so far.
Booked(ps) == MapThenSumSet(LAMBDA s : ps[s].realized + ps[s].funding, DOMAIN ps)

\* _apply_fill_to_account, _apply_funding: the account's realized result is what
\* the closed trades and the open positions booked, and cash is the rest.
LedgerBalanced == CashIsRealized /\ account.realized = closedPnl + Booked(positions)

\* The fills of a symbol net out to its open position, and to nothing when it
\* has none, so that no exit ever reverses a position (README: reduce-only).
PositionMatchesFills ==
  \A s \in Symbols :
    fills[s].entry - fills[s].exit =
      IF s \in DOMAIN positions THEN positions[s].quantity ELSE 0

\* A partially filled entry is still working only for the position it opened:
\* once the position is closed the remainder cannot open another one.
RemainderHasPosition ==
  \A id \in DOMAIN orders :
    (~ReduceOnly(id) /\ orders[id].status = "PARTIALLY_FILLED") =>
      /\ orders[id].symbol \in DOMAIN positions
      /\ positions[orders[id].symbol].entryId = id

\* The entry order behind an open position is on the books, works for the same
\* symbol and side, and has filled at least what the position still holds.
EntryBacksPosition ==
  \A s \in DOMAIN positions :
    LET entry == orders[positions[s].entryId]
    IN  /\ positions[s].entryId \in DOMAIN orders /\ ~ReduceOnly(positions[s].entryId)
        /\ entry.symbol = s /\ entry.side = positions[s].side
        /\ positions[s].quantity <= entry.filled /\ entry.filled <= entry.quantity

WorkingStops(s) ==
  {id \in DOMAIN orders : id[1] = "stop" /\ orders[id].symbol = s /\ Working(orders[id])}

\* What the orders in ids, out of all, may still fill.
Left(all, ids) == MapThenSumSet(LAMBDA id : Remaining(all[id]), ids)

\* _create_protective_orders: until an exit has filled, the working stops of a
\* position cover all that its entry has filled, in however many parts.
UntouchedIsStopped ==
  \A s \in DOMAIN positions :
    positions[s].quantity = orders[positions[s].entryId].filled =>
      positions[s].quantity <= Left(orders, WorkingStops(s))

\* _cancel_remaining_orders: an exit that still works without a position is the one
\* that closed the position before its own quantity was filled.
LeftoverExitIsPartial ==
  \A id \in DOMAIN orders :
    (ReduceOnly(id) /\ Working(orders[id]) /\ orders[id].symbol \notin DOMAIN positions) =>
      orders[id].status = "PARTIALLY_FILLED"

\* An entry order that is FILLED, CANCELED or REJECTED stays what it is until
\* the account is reset.
EntryOutcomeFinal ==
  [][\A id \in DOMAIN orders \cap DOMAIN orders' :
       ~ReduceOnly(id) /\ ~Working(orders[id]) => orders'[id] = orders[id]]_vars

\* _apply_funding: a position is charged for a funding time at most once, even
\* when markPrice announces the same time again.
FundingChargedOnce ==
  [][\A s \in DOMAIN positions \cap DOMAIN positions' :
       positions'[s].funding # positions[s].funding =>
         pendingFunding[s] \in fundingEvents' \ fundingEvents]_vars

\* _schedule_time_stop: a position does not outlive its time stop while the
\* symbol's market data is consumed.
TimeStopCloses ==
  \A s \in Symbols :
    (s \in DOMAIN positions /\ now >= TimeStopAt(positions[s])) ~>
      (s \notin DOMAIN positions \/ ~consuming)

-----------------------------------------------------------------------------
(* What the documents and tests say of the program and the code does not do. *)

\* README: after an emergency stop only reduce-only orders execute.
EmergencyOnlyReduces ==
  [][emergency /\ emergency' => \A s \in Symbols : fills'[s].entry = fills[s].entry]_vars

\* README: a stop that triggers before the entry is complete closes the position
\* and cancels the rest of the entry, which never adds to the losing position.
StopEndsEntry ==
  [][\A id \in DOMAIN orders :
       id[1] = "stop" /\ orders[id].filled > 0 =>
         \A entry \in DOMAIN orders \cap DOMAIN orders' :
           entry = Id("entry", id[2], 0) => orders'[entry].filled = orders[entry].filled]_vars

\* Test of the long position's funding: the snapshot that carries a funding
\* event charges a position that was not charged before.
FundingCharged ==
  [][\A s \in DOMAIN positions \cap DOMAIN positions' :
       consuming' /\ pendingFunding[s] # None /\ pendingFunding'[s] = None
         /\ positions[s].funding = 0 => positions'[s].funding # 0]_vars
=============================================================================
