-------------------------- MODULE PaperBrokerProofs --------------------------
(***************************************************************************)
(* What the paper account promises, for every set of symbols and signals,     *)
(* every quote and every value of the settings that SettingsAssumption        *)
(* allows: types, the ledger's invariant, what a step may not do, the         *)
(* refinement of TradeLedger, the balance as a sum over the positions, and    *)
(* the stops of an untouched position.                                        *)
(***************************************************************************)
EXTENDS PaperLedger, Induction

\* _save_order and the positions keep a dict of typed values one.
LEMMA PutType ==
  ASSUME NEW f, NEW key, NEW value, NEW Keys, NEW Values,
         DOMAIN f \subseteq Keys, \A k \in DOMAIN f : f[k] \in Values,
         key \in Keys, value \in Values
  PROVE  /\ DOMAIN Put(f, key, value) \subseteq Keys
         /\ \A k \in DOMAIN Put(f, key, value) : Put(f, key, value)[k] \in Values
  BY DEF Put

\* submit_reduce_only saves a well-formed order.
LEMMA ExitOrderType ==
  ASSUME NEW s \in Symbols, NEW p \in Position, NEW quantity \in Nat, NEW at \in Nat,
         NEW trigger \in Int
  PROVE  ExitOrder(s, p, quantity, at, trigger) \in Order
  BY DEF ExitOrder, Order, Position, Min2, Statuses, Sides, None

-----------------------------------------------------------------------------
(* What the iteration of on_market's loop computes.                          *)

\* The order whose turn it is, the position it works for and what it fills.
LEMMA FillFacts ==
  ASSUME TypeOK, NEW id \in tick.todo, Executes(id)
  PROVE  /\ id \in OrderIds /\ id \in DOMAIN orders
         /\ orders[id] \in Order /\ orders[id].symbol \in Symbols
         /\ tick.market.time \in Nat
         /\ ReduceOnly(id) => /\ orders[id].symbol \in DOMAIN positions
                              /\ positions[orders[id].symbol] \in Position
         /\ orders[id].symbol \in DOMAIN positions =>
              positions[orders[id].symbol] \in Position
         /\ FillQuantity(id) \in Int /\ FillPrice(id) \in Int /\ Fee(id) \in Int
         /\ FillQuantity(id) <= Remaining(orders[id])
         /\ ReduceOnly(id) => FillQuantity(id) <= positions[orders[id].symbol].quantity
         /\ FillQuantity(id) <= IF Buys(id) THEN tick.asks ELSE tick.bids
<1>1. /\ id \in DOMAIN orders /\ id \in OrderIds /\ orders[id] \in Order
      /\ orders[id].symbol \in Symbols /\ tick.market.time \in Nat
  BY DEF TypeOK, OrdersType, TickType, Order
<1>2. /\ orders[id].symbol \in DOMAIN positions => positions[orders[id].symbol] \in Position
      /\ ReduceOnly(id) => orders[id].symbol \in DOMAIN positions
  BY DEF TypeOK, PositionsType, Executes, OwnPosition
<1>3. /\ Requested(id) \in Int /\ Requested(id) <= Remaining(orders[id])
      /\ ReduceOnly(id) => Requested(id) <= positions[orders[id].symbol].quantity
  BY <1>1, <1>2 DEF Requested, Remaining, Min2, Order, Position
<1>4. tick.asks \in Int /\ tick.bids \in Int /\ Remaining(orders[id]) \in Int
  BY <1>1 DEF TypeOK, TickType, Remaining, Order
<1>5. /\ FillQuantity(id) \in Int /\ FillQuantity(id) <= Requested(id)
      /\ FillQuantity(id) <= IF Buys(id) THEN tick.asks ELSE tick.bids
  BY <1>3, <1>4 DEF FillQuantity, Min2
<1>6. FillPrice(id) \in Int
  BY SettingsAssumption DEF FillPrice, TypeOK, TickType
<1>7. Fee(id) \in Int
  BY <1>5, <1>6, SettingsAssumption DEF Fee
<1>8. ReduceOnly(id) => positions[orders[id].symbol].quantity \in Int
  BY <1>2 DEF Position
<1> QED BY <1>1, <1>2, <1>3, <1>4, <1>5, <1>6, <1>7, <1>8

\* The loop's local state stays well formed when an iteration ends, whatever
\* orders the iteration added.
LEMMA AdvanceType ==
  ASSUME TypeOK, NEW id \in tick.todo, NEW bids \in Int, NEW asks \in Int,
         bids <= tick.bids, asks <= tick.asks, Advance(id, bids, asks),
         DOMAIN orders \subseteq DOMAIN orders'
  PROVE  TickType'
<1>1. CASE tick.todo = {id}
  BY <1>1 DEF Advance, Idle, NoMarket, TickType, None
<1>2. CASE tick.todo # {id}
  <2>1. tick' = [tick EXCEPT !.todo = @ \ {id}, !.bids = @ - bids, !.asks = @ - asks]
    BY <1>2 DEF Advance
  <2>2. tick.bids - bids \in Nat /\ tick.asks - asks \in Nat
    BY DEF TypeOK, TickType
  <2> QED BY <2>1, <2>2 DEF TypeOK, TickType
<1> QED BY <1>1, <1>2

\* An iteration takes no more from either side of the book than is left there.
LEMMA ConsumeType ==
  ASSUME TypeOK, NEW id \in tick.todo, Executes(id), Consume(id, FillQuantity(id)),
         DOMAIN orders \subseteq DOMAIN orders'
  PROVE  TickType'
<1>1. /\ FillQuantity(id) \in Int
      /\ FillQuantity(id) <= IF Buys(id) THEN tick.asks ELSE tick.bids
  BY FillFacts
<1>2. 0 <= tick.bids /\ 0 <= tick.asks
  BY DEF TypeOK, TickType
<1> QED BY <1>1, <1>2, AdvanceType DEF Consume

\* An order keeps its type when it has filled more.
LEMMA AfterFillType ==
  ASSUME TypeOK, NEW id \in tick.todo, Executes(id), FillQuantity(id) > 0
  PROVE  AfterFill(id) \in Order
<1>1. orders[id] \in Order /\ FillQuantity(id) \in Int
  BY FillFacts
<1>2. orders[id].filled + FillQuantity(id) \in Nat
  BY <1>1 DEF Order
<1> QED BY <1>1, <1>2 DEF AfterFill, Order, Statuses

\* An entry fill opens or enlarges a position and keeps it well formed.
LEMMA EntryPositionType ==
  ASSUME TypeOK, NEW id \in tick.todo, Executes(id), ~ReduceOnly(id), FillQuantity(id) > 0
  PROVE  EntryPosition(id) \in Position
<1> DEFINE s == orders[id].symbol
           q == FillQuantity(id)
           p == positions[s]
<1>1. /\ id \in OrderIds /\ orders[id] \in Order /\ tick.market.time \in Nat
      /\ q \in Nat \ {0} /\ FillPrice(id) \in Int /\ Fee(id) \in Int
  BY FillFacts
<1>2. CASE s \notin DOMAIN positions
  BY <1>1, <1>2 DEF EntryPosition, Position, Order
<1>3. CASE s \in DOMAIN positions
  <2>1. p \in Position
    BY <1>3, FillFacts
  <2>2. p.quantity + q \in Nat \ {0} /\ p.entryPrice * p.quantity + FillPrice(id) * q \in Int
    BY <1>1, <2>1 DEF Position
  <2>3. (p.entryPrice * p.quantity + FillPrice(id) * q) \div (p.quantity + q) \in Int
    BY <2>2
  <2>4. p.realized - Fee(id) \in Int
    BY <1>1, <2>1 DEF Position
  <2> QED BY <1>3, <2>1, <2>2, <2>3, <2>4 DEF EntryPosition, Position
<1> QED BY <1>2, <1>3

\* _create_protective_orders only adds or replaces exits, which are well formed.
LEMMA WithProtectionType ==
  ASSUME TypeOK, NEW id \in tick.todo, Executes(id), NEW p \in Position,
         NEW quantity \in Nat
  PROVE  /\ DOMAIN WithProtection(id, p, quantity) \subseteq OrderIds
         /\ \A k \in DOMAIN WithProtection(id, p, quantity) :
              WithProtection(id, p, quantity)[k] \in Order
         /\ DOMAIN orders \subseteq DOMAIN WithProtection(id, p, quantity)
<1> DEFINE s == orders[id].symbol
           at == tick.market.time
           stop == Id("stop", id[2], p.quantity)
           target == Id("take-profit", id[2], p.quantity)
           first == Put(orders, stop, ExitOrder(s, p, quantity, at, p.stop))
<1>1. id \in OrderIds /\ s \in Symbols /\ at \in Nat
  BY FillFacts
<1>2. stop \in OrderIds /\ target \in OrderIds
  BY <1>1 DEF Id, OrderIds, Kinds, Position
<1>3. /\ ExitOrder(s, p, quantity, at, p.stop) \in Order
      /\ ExitOrder(s, p, quantity, at, p.takeProfit) \in Order
  BY <1>1, ExitOrderType DEF Position
<1>4. DOMAIN orders \subseteq OrderIds /\ \A k \in DOMAIN orders : orders[k] \in Order
  BY DEF TypeOK, OrdersType
<1>5. /\ DOMAIN first \subseteq OrderIds /\ \A k \in DOMAIN first : first[k] \in Order
      /\ DOMAIN orders \subseteq DOMAIN first
  BY <1>2, <1>3, <1>4 DEF Put
<1>6. WithProtection(id, p, quantity) =
        Put(first, target, ExitOrder(s, p, quantity, at, p.takeProfit))
  BY DEF WithProtection
<1> HIDE DEF first, stop, target
<1> QED BY <1>2, <1>3, <1>5, <1>6 DEF Put

\* The fills and the account keep their types when a fill is booked.
LEMMA FillsType ==
  ASSUME AccountType, NEW s \in Symbols, NEW q \in Nat
  PROVE  /\ [fills EXCEPT ![s].entry = @ + q] \in [Symbols -> [entry : Nat, exit : Nat]]
         /\ [fills EXCEPT ![s].exit = @ + q] \in [Symbols -> [entry : Nat, exit : Nat]]
<1>1. fills[s].entry + q \in Nat /\ fills[s].exit + q \in Nat
  BY DEF AccountType
<1> QED BY <1>1 DEF AccountType

LEMMA AccountBookedType ==
  ASSUME AccountType, NEW id, Fee(id) \in Int, Gross(id) \in Int
  PROVE  AfterExit(id) \in [cash : Int, realized : Int, fees : Int, funding : Int]
<1>1. /\ account.cash - Fee(id) + Gross(id) \in Int
      /\ account.realized - Fee(id) + Gross(id) \in Int /\ account.fees + Fee(id) \in Int
  BY DEF AccountType
<1> QED BY <1>1 DEF AccountType, AfterExit

LEMMA FillEntryType ==
  ASSUME TypeOK, NEW id \in tick.todo, FillEntry(id)
  PROVE  TypeOK'
<1> DEFINE s == orders[id].symbol
           q == FillQuantity(id)
           p == EntryPosition(id)
<1>1. Executes(id) /\ ~ReduceOnly(id) /\ q > 0
  BY DEF FillEntry
<1>2. /\ positions' = Put(positions, s, p)
      /\ orders' = Put(WithProtection(id, p, q), id, AfterFill(id))
      /\ fills' = [fills EXCEPT ![s].entry = @ + q]
      /\ account' = [account EXCEPT !.cash = @ - Fee(id), !.realized = @ - Fee(id),
                                    !.fees = @ + Fee(id)]
      /\ Consume(id, q)
      /\ UNCHANGED <<closedPnl, now, emitted, consuming, emergencies>>
  BY DEF FillEntry, env
<1>3. p \in Position /\ AfterFill(id) \in Order
  BY <1>1, EntryPositionType, AfterFillType
<1>4. id \in OrderIds /\ s \in Symbols /\ q \in Nat /\ Fee(id) \in Int
  BY <1>1, FillFacts
<1> HIDE DEF s, q, p
<1>5. PositionsType'
  BY <1>2, <1>3, <1>4, PutType DEF TypeOK, PositionsType
<1>6. OrdersType' /\ DOMAIN orders \subseteq DOMAIN orders'
  BY <1>1, <1>2, <1>3, <1>4, WithProtectionType DEF OrdersType, Put
<1>7. AccountType'
  <2>1. account' \in [cash : Int, realized : Int, fees : Int, funding : Int]
    <3>1. /\ account.cash - Fee(id) \in Int /\ account.realized - Fee(id) \in Int
          /\ account.fees + Fee(id) \in Int
      BY <1>4 DEF TypeOK, AccountType
    <3> QED BY <1>2, <3>1 DEF TypeOK, AccountType
  <2>2. fills' \in [Symbols -> [entry : Nat, exit : Nat]]
    BY <1>2, <1>4, FillsType DEF TypeOK
  <2> QED BY <1>2, <2>1, <2>2 DEF TypeOK, AccountType
<1>8. TickType'
  BY <1>1, <1>2, <1>6, ConsumeType DEF q
<1> QED BY <1>2, <1>5, <1>6, <1>7, <1>8 DEF TypeOK, EnvType

LEMMA GrossType ==
  ASSUME TypeOK, NEW id \in tick.todo, Executes(id), ReduceOnly(id)
  PROVE  Gross(id) \in Int
<1> DEFINE p == positions[orders[id].symbol]
<1>1. p \in Position /\ FillPrice(id) \in Int /\ FillQuantity(id) \in Int
  BY FillFacts
<1>2. Sign(p.side) \in Int /\ FillPrice(id) - p.entryPrice \in Int
  BY <1>1 DEF Sign, Position
<1>3. (FillPrice(id) - p.entryPrice) * FillQuantity(id) \in Int
  BY <1>1, <1>2
<1> QED BY <1>2, <1>3 DEF Gross

LEMMA ReducePositionType ==
  ASSUME TypeOK, NEW id \in tick.todo, ReducePosition(id)
  PROVE  TypeOK'
<1> DEFINE s == orders[id].symbol
           q == FillQuantity(id)
           p == positions[s]
<1>1. Executes(id) /\ ReduceOnly(id) /\ q > 0 /\ ~Closes(id)
  BY DEF ReducePosition
<1>2. /\ positions' = [positions EXCEPT ![s].quantity = @ - q,
                                        ![s].realized = @ + Gross(id) - Fee(id)]
      /\ orders' = [orders EXCEPT ![id] = AfterFill(id)]
      /\ fills' = [fills EXCEPT ![s].exit = @ + q]
      /\ account' = AfterExit(id) /\ Consume(id, q)
      /\ UNCHANGED <<closedPnl, now, emitted, consuming, emergencies>>
  BY DEF ReducePosition, env
<1>3. /\ id \in OrderIds /\ s \in Symbols /\ s \in DOMAIN positions /\ p \in Position
      /\ q \in Nat /\ Fee(id) \in Int /\ Gross(id) \in Int /\ AfterFill(id) \in Order
  BY <1>1, FillFacts, GrossType, AfterFillType
<1>4. q < p.quantity
  BY <1>1, <1>3 DEF Closes, Position
<1> HIDE DEF s, q
<1>5. PositionsType'
  <2>1. p.quantity - q \in Nat \ {0} /\ p.realized + Gross(id) - Fee(id) \in Int
    BY <1>3, <1>4 DEF Position
  <2>2. [p EXCEPT !.quantity = p.quantity - q, !.realized = p.realized + Gross(id) - Fee(id)]
          \in Position
    BY <1>3, <2>1 DEF Position
  <2>3. /\ DOMAIN positions' = DOMAIN positions
        /\ \A other \in DOMAIN positions \ {s} : positions'[other] = positions[other]
        /\ positions'[s] = [p EXCEPT !.quantity = p.quantity - q,
                                     !.realized = p.realized + Gross(id) - Fee(id)]
    BY <1>2, <1>3
  <2> HIDE DEF p
  <2> QED BY <2>2, <2>3 DEF TypeOK, PositionsType
<1>6. OrdersType' /\ DOMAIN orders' = DOMAIN orders
  BY <1>2, <1>3 DEF TypeOK, OrdersType
<1>7. AccountType'
  BY <1>2, <1>3, FillsType, AccountBookedType DEF TypeOK, AccountType
<1>8. TickType'
  BY <1>1, <1>2, <1>6, ConsumeType DEF q
<1> QED BY <1>2, <1>5, <1>6, <1>7, <1>8 DEF TypeOK, EnvType

LEMMA ClosePositionType ==
  ASSUME TypeOK, NEW id \in tick.todo, ClosePosition(id)
  PROVE  TypeOK'
<1> DEFINE s == orders[id].symbol
           q == FillQuantity(id)
           pnl == positions[s].realized + Gross(id) - Fee(id) + positions[s].funding
<1>1. Executes(id) /\ ReduceOnly(id) /\ q > 0
  BY DEF ClosePosition
<1>2. /\ positions' = [other \in DOMAIN positions \ {s} |-> positions[other]]
      /\ orders' = Put(CanceledWith(s, id), id, AfterFill(id))
      /\ fills' = [fills EXCEPT ![s].exit = @ + q]
      /\ account' = AfterExit(id) /\ Consume(id, q)
      /\ closedPnl' = closedPnl + pnl
      /\ UNCHANGED <<now, emitted, consuming, emergencies>>
  BY DEF ClosePosition, env
<1>3. /\ id \in OrderIds /\ s \in Symbols /\ positions[s] \in Position
      /\ q \in Nat /\ Fee(id) \in Int /\ Gross(id) \in Int /\ AfterFill(id) \in Order
  BY <1>1, FillFacts, GrossType, AfterFillType
<1>4. pnl \in Int
  BY <1>3 DEF Position
<1> HIDE DEF s, q, pnl
<1>5. PositionsType'
  BY <1>2 DEF TypeOK, PositionsType
<1>6. OrdersType' /\ DOMAIN orders \subseteq DOMAIN orders'
  <2>1. /\ DOMAIN CanceledWith(s, id) = DOMAIN orders
        /\ \A k \in DOMAIN orders : CanceledWith(s, id)[k] \in Order
    BY DEF TypeOK, OrdersType, CanceledWith, Order, Statuses
  <2> QED BY <1>2, <1>3, <2>1 DEF TypeOK, OrdersType, Put
<1>7. AccountType'
  BY <1>2, <1>3, <1>4, FillsType, AccountBookedType DEF TypeOK, AccountType
<1>8. TickType'
  BY <1>1, <1>2, <1>6, ConsumeType DEF q
<1> QED BY <1>2, <1>5, <1>6, <1>7, <1>8 DEF TypeOK, EnvType

LEMMA NoFillType ==
  ASSUME TypeOK, NEW id \in tick.todo, SkipOrder(id) \/ RefuseOrder(id) \/ StarveOrder(id)
  PROVE  TypeOK'
<1>1. /\ Advance(id, 0, 0)
      /\ UNCHANGED <<positions, account, fills, closedPnl, now, emitted, consuming, emergencies>>
  BY DEF SkipOrder, RefuseOrder, StarveOrder, ledger, env
<1>2. OrdersType' /\ DOMAIN orders' = DOMAIN orders
  <2>1. CASE RefuseOrder(id)
    <3>1. orders' = [orders EXCEPT ![id].status = IF ReduceOnly(id) THEN "CANCELED" ELSE "REJECTED"]
      BY <2>1 DEF RefuseOrder
    <3> QED BY <3>1 DEF TypeOK, OrdersType, Order, Statuses
  <2>2. CASE UNCHANGED orders
    BY <2>2 DEF TypeOK, OrdersType
  <2> QED BY <2>1, <2>2 DEF SkipOrder, StarveOrder, ledger
<1>3. TickType'
  BY <1>1, <1>2, AdvanceType DEF TypeOK, TickType
<1> QED BY <1>1, <1>2, <1>3 DEF TypeOK, PositionsType, AccountType, EnvType

-----------------------------------------------------------------------------
(* The handlers that start with an idle loop.                                *)

\* _apply_funding books an integer on the position and on the account.
LEMMA ApplyFundingType ==
  ASSUME TypeOK, NEW s \in Symbols, NEW m \in [time : Nat, bid : Nat, ask : Nat],
         ApplyFunding(s, m), UNCHANGED <<fills, closedPnl>>
  PROVE  PositionsType' /\ AccountType'
<1> DEFINE payment == FundingPayment(positions[s], m)
<1>1. CASE ~FundingDue(s, pendingFunding[s])
  BY <1>1 DEF ApplyFunding, TypeOK, PositionsType, AccountType
<1>2. CASE FundingDue(s, pendingFunding[s])
  <2>1. /\ positions' = [positions EXCEPT ![s].funding = @ + payment]
        /\ account' = [account EXCEPT !.cash = @ + payment, !.realized = @ + payment,
                                      !.funding = @ + payment]
    BY <1>2 DEF ApplyFunding
  <2>2. s \in DOMAIN positions /\ positions[s] \in Position
    BY <1>2 DEF FundingDue, TypeOK, PositionsType
  <2>3. payment \in Int
    <3>1. /\ Midpoint(m) \in Int /\ positions[s].quantity \in Int
          /\ Sign(positions[s].side) \in Int
      BY <2>2 DEF Midpoint, Position, Sign
    <3>2. (Midpoint(m) * positions[s].quantity * FundingBps) \div 10000 \in Int
      BY <3>1, SettingsAssumption
    <3> QED BY <3>1, <3>2 DEF FundingPayment
  <2> HIDE DEF payment
  <2>4. PositionsType'
    BY <2>1, <2>2, <2>3 DEF TypeOK, PositionsType, Position
  <2>5. AccountType'
    <3>1. /\ account.cash + payment \in Int /\ account.realized + payment \in Int
          /\ account.funding + payment \in Int
      BY <2>3 DEF TypeOK, AccountType
    <3> QED BY <2>1, <3>1 DEF TypeOK, AccountType
  <2> QED BY <2>4, <2>5
<1> QED BY <1>1, <1>2

LEMMA OnMarketType ==
  ASSUME TypeOK, NEW s \in Symbols, NEW at \in DeliveryWindow, NEW q \in Quotes,
         OnMarket(s, at, q)
  PROVE  TypeOK'
<1> DEFINE m == [time |-> at, bid |-> q.bid, ask |-> q.ask]
           todo == Scheduled(s, m, orders')
<1>1. /\ ApplyFunding(s, m) /\ orders' = WithTimeStop(s, at)
      /\ tick' = IF todo = {} THEN Idle
                 ELSE [market |-> m, bids |-> q.bidQty, asks |-> q.askQty, todo |-> todo]
      /\ UNCHANGED <<fills, closedPnl, now, emitted, consuming, emergencies>>
  BY DEF OnMarket, env
<1>2. at \in Nat /\ m \in [time : Nat, bid : Nat, ask : Nat] /\ q.bidQty \in Nat /\ q.askQty \in Nat
  BY DataAssumption DEF DeliveryWindow, TypeOK, EnvType
<1>3. PositionsType' /\ AccountType'
  BY <1>1, <1>2, ApplyFundingType
<1>4. OrdersType'
  <2>1. CASE orders' = orders
    BY <2>1 DEF TypeOK, OrdersType
  <2>2. CASE orders' # orders
    <3> DEFINE p == positions[s]
               o == ExitOrder(s, p, p.quantity, at, None)
    <3>1. p \in Position
      BY <1>1, <2>2 DEF WithTimeStop, TypeOK, PositionsType
    <3>2. Id("time", s, p.openedAt) \in OrderIds
      BY <3>1 DEF Id, OrderIds, Kinds, Position
    <3>3. o \in Order
      BY <1>2, <3>1, ExitOrderType DEF Position, None
    <3>4. orders' = Put(orders, Id("time", s, p.openedAt), o)
      BY <1>1, <2>2 DEF WithTimeStop
    <3> HIDE DEF o
    <3> QED BY <3>2, <3>3, <3>4, PutType DEF TypeOK, OrdersType
  <2> QED BY <2>1, <2>2
<1>5. TickType'
  <2>1. todo \subseteq DOMAIN orders' /\ todo \in SUBSET OrderIds
    BY <1>4 DEF Scheduled, OrdersType
  <2> HIDE DEF todo
  <2>2. CASE todo = {}
    BY <1>1, <2>2 DEF TickType, Idle, NoMarket, None
  <2>3. CASE todo # {}
    BY <1>1, <1>2, <2>1, <2>3 DEF TickType, None
  <2> QED BY <2>2, <2>3
<1> QED BY <1>1, <1>3, <1>4, <1>5 DEF TypeOK, EnvType

LEMMA OnSignalType ==
  ASSUME TypeOK, NEW sig \in Signals, NEW at \in DeliveryWindow,
         NEW healthy \in BOOLEAN, NEW synchronized \in BOOLEAN,
         OnSignal(sig, at, healthy, synchronized)
  PROVE  TypeOK'
<1>1. PICK approved \in BOOLEAN, n \in Nat :
        orders' = Put(orders, Id("entry", sig, 0), EntryOrder(sig, approved, n, at))
  <2>1. \/ \E n \in 1 .. MaxQuantity :
             orders' = Put(orders, Id("entry", sig, 0), EntryOrder(sig, TRUE, n, at))
        \/ orders' = Put(orders, Id("entry", sig, 0), EntryOrder(sig, FALSE, 0, at))
    BY DEF OnSignal
  <2>2. 1 .. MaxQuantity \subseteq Nat
    BY SettingsAssumption
  <2> QED BY <2>1, <2>2
<1>2. /\ tick = Idle /\ tick' = tick /\ emitted' = emitted \cup {sig}
      /\ UNCHANGED <<positions, account, fills, closedPnl, now, consuming, emergencies>>
  BY DEF OnSignal, ConsumerFree, LoopFree
<1>3. Id("entry", sig, 0) \in OrderIds
  BY DEF Id, OrderIds, Kinds
<1>4. EntryOrder(sig, approved, n, at) \in Order
  <2>1. at \in Nat
    BY DEF DeliveryWindow, TypeOK, EnvType
  <2>2. SignalOf[sig] \in [symbol : Symbols, side : Sides, entry : Nat, stop : Nat]
    BY DataAssumption
  <2>3. TakeProfitReference(sig) \in Int
    BY <2>2, SettingsAssumption DEF TakeProfitReference, Sign, Abs
  <2> QED BY <2>1, <2>2, <2>3 DEF EntryOrder, Order, Statuses, None
<1>5. OrdersType'
  BY <1>1, <1>3, <1>4, PutType DEF TypeOK, OrdersType
<1>6. TickType'
  BY <1>2 DEF TickType, Idle, NoMarket, None
<1> QED BY <1>2, <1>5, <1>6 DEF TypeOK, PositionsType, AccountType, EnvType

LEMMA EmergencyType ==
  ASSUME TypeOK, EmergencyCloseAll
  PROVE  TypeOK'
<1> DEFINE new == {Id("emergency", s, emergencies) : s \in DOMAIN positions}
<1>1. /\ tick = Idle /\ tick' = tick /\ emergencies' = emergencies + 1
      /\ orders' = WithEmergencyExits
      /\ UNCHANGED <<positions, account, fills, closedPnl, now, emitted, consuming>>
  BY DEF EmergencyCloseAll, LoopFree
<1>2. /\ DOMAIN orders' = DOMAIN orders \cup new
      /\ \A id \in new : orders'[id] =
           ExitOrder(id[2], positions[id[2]], positions[id[2]].quantity, now, None)
      /\ \A id \in DOMAIN orders \ new : orders'[id] = orders[id]
  BY <1>1 DEF WithEmergencyExits
<1>3. ASSUME NEW s \in DOMAIN positions
      PROVE  /\ Id("emergency", s, emergencies) \in OrderIds
             /\ Id("emergency", s, emergencies)[2] = s
             /\ ExitOrder(s, positions[s], positions[s].quantity, now, None) \in Order
  <2>1. s \in Symbols /\ positions[s] \in Position /\ now \in Nat /\ emergencies \in Nat
    BY DEF TypeOK, PositionsType, EnvType
  <2>2. Id("emergency", s, emergencies) \in OrderIds /\ Id("emergency", s, emergencies)[2] = s
    BY <2>1 DEF Id, OrderIds, Kinds
  <2>3. positions[s].quantity \in Nat /\ None \in Int
    BY <2>1 DEF Position, None
  <2> QED BY <2>1, <2>2, <2>3, ExitOrderType
<1>4. OrdersType'
  <2>1. \A id \in new : id \in OrderIds /\ orders'[id] \in Order
    BY <1>2, <1>3
  <2> HIDE DEF new
  <2> QED BY <1>2, <2>1 DEF TypeOK, OrdersType
<1>5. TickType'
  BY <1>1 DEF TickType, Idle, NoMarket, None
<1> QED BY <1>1, <1>4, <1>5 DEF TypeOK, PositionsType, AccountType, EnvType

LEMMA ResetType ==
  ASSUME TypeOK, Reset
  PROVE  TypeOK'
<1>1. /\ tick = Idle /\ tick' = tick /\ orders' = << >> /\ closedPnl' = 0
      /\ account' = [cash |-> InitialBalance, realized |-> 0, fees |-> 0, funding |-> 0]
      /\ fills' = [s \in Symbols |-> [entry |-> 0, exit |-> 0]]
      /\ UNCHANGED <<positions, now, emitted, consuming, emergencies>>
  BY DEF Reset, LoopFree, env
<1>2. DOMAIN orders' = {}
  BY <1>1
<1>3. TickType'
  BY <1>1 DEF TickType, Idle, NoMarket, None
<1>4. AccountType'
  BY <1>1, SettingsAssumption DEF AccountType
<1> QED BY <1>1, <1>2, <1>3, <1>4 DEF TypeOK, OrdersType, PositionsType, EnvType

\* The handlers that touch neither the ledger nor the loop.
LEMMA QuietType ==
  ASSUME TypeOK, UNCHANGED <<ledger, tick, emergencies>>,
         now' \in Nat, emitted' \subseteq Signals, consuming' \in BOOLEAN
  PROVE  TypeOK'
BY DEF TypeOK, OrdersType, PositionsType, AccountType, EnvType, TickType, ledger

-----------------------------------------------------------------------------
\* Type correctness: orders, positions, account, fills and the loop's state keep
\* the types that broker.py and models.py declare.
THEOREM TypeCorrect == Spec => []TypeOK
<1>1. Init => TypeOK
  <2> SUFFICES ASSUME Init PROVE TypeOK
    OBVIOUS
  <2>1. DOMAIN orders = {} /\ DOMAIN positions = {}
    BY DEF Init
  <2>2. AccountType
    BY SettingsAssumption DEF Init, AccountType
  <2>3. TickType
    BY DEF Init, TickType, Idle, NoMarket, None
  <2> QED BY <2>1, <2>2, <2>3 DEF Init, TypeOK, OrdersType, PositionsType, EnvType
<1>2. TypeOK /\ [Next]_vars => TypeOK'
  <2> SUFFICES ASSUME TypeOK, [Next]_vars PROVE TypeOK'
    OBVIOUS
  <2>1. CASE ClockTick
    BY <2>1, QuietType DEF ClockTick, TypeOK, EnvType
  <2>2. CASE MarketData
    <3>1. ASSUME NEW s \in Symbols, NEW at \in DeliveryWindow, NEW q \in Quotes,
                 OnMarket(s, at, q)
          PROVE  TypeOK'
      BY <3>1, OnMarketType
    <3>2. ASSUME NEW s \in Symbols, NEW at \in DeliveryWindow, NEW q \in Quotes,
                 OnMarketBackward(s, at, q)
          PROVE  TypeOK'
      BY <3>2, QuietType DEF OnMarketBackward, TypeOK, EnvType
    <3>3. ASSUME NEW s \in Symbols, NEW at \in DeliveryWindow, NEW next \in FundingTimes,
                 OnMarkPrice(s, at, next)
          PROVE  TypeOK'
      BY <3>3, QuietType DEF OnMarkPrice, TypeOK, EnvType, env
    <3> QED BY <2>2, <3>1, <3>2, <3>3 DEF MarketData
  <2>3. CASE Strategy
    <3>1. ASSUME NEW sig \in Signals, DropSignal(sig) PROVE TypeOK'
      BY <3>1, QuietType DEF DropSignal, TypeOK, EnvType
    <3>2. ASSUME NEW sig \in Signals, NEW at \in DeliveryWindow, NEW healthy \in BOOLEAN,
                 NEW synchronized \in BOOLEAN, OnSignal(sig, at, healthy, synchronized)
          PROVE  TypeOK'
      BY <3>2, OnSignalType
    <3> QED BY <2>3, <3>1, <3>2 DEF Strategy
  <2>4. CASE ExecuteOrder
    BY <2>4, NoFillType, FillEntryType, ReducePositionType, ClosePositionType DEF ExecuteOrder
  <2>5. CASE Controls
    <3>1. CASE PauseEntries \/ ResumeEntries
      BY <3>1, QuietType DEF PauseEntries, ResumeEntries, TypeOK, EnvType, env
    <3> QED BY <2>5, <3>1, EmergencyType, ResetType DEF Controls
  <2>6. CASE UNCHANGED vars
    BY <2>6, QuietType DEF vars, env, TypeOK, EnvType
  <2> QED BY <2>1, <2>2, <2>3, <2>4, <2>5, <2>6 DEF Next
<1> QED BY <1>1, <1>2, PTL DEF Spec

-----------------------------------------------------------------------------
(* Safety: positions, entries and fills agree.                               *)

\* Every entry order stems from a signal that has been emitted, so the entry of
\* a new signal replaces no order.
EntriesEmitted == \A id \in DOMAIN orders : ~ReduceOnly(id) => id[2] \in emitted

\* The inductive invariant.  EntryBacksPosition makes the entry that opened a
\* position the only one that can add to it, which RemainderHasPosition needs at
\* each entry fill; TypeOK bounds an exit by the position for
\* PositionMatchesFills.
LedgerInv ==
  /\ EntriesEmitted /\ EntryBacksPosition /\ RemainderHasPosition
  /\ PositionMatchesFills /\ CashIsRealized

\* A step that changes no entry order, no fill, and of the positions at most
\* what is booked on them, preserves the invariant.
LEMMA EntriesKept ==
  ASSUME LedgerInv,
         \A id \in DOMAIN orders : ~ReduceOnly(id) => id \in DOMAIN orders' /\ orders'[id] = orders[id],
         \A id \in DOMAIN orders' : ~ReduceOnly(id) => id \in DOMAIN orders,
         DOMAIN positions' = DOMAIN positions,
         \A s \in DOMAIN positions :
           /\ positions'[s].side = positions[s].side
           /\ positions'[s].quantity = positions[s].quantity
           /\ positions'[s].entryId = positions[s].entryId,
         emitted \subseteq emitted', fills' = fills, CashIsRealized'
  PROVE  LedgerInv'
<1>1. EntriesEmitted'
  BY DEF LedgerInv, EntriesEmitted, ReduceOnly
<1>2. EntryBacksPosition'
  BY DEF LedgerInv, EntryBacksPosition, ReduceOnly
<1>3. RemainderHasPosition'
  BY DEF LedgerInv, EntryBacksPosition, RemainderHasPosition, ReduceOnly
<1>4. PositionMatchesFills'
  BY DEF LedgerInv, PositionMatchesFills
<1> QED BY <1>1, <1>2, <1>3, <1>4 DEF LedgerInv

\* The orders that _create_protective_orders adds are exits.
LEMMA ProtectionKeepsEntries ==
  ASSUME NEW id, NEW p, NEW quantity
  PROVE  \A k : ~ReduceOnly(k) =>
           /\ k \in DOMAIN WithProtection(id, p, quantity) <=> k \in DOMAIN orders
           /\ k \in DOMAIN orders => WithProtection(id, p, quantity)[k] = orders[k]
<1> DEFINE stop == Id("stop", id[2], p.quantity)
           target == Id("take-profit", id[2], p.quantity)
<1>1. ReduceOnly(stop) /\ ReduceOnly(target)
  BY DEF ReduceOnly, Id
<1> HIDE DEF stop, target
<1>2. \A f, value : \A k : ~ReduceOnly(k) =>
        /\ k \in DOMAIN Put(f, stop, value) <=> k \in DOMAIN f
        /\ k \in DOMAIN f => Put(f, stop, value)[k] = f[k]
  BY <1>1 DEF Put
<1>3. \A f, value : \A k : ~ReduceOnly(k) =>
        /\ k \in DOMAIN Put(f, target, value) <=> k \in DOMAIN f
        /\ k \in DOMAIN f => Put(f, target, value)[k] = f[k]
  BY <1>1 DEF Put
<1> QED BY <1>2, <1>3 DEF WithProtection, stop, target

LEMMA FillEntrySafe ==
  ASSUME TypeOK, LedgerInv, NEW id \in tick.todo, FillEntry(id)
  PROVE  LedgerInv'
<1> DEFINE s == orders[id].symbol
           q == FillQuantity(id)
           p == EntryPosition(id)
<1>1. Executes(id) /\ ~ReduceOnly(id) /\ q > 0
  BY DEF FillEntry
<1>2. /\ positions' = Put(positions, s, p)
      /\ orders' = Put(WithProtection(id, p, q), id, AfterFill(id))
      /\ fills' = [fills EXCEPT ![s].entry = @ + q]
      /\ account' = [account EXCEPT !.cash = @ - Fee(id), !.realized = @ - Fee(id),
                                    !.fees = @ + Fee(id)]
      /\ emitted' = emitted
  BY DEF FillEntry, env
<1>3. /\ id \in DOMAIN orders /\ orders[id] \in Order /\ s \in Symbols
      /\ q \in Nat \ {0} /\ q <= Remaining(orders[id])
      /\ s \in DOMAIN positions => positions[s] \in Position /\ positions[s].entryId = id
      /\ Fee(id) \in Int
  BY <1>1, FillFacts DEF Executes, OwnPosition
<1>4. /\ p.side = orders[id].side /\ p.entryId = id
      /\ p.quantity = (IF s \in DOMAIN positions THEN positions[s].quantity ELSE 0) + q
  <2>1. CASE s \notin DOMAIN positions
    BY <1>3, <2>1 DEF EntryPosition
  <2>2. CASE s \in DOMAIN positions
    <3>1. positions[s].side = orders[id].side
      BY <1>3, <2>2 DEF LedgerInv, EntryBacksPosition
    <3> QED BY <1>3, <2>2, <3>1 DEF EntryPosition, Position
  <2> QED BY <2>1, <2>2
<1>5. /\ orders'[id].symbol = s /\ orders'[id].side = orders[id].side
      /\ orders'[id].filled = orders[id].filled + q
      /\ orders'[id].quantity = orders[id].quantity
      /\ id \in DOMAIN orders'
  BY <1>2, <1>3 DEF AfterFill, Order, Put
<1>6. \A k : ~ReduceOnly(k) /\ k # id =>
        /\ k \in DOMAIN orders' <=> k \in DOMAIN orders
        /\ k \in DOMAIN orders => orders'[k] = orders[k]
  BY <1>2, ProtectionKeepsEntries DEF Put
<1>7. /\ DOMAIN positions' = DOMAIN positions \cup {s} /\ positions'[s] = p
      /\ \A other \in DOMAIN positions \ {s} : positions'[other] = positions[other]
  <2> HIDE DEF s, p
  <2> QED BY <1>2 DEF Put
<1> HIDE DEF q, p
<1>8. EntriesEmitted'
  BY <1>1, <1>2, <1>3, <1>6 DEF LedgerInv, EntriesEmitted, ReduceOnly
<1>9. EntryBacksPosition'
  <2>1. ASSUME NEW other \in DOMAIN positions \ {s}
        PROVE  positions[other].entryId # id
    BY <2>1 DEF LedgerInv, EntryBacksPosition
  <2>2. p.quantity <= orders'[id].filled /\ orders'[id].filled <= orders'[id].quantity
    <3>1. orders[id].filled \in Nat /\ orders[id].quantity \in Nat
      BY <1>3 DEF Order
    <3>2. s \in DOMAIN positions =>
            positions[s].quantity \in Nat /\ positions[s].quantity <= orders[id].filled
      BY <1>3 DEF LedgerInv, EntryBacksPosition, Position
    <3> QED BY <1>3, <1>4, <1>5, <3>1, <3>2 DEF Remaining
  <2>3. \A other \in DOMAIN positions \ {s} :
          /\ positions[other].entryId \in DOMAIN orders'
          /\ orders'[positions[other].entryId] = orders[positions[other].entryId]
    BY <1>6, <2>1 DEF LedgerInv, EntryBacksPosition
  <2> HIDE DEF s
  <2> QED BY <1>1, <1>4, <1>5, <1>7, <2>2, <2>3 DEF LedgerInv, EntryBacksPosition, ReduceOnly
<1>10. RemainderHasPosition'
  BY <1>1, <1>3, <1>4, <1>5, <1>6, <1>7 DEF LedgerInv, RemainderHasPosition, ReduceOnly
<1>11. PositionMatchesFills'
  <2>1. fills[s].entry \in Nat /\ fills[s].exit \in Nat
    BY <1>3 DEF TypeOK, AccountType
  <2>2. fills'[s].entry = fills[s].entry + q /\ fills'[s].exit = fills[s].exit
    BY <1>2, <1>3 DEF TypeOK, AccountType
  <2>3. \A other \in Symbols \ {s} : fills'[other] = fills[other]
    BY <1>2 DEF TypeOK, AccountType
  <2>4. s \in DOMAIN positions => positions[s].quantity \in Nat
    BY <1>3 DEF Position
  <2> HIDE DEF s
  <2> QED BY <1>3, <1>4, <1>7, <2>1, <2>2, <2>3, <2>4 DEF LedgerInv, PositionMatchesFills
<1>12. CashIsRealized'
  <2>1. account.cash \in Int /\ account.realized \in Int /\ InitialBalance \in Int
    BY SettingsAssumption DEF TypeOK, AccountType
  <2>2. account'.cash = account.cash - Fee(id) /\ account'.realized = account.realized - Fee(id)
    BY <1>2 DEF TypeOK, AccountType
  <2> QED BY <1>3, <2>1, <2>2 DEF LedgerInv, CashIsRealized
<1> QED BY <1>8, <1>9, <1>10, <1>11, <1>12 DEF LedgerInv

LEMMA ReducePositionSafe ==
  ASSUME TypeOK, LedgerInv, NEW id \in tick.todo, ReducePosition(id)
  PROVE  LedgerInv'
<1> DEFINE s == orders[id].symbol
           q == FillQuantity(id)
<1>1. Executes(id) /\ ReduceOnly(id) /\ q > 0 /\ ~Closes(id)
  BY DEF ReducePosition
<1>2. /\ positions' = [positions EXCEPT ![s].quantity = @ - q,
                                        ![s].realized = @ + Gross(id) - Fee(id)]
      /\ orders' = [orders EXCEPT ![id] = AfterFill(id)]
      /\ fills' = [fills EXCEPT ![s].exit = @ + q]
      /\ account' = AfterExit(id) /\ emitted' = emitted
  BY DEF ReducePosition, env
<1>3. /\ s \in Symbols /\ s \in DOMAIN positions /\ positions[s] \in Position
      /\ q \in Nat \ {0} /\ Fee(id) \in Int /\ Gross(id) \in Int
  BY <1>1, FillFacts, GrossType
<1>4. DOMAIN orders' = DOMAIN orders /\ \A k : ~ReduceOnly(k) => orders'[k] = orders[k]
  BY <1>1, <1>2
<1>5. /\ DOMAIN positions' = DOMAIN positions
      /\ positions'[s].quantity = positions[s].quantity - q
      /\ positions'[s].side = positions[s].side
      /\ positions'[s].entryId = positions[s].entryId
      /\ \A other \in DOMAIN positions \ {s} : positions'[other] = positions[other]
  BY <1>2, <1>3 DEF Position
<1> HIDE DEF s, q
<1>6. EntriesEmitted'
  BY <1>2, <1>4 DEF LedgerInv, EntriesEmitted, ReduceOnly
<1>7. EntryBacksPosition'
  <2>1. ASSUME NEW other \in DOMAIN positions
        PROVE  positions'[other].quantity <= positions[other].quantity
    BY <1>3, <1>5 DEF TypeOK, PositionsType, Position
  <2>2. ASSUME NEW other \in DOMAIN positions
        PROVE  LET entry == positions[other].entryId
               IN  /\ entry \in DOMAIN orders' /\ orders'[entry] = orders[entry]
                   /\ ~ReduceOnly(entry) /\ positions'[other].entryId = entry
                   /\ positions'[other].side = positions[other].side
    BY <1>4, <1>5 DEF LedgerInv, EntryBacksPosition
  <2>3. ASSUME NEW other \in DOMAIN positions
        PROVE  positions'[other].quantity <= orders[positions[other].entryId].filled
    <3>1. orders[positions[other].entryId] \in Order /\ positions[other] \in Position
      BY DEF LedgerInv, EntryBacksPosition, TypeOK, OrdersType, PositionsType
    <3>2. positions'[other].quantity \in Int
      BY <1>3, <1>5, <3>1 DEF Position
    <3> QED BY <2>1, <3>1, <3>2 DEF LedgerInv, EntryBacksPosition, Order, Position
  <2> QED BY <1>5, <2>2, <2>3 DEF LedgerInv, EntryBacksPosition, ReduceOnly
<1>8. RemainderHasPosition'
  BY <1>4, <1>5 DEF LedgerInv, RemainderHasPosition, ReduceOnly
<1>9. PositionMatchesFills'
  <2>1. /\ fills[s].entry \in Nat /\ fills[s].exit \in Nat
        /\ fills'[s].entry = fills[s].entry /\ fills'[s].exit = fills[s].exit + q
        /\ \A other \in Symbols \ {s} : fills'[other] = fills[other]
    BY <1>2, <1>3 DEF TypeOK, AccountType
  <2> QED BY <1>3, <1>5, <2>1 DEF LedgerInv, PositionMatchesFills, Position
<1>10. CashIsRealized'
  BY <1>2, <1>3, SettingsAssumption
     DEF LedgerInv, CashIsRealized, AfterExit, TypeOK, AccountType
<1> QED BY <1>6, <1>7, <1>8, <1>9, <1>10 DEF LedgerInv

LEMMA ClosePositionSafe ==
  ASSUME TypeOK, LedgerInv, NEW id \in tick.todo, ClosePosition(id)
  PROVE  LedgerInv'
<1> DEFINE s == orders[id].symbol
           q == FillQuantity(id)
<1>1. Executes(id) /\ ReduceOnly(id) /\ q > 0 /\ Closes(id)
  BY DEF ClosePosition
<1>2. /\ positions' = [other \in DOMAIN positions \ {s} |-> positions[other]]
      /\ orders' = Put(CanceledWith(s, id), id, AfterFill(id))
      /\ fills' = [fills EXCEPT ![s].exit = @ + q]
      /\ account' = AfterExit(id) /\ emitted' = emitted
  BY DEF ClosePosition, env
<1>3. /\ s \in Symbols /\ s \in DOMAIN positions /\ positions[s] \in Position
      /\ id \in DOMAIN orders /\ q \in Nat \ {0} /\ q = positions[s].quantity
      /\ Fee(id) \in Int /\ Gross(id) \in Int
  BY <1>1, FillFacts, GrossType DEF Closes, Position
<1>4. /\ DOMAIN orders' = DOMAIN orders
      /\ \A k \in DOMAIN orders : ~ReduceOnly(k) =>
           orders'[k] = IF orders[k].symbol = s /\ Working(orders[k])
                        THEN [orders[k] EXCEPT !.status = "CANCELED"] ELSE orders[k]
  BY <1>1, <1>2, <1>3 DEF CanceledWith, Put
<1>5. ASSUME NEW k \in DOMAIN orders, ~ReduceOnly(k)
      PROVE  /\ orders'[k].symbol = orders[k].symbol /\ orders'[k].side = orders[k].side
             /\ orders'[k].quantity = orders[k].quantity /\ orders'[k].filled = orders[k].filled
             /\ orders[k].symbol # s => orders'[k].status = orders[k].status
             /\ orders[k].symbol = s => ~(orders'[k].status = "PARTIALLY_FILLED")
  <2>1. orders[k] \in Order
    BY DEF TypeOK, OrdersType
  <2> HIDE DEF s
  <2> QED BY <1>4, <1>5, <2>1 DEF Order, Working
<1>6. /\ DOMAIN positions' = DOMAIN positions \ {s}
      /\ \A other \in DOMAIN positions \ {s} : positions'[other] = positions[other]
  BY <1>2
<1> HIDE DEF s, q
<1>7. EntriesEmitted'
  BY <1>2, <1>4 DEF LedgerInv, EntriesEmitted, ReduceOnly
<1>8. EntryBacksPosition'
  BY <1>4, <1>5, <1>6 DEF LedgerInv, EntryBacksPosition, ReduceOnly
<1>9. RemainderHasPosition'
  BY <1>4, <1>5, <1>6 DEF LedgerInv, RemainderHasPosition, ReduceOnly
<1>10. PositionMatchesFills'
  <2>1. /\ fills[s].entry \in Nat /\ fills[s].exit \in Nat
        /\ fills'[s].entry = fills[s].entry /\ fills'[s].exit = fills[s].exit + q
        /\ \A other \in Symbols \ {s} : fills'[other] = fills[other]
    BY <1>2, <1>3 DEF TypeOK, AccountType
  <2> QED BY <1>3, <1>6, <2>1 DEF LedgerInv, PositionMatchesFills
<1>11. CashIsRealized'
  BY <1>2, <1>3, SettingsAssumption
     DEF LedgerInv, CashIsRealized, AfterExit, TypeOK, AccountType
<1> QED BY <1>7, <1>8, <1>9, <1>10, <1>11 DEF LedgerInv

LEMMA NoFillSafe ==
  ASSUME TypeOK, LedgerInv, NEW id \in tick.todo,
         SkipOrder(id) \/ RefuseOrder(id) \/ StarveOrder(id)
  PROVE  LedgerInv'
<1>1. UNCHANGED <<positions, account, fills, emitted>>
  BY DEF SkipOrder, RefuseOrder, StarveOrder, ledger, env
<1>2. CashIsRealized'
  BY <1>1 DEF LedgerInv, CashIsRealized
<1>3. CASE UNCHANGED orders
  BY <1>1, <1>2, <1>3, EntriesKept
<1>4. CASE RefuseOrder(id) /\ ReduceOnly(id)
  <2>1. DOMAIN orders' = DOMAIN orders /\ \A k : ~ReduceOnly(k) => orders'[k] = orders[k]
    BY <1>4 DEF RefuseOrder
  <2> QED BY <1>1, <1>2, <2>1, EntriesKept
<1>5. CASE RefuseOrder(id) /\ ~ReduceOnly(id)
  <2>1. /\ id \in DOMAIN orders /\ orders[id] \in Order
        /\ orders' = [orders EXCEPT ![id].status = "REJECTED"]
    BY <1>5 DEF RefuseOrder, TypeOK, TickType, OrdersType
  <2>2. /\ DOMAIN orders' = DOMAIN orders
        /\ orders'[id].symbol = orders[id].symbol /\ orders'[id].side = orders[id].side
        /\ orders'[id].quantity = orders[id].quantity /\ orders'[id].filled = orders[id].filled
        /\ orders'[id].status = "REJECTED"
        /\ \A k \in DOMAIN orders \ {id} : orders'[k] = orders[k]
    BY <2>1 DEF Order
  <2>3. EntriesEmitted' /\ EntryBacksPosition'
    BY <1>1, <2>1, <2>2 DEF LedgerInv, EntriesEmitted, EntryBacksPosition, ReduceOnly
  <2>4. RemainderHasPosition'
    BY <1>1, <2>1, <2>2 DEF LedgerInv, RemainderHasPosition, ReduceOnly
  <2>5. PositionMatchesFills'
    BY <1>1 DEF LedgerInv, PositionMatchesFills
  <2> QED BY <1>2, <2>3, <2>4, <2>5 DEF LedgerInv
<1> QED BY <1>3, <1>4, <1>5 DEF SkipOrder, StarveOrder, ledger

LEMMA OnMarketSafe ==
  ASSUME TypeOK, LedgerInv, NEW s \in Symbols, NEW at \in DeliveryWindow, NEW q \in Quotes,
         OnMarket(s, at, q)
  PROVE  LedgerInv'
<1> DEFINE m == [time |-> at, bid |-> q.bid, ask |-> q.ask]
<1>1. ApplyFunding(s, m) /\ orders' = WithTimeStop(s, at) /\ UNCHANGED <<fills, emitted, closedPnl>>
  BY DEF OnMarket, env
<1>2. /\ \A k \in DOMAIN orders : ~ReduceOnly(k) => k \in DOMAIN orders' /\ orders'[k] = orders[k]
      /\ \A k \in DOMAIN orders' : ~ReduceOnly(k) => k \in DOMAIN orders
  <2>1. ReduceOnly(Id("time", s, positions[s].openedAt))
    BY DEF ReduceOnly, Id
  <2> QED BY <1>1, <2>1 DEF WithTimeStop, Put
<1>3. /\ DOMAIN positions' = DOMAIN positions
      /\ \A other \in DOMAIN positions :
           /\ positions'[other].side = positions[other].side
           /\ positions'[other].quantity = positions[other].quantity
           /\ positions'[other].entryId = positions[other].entryId
  BY <1>1 DEF ApplyFunding, TypeOK, PositionsType, Position
<1>4. CashIsRealized'
  <2>1. CASE account' = account
    BY <2>1 DEF LedgerInv, CashIsRealized
  <2>2. CASE account' # account
    <3> DEFINE payment == FundingPayment(positions[s], m)
    <3>1. account' = [account EXCEPT !.cash = @ + payment, !.realized = @ + payment,
                                     !.funding = @ + payment]
      BY <1>1, <2>2 DEF ApplyFunding
    <3>2. account'.cash = account.cash + payment /\ account'.realized = account.realized + payment
      BY <3>1 DEF TypeOK, AccountType
    <3>3. payment \in Int
      <4>1. positions[s] \in Position /\ at \in Nat
        BY <1>1, <2>2
           DEF ApplyFunding, FundingDue, TypeOK, PositionsType, EnvType, DeliveryWindow
      <4>2. /\ Midpoint(m) \in Int /\ positions[s].quantity \in Int
            /\ Sign(positions[s].side) \in Int
        BY <4>1, DataAssumption DEF Midpoint, Position, Sign
      <4>3. (Midpoint(m) * positions[s].quantity * FundingBps) \div 10000 \in Int
        BY <4>2, SettingsAssumption
      <4> QED BY <4>2, <4>3 DEF FundingPayment
    <3> HIDE DEF payment
    <3> QED BY <3>2, <3>3, SettingsAssumption DEF LedgerInv, CashIsRealized, TypeOK, AccountType
  <2> QED BY <2>1, <2>2
<1> QED BY <1>1, <1>2, <1>3, <1>4, EntriesKept

LEMMA OnSignalSafe ==
  ASSUME TypeOK, LedgerInv, NEW sig \in Signals, NEW at \in DeliveryWindow,
         NEW healthy \in BOOLEAN, NEW synchronized \in BOOLEAN,
         OnSignal(sig, at, healthy, synchronized)
  PROVE  LedgerInv'
<1> DEFINE new == Id("entry", sig, 0)
<1>1. PICK approved \in BOOLEAN, n \in Nat :
        orders' = Put(orders, new, EntryOrder(sig, approved, n, at))
  <2>1. \/ \E n \in 1 .. MaxQuantity :
             orders' = Put(orders, Id("entry", sig, 0), EntryOrder(sig, TRUE, n, at))
        \/ orders' = Put(orders, Id("entry", sig, 0), EntryOrder(sig, FALSE, 0, at))
    BY DEF OnSignal
  <2>2. 1 .. MaxQuantity \subseteq Nat
    BY SettingsAssumption
  <2> QED BY <2>1, <2>2
<1>2. /\ sig \notin emitted /\ emitted' = emitted \cup {sig}
      /\ UNCHANGED <<positions, account, fills>>
  BY DEF OnSignal
<1>3. new \notin DOMAIN orders /\ new[2] = sig /\ ~ReduceOnly(new)
  <2>1. new[2] = sig /\ ~ReduceOnly(new)
    BY DEF Id, ReduceOnly
  <2> QED BY <1>2, <2>1 DEF LedgerInv, EntriesEmitted
<1>4. EntryOrder(sig, approved, n, at).status \in {"PENDING", "REJECTED"}
  BY DEF EntryOrder
<1> HIDE DEF new
<1>5. /\ DOMAIN orders' = DOMAIN orders \cup {new}
      /\ orders'[new].status \in {"PENDING", "REJECTED"}
      /\ \A k \in DOMAIN orders : orders'[k] = orders[k]
  BY <1>1, <1>3, <1>4 DEF Put
<1>6. EntriesEmitted'
  BY <1>2, <1>3, <1>5 DEF LedgerInv, EntriesEmitted, ReduceOnly
<1>7. EntryBacksPosition'
  BY <1>2, <1>5 DEF LedgerInv, EntryBacksPosition, ReduceOnly
<1>8. RemainderHasPosition'
  BY <1>2, <1>5 DEF LedgerInv, RemainderHasPosition, ReduceOnly
<1>9. PositionMatchesFills' /\ CashIsRealized'
  BY <1>2 DEF LedgerInv, PositionMatchesFills, CashIsRealized
<1> QED BY <1>6, <1>7, <1>8, <1>9 DEF LedgerInv

LEMMA EmergencySafe ==
  ASSUME TypeOK, LedgerInv, EmergencyCloseAll
  PROVE  LedgerInv'
<1> DEFINE new == {Id("emergency", s, emergencies) : s \in DOMAIN positions}
<1>1. /\ orders' = WithEmergencyExits /\ UNCHANGED <<positions, account, fills, emitted>>
  BY DEF EmergencyCloseAll
<1>2. \A k \in new : ReduceOnly(k)
  BY DEF ReduceOnly, Id
<1>3. DOMAIN orders' = DOMAIN orders \cup new /\ \A k \in DOMAIN orders \ new : orders'[k] = orders[k]
  BY <1>1 DEF WithEmergencyExits
<1>4. CashIsRealized'
  BY <1>1 DEF LedgerInv, CashIsRealized
<1> HIDE DEF new
<1> QED BY <1>1, <1>2, <1>3, <1>4, EntriesKept

LEMMA ResetSafe ==
  ASSUME TypeOK, LedgerInv, Reset
  PROVE  LedgerInv'
<1>1. /\ DOMAIN orders' = {} /\ DOMAIN positions' = {}
      /\ account'.cash = InitialBalance /\ account'.realized = 0
      /\ fills' = [s \in Symbols |-> [entry |-> 0, exit |-> 0]]
  BY DEF Reset
<1> QED BY <1>1, SettingsAssumption
        DEF LedgerInv, EntriesEmitted, EntryBacksPosition, RemainderHasPosition,
            PositionMatchesFills, CashIsRealized

LEMMA QuietSafe ==
  ASSUME LedgerInv, UNCHANGED ledger, emitted \subseteq emitted'
  PROVE  LedgerInv'
<1>1. UNCHANGED <<orders, positions, account, fills>>
  BY DEF ledger
<1>2. CashIsRealized'
  BY <1>1 DEF LedgerInv, CashIsRealized
<1> QED BY <1>1, <1>2, EntriesKept

-----------------------------------------------------------------------------
\* The ledger's invariant: the entry behind every position is known and alone
\* (EntryBacksPosition, RemainderHasPosition), the fills net out to the open
\* quantity (PositionMatchesFills) and the cash to the realized result.
THEOREM LedgerInvariant == Spec => []LedgerInv
<1>1. Init => LedgerInv
  BY SettingsAssumption
     DEF Init, LedgerInv, EntriesEmitted, EntryBacksPosition, RemainderHasPosition,
         PositionMatchesFills, CashIsRealized
<1>2. TypeOK /\ LedgerInv /\ [Next]_vars => LedgerInv'
  <2> SUFFICES ASSUME TypeOK, LedgerInv, [Next]_vars PROVE LedgerInv'
    OBVIOUS
  <2>1. CASE ClockTick
    BY <2>1, QuietSafe DEF ClockTick
  <2>2. CASE MarketData
    <3>1. ASSUME NEW s \in Symbols, NEW at \in DeliveryWindow, NEW q \in Quotes,
                 OnMarketBackward(s, at, q)
          PROVE  LedgerInv'
      BY <3>1, QuietSafe DEF OnMarketBackward
    <3>2. ASSUME NEW s \in Symbols, NEW at \in DeliveryWindow, NEW next \in FundingTimes,
                 OnMarkPrice(s, at, next)
          PROVE  LedgerInv'
      BY <3>2, QuietSafe DEF OnMarkPrice, env
    <3> QED BY <2>2, <3>1, <3>2, OnMarketSafe DEF MarketData
  <2>3. CASE Strategy
    <3>1. ASSUME NEW sig \in Signals, DropSignal(sig) PROVE LedgerInv'
      BY <3>1, QuietSafe DEF DropSignal
    <3> QED BY <2>3, <3>1, OnSignalSafe DEF Strategy
  <2>4. CASE ExecuteOrder
    BY <2>4, NoFillSafe, FillEntrySafe, ReducePositionSafe, ClosePositionSafe DEF ExecuteOrder
  <2>5. CASE Controls
    <3>1. CASE PauseEntries \/ ResumeEntries
      BY <3>1, QuietSafe DEF PauseEntries, ResumeEntries, env
    <3> QED BY <2>5, <3>1, EmergencySafe, ResetSafe DEF Controls
  <2>6. CASE UNCHANGED vars
    BY <2>6, QuietSafe DEF vars, env
  <2> QED BY <2>1, <2>2, <2>3, <2>4, <2>5, <2>6 DEF Next
<1> QED BY <1>1, <1>2, TypeCorrect, PTL DEF Spec

\* No exit ever reverses a position: what has been filled nets out to what is
\* open (README: reduce-only exits).
THEOREM FillsMatchPositions == Spec => []PositionMatchesFills
<1>1. LedgerInv => PositionMatchesFills
  BY DEF LedgerInv
<1> QED BY <1>1, LedgerInvariant, PTL

\* A position is fed by the one entry order that opened it, within that order's
\* approved quantity (_execute's check of entry_order_id).
THEOREM OneEntryPerPosition == Spec => [](EntryBacksPosition /\ RemainderHasPosition)
<1>1. LedgerInv => EntryBacksPosition /\ RemainderHasPosition
  BY DEF LedgerInv
<1> QED BY <1>1, LedgerInvariant, PTL

-----------------------------------------------------------------------------
(* Safety: what a step may not do to an entry, to the funding and to an exit. *)

\* Of the entry orders, a step changes none that is done.
EntriesStay ==
  \A id \in DOMAIN orders \cap DOMAIN orders' :
    ~ReduceOnly(id) /\ ~Working(orders[id]) => orders'[id] = orders[id]

LEMMA FillEntryKeepsDone ==
  ASSUME NEW id \in tick.todo, FillEntry(id)
  PROVE  EntriesStay
<1>1. /\ Working(orders[id])
      /\ orders' = Put(WithProtection(id, EntryPosition(id), FillQuantity(id)), id, AfterFill(id))
  BY DEF FillEntry, Executes
<1>2. \A k : ~ReduceOnly(k) /\ k # id /\ k \in DOMAIN orders => orders'[k] = orders[k]
  BY <1>1, ProtectionKeepsEntries DEF Put
<1> QED BY <1>1, <1>2 DEF EntriesStay

LEMMA ExitKeepsDone ==
  ASSUME NEW id \in tick.todo, ReducePosition(id) \/ ClosePosition(id)
  PROVE  EntriesStay
<1>1. ReduceOnly(id)
  BY DEF ReducePosition, ClosePosition
<1>2. CASE ReducePosition(id)
  <2>1. orders' = [orders EXCEPT ![id] = AfterFill(id)]
    BY <1>2 DEF ReducePosition
  <2> QED BY <1>1, <2>1 DEF EntriesStay
<1>3. CASE ClosePosition(id)
  <2>1. orders' = Put(CanceledWith(orders[id].symbol, id), id, AfterFill(id))
    BY <1>3 DEF ClosePosition
  <2> QED BY <1>1, <2>1 DEF EntriesStay, CanceledWith, Put
<1> QED BY <1>2, <1>3

LEMMA NoFillKeepsDone ==
  ASSUME NEW id \in tick.todo, SkipOrder(id) \/ RefuseOrder(id) \/ StarveOrder(id)
  PROVE  EntriesStay
<1>1. CASE RefuseOrder(id)
  <2>1. Working(orders[id])
    BY <1>1 DEF RefuseOrder
  <2>2. \A k \in DOMAIN orders : k # id => orders'[k] = orders[k]
    BY <1>1 DEF RefuseOrder
  <2> QED BY <2>1, <2>2 DEF EntriesStay
<1>2. CASE UNCHANGED orders
  BY <1>2 DEF EntriesStay
<1> QED BY <1>1, <1>2 DEF SkipOrder, StarveOrder, ledger

LEMMA HandlersKeepDone ==
  ASSUME LedgerInv, MarketData \/ Strategy \/ Controls
  PROVE  EntriesStay
<1>1. CASE UNCHANGED orders
  BY <1>1 DEF EntriesStay
<1>2. ASSUME NEW s \in Symbols, NEW at \in DeliveryWindow, NEW q \in Quotes, OnMarket(s, at, q)
      PROVE  EntriesStay
  <2>1. orders' = WithTimeStop(s, at)
    BY <1>2 DEF OnMarket
  <2>2. ReduceOnly(Id("time", s, positions[s].openedAt))
    BY DEF ReduceOnly, Id
  <2> QED BY <2>1, <2>2 DEF EntriesStay, WithTimeStop, Put
<1>3. ASSUME NEW sig \in Signals, NEW at \in DeliveryWindow,
             NEW healthy \in BOOLEAN, NEW synchronized \in BOOLEAN,
             OnSignal(sig, at, healthy, synchronized)
      PROVE  EntriesStay
  <2>1. \E order : orders' = Put(orders, Id("entry", sig, 0), order)
    BY <1>3 DEF OnSignal
  <2>2. Id("entry", sig, 0) \notin DOMAIN orders
    <3>1. sig \notin emitted
      BY <1>3 DEF OnSignal
    <3>2. ~ReduceOnly(Id("entry", sig, 0)) /\ Id("entry", sig, 0)[2] = sig
      BY DEF ReduceOnly, Id
    <3> QED BY <3>1, <3>2 DEF LedgerInv, EntriesEmitted
  <2> QED BY <2>1, <2>2 DEF EntriesStay, Put
<1>4. CASE EmergencyCloseAll
  <2> DEFINE new == {Id("emergency", s, emergencies) : s \in DOMAIN positions}
  <2>1. \A k \in new : ReduceOnly(k)
    BY DEF ReduceOnly, Id
  <2>2. \A k \in DOMAIN orders \ new : orders'[k] = orders[k]
    BY <1>4 DEF EmergencyCloseAll, WithEmergencyExits
  <2> QED BY <2>1, <2>2 DEF EntriesStay
<1>5. CASE Reset
  <2>1. DOMAIN orders' = {}
    BY <1>5 DEF Reset
  <2> QED BY <2>1 DEF EntriesStay
<1>6. CASE Controls
  BY <1>1, <1>4, <1>5, <1>6 DEF Controls, PauseEntries, ResumeEntries, ledger
<1>7. CASE Strategy
  BY <1>1, <1>3, <1>7 DEF Strategy, DropSignal, ledger
<1>8. CASE MarketData
  BY <1>1, <1>2, <1>8 DEF MarketData, OnMarketBackward, OnMarkPrice, ledger
<1> QED BY <1>6, <1>7, <1>8

\* An entry order that is filled, canceled or rejected is never touched again:
\* no execution of a late turn, no second signal of the same identity.
THEOREM EntryOutcomeStands == Spec => EntryOutcomeFinal
<1>1. LedgerInv /\ [Next]_vars => [EntriesStay]_vars
  <2> SUFFICES ASSUME LedgerInv, Next PROVE EntriesStay
    OBVIOUS
  <2>1. CASE ClockTick
    BY <2>1 DEF ClockTick, ledger, EntriesStay
  <2>2. CASE ExecuteOrder
    BY <2>2, FillEntryKeepsDone, ExitKeepsDone, NoFillKeepsDone DEF ExecuteOrder
  <2> QED BY <2>1, <2>2, HandlersKeepDone DEF Next
<1> QED BY <1>1, LedgerInvariant, PTL DEF Spec, EntryOutcomeFinal, EntriesStay

\* What a step adds to a position's funding is the payment of an event not charged
\* before.
FundingBooked ==
  \A s \in DOMAIN positions \cap DOMAIN positions' :
    positions'[s].funding # positions[s].funding =>
      pendingFunding[s] \in fundingEvents' \ fundingEvents

LEMMA ExecutionPaysNoFunding ==
  ASSUME TypeOK, ExecuteOrder
  PROVE  \A s \in DOMAIN positions \cap DOMAIN positions' :
           positions'[s].funding = positions[s].funding
<1>1. PICK id \in tick.todo :
        \/ SkipOrder(id) \/ RefuseOrder(id) \/ StarveOrder(id)
        \/ FillEntry(id) \/ ReducePosition(id) \/ ClosePosition(id)
  BY DEF ExecuteOrder
<1> DEFINE s == orders[id].symbol
<1>2. CASE SkipOrder(id) \/ RefuseOrder(id) \/ StarveOrder(id)
  BY <1>2 DEF SkipOrder, RefuseOrder, StarveOrder, ledger
<1>3. CASE FillEntry(id)
  <2>1. positions' = Put(positions, s, EntryPosition(id))
    BY <1>3 DEF FillEntry
  <2>2. s \in DOMAIN positions => EntryPosition(id).funding = positions[s].funding
    BY DEF EntryPosition, TypeOK, PositionsType, Position
  <2> HIDE DEF s
  <2> QED BY <2>1, <2>2 DEF Put
<1>4. CASE ReducePosition(id)
  <2>1. positions' = [positions EXCEPT ![s].quantity = @ - FillQuantity(id),
                                       ![s].realized = @ + Gross(id) - Fee(id)]
    BY <1>4 DEF ReducePosition
  <2> HIDE DEF s
  <2> QED BY <2>1 DEF TypeOK, PositionsType, Position
<1>5. CASE ClosePosition(id)
  BY <1>5 DEF ClosePosition
<1> QED BY <1>1, <1>2, <1>3, <1>4, <1>5

\* A funding event is charged to a position at most once (_apply_funding keeps the
\* identities of the events it has charged).
THEOREM FundingIsChargedOnce == Spec => FundingChargedOnce
<1>1. TypeOK /\ [Next]_vars => [FundingBooked]_vars
  <2> SUFFICES ASSUME TypeOK, Next PROVE FundingBooked
    OBVIOUS
  <2>1. CASE UNCHANGED positions
    BY <2>1 DEF FundingBooked
  <2>2. CASE ExecuteOrder
    BY <2>2, ExecutionPaysNoFunding DEF FundingBooked
  <2>3. ASSUME NEW s \in Symbols, NEW at \in DeliveryWindow, NEW q \in Quotes, OnMarket(s, at, q)
        PROVE  FundingBooked
    <3> DEFINE m == [time |-> at, bid |-> q.bid, ask |-> q.ask]
    <3>1. ApplyFunding(s, m)
      BY <2>3 DEF OnMarket
    <3>2. CASE ~FundingDue(s, pendingFunding[s])
      BY <2>1, <3>1, <3>2 DEF ApplyFunding
    <3>3. CASE FundingDue(s, pendingFunding[s])
      <4>1. /\ \A other \in DOMAIN positions : other # s => positions'[other] = positions[other]
            /\ fundingEvents' = fundingEvents \cup {pendingFunding[s]}
            /\ pendingFunding[s] \notin fundingEvents
        BY <3>1, <3>3 DEF ApplyFunding, FundingDue
      <4> QED BY <4>1 DEF FundingBooked
    <3> QED BY <3>2, <3>3
  <2>4. CASE MarketData
    BY <2>1, <2>3, <2>4 DEF MarketData, OnMarketBackward, OnMarkPrice, ledger
  <2>5. CASE ClockTick \/ Strategy \/ Controls
    BY <2>1, <2>5 DEF ClockTick, Strategy, DropSignal, OnSignal, Controls, EmergencyCloseAll,
                      PauseEntries, ResumeEntries, Reset, ledger
  <2> QED BY <2>2, <2>4, <2>5 DEF Next
<1> QED BY <1>1, TypeCorrect, PTL DEF Spec, FundingChargedOnce, FundingBooked

-----------------------------------------------------------------------------
(* Safety: the exits that work without a position.                           *)

LEMMA ExecutionLeavesPartial ==
  ASSUME TypeOK, LeftoverExitIsPartial, ExecuteOrder
  PROVE  LeftoverExitIsPartial'
<1>1. PICK id \in tick.todo :
        \/ SkipOrder(id) \/ RefuseOrder(id) \/ StarveOrder(id)
        \/ FillEntry(id) \/ ReducePosition(id) \/ ClosePosition(id)
  BY DEF ExecuteOrder
<1> DEFINE s == orders[id].symbol
<1>2. /\ id \in DOMAIN orders /\ orders[id] \in Order
      /\ \A k \in DOMAIN orders : orders[k] \in Order
  BY DEF TypeOK, TickType, OrdersType
<1>3. CASE SkipOrder(id) \/ StarveOrder(id)
  BY <1>3 DEF SkipOrder, StarveOrder, ledger, LeftoverExitIsPartial, Working
<1>4. CASE RefuseOrder(id)
  <2>1. /\ positions' = positions /\ DOMAIN orders' = DOMAIN orders
        /\ orders'[id].status \in {"CANCELED", "REJECTED"}
        /\ \A k \in DOMAIN orders : k # id => orders'[k] = orders[k]
    BY <1>2, <1>4 DEF RefuseOrder, Order
  <2> QED BY <2>1 DEF LeftoverExitIsPartial, Working
<1>5. CASE FillEntry(id)
  <2> DEFINE p == EntryPosition(id)
             q == FillQuantity(id)
             at == tick.market.time
             stop == Id("stop", id[2], p.quantity)
             target == Id("take-profit", id[2], p.quantity)
  <2>1. /\ ~ReduceOnly(id) /\ positions' = Put(positions, s, p)
        /\ orders' = Put(Put(Put(orders, stop, ExitOrder(s, p, q, at, p.stop)),
                             target, ExitOrder(s, p, q, at, p.takeProfit)), id, AfterFill(id))
    BY <1>5 DEF FillEntry, WithProtection
  <2>2. \A n, trigger : ExitOrder(s, p, n, at, trigger).symbol = s
    BY DEF ExitOrder
  <2> HIDE DEF p, q, s, stop, target
  <2>3. s \in DOMAIN positions' /\ DOMAIN positions \subseteq DOMAIN positions'
    BY <2>1 DEF Put
  <2>4. \A k \in DOMAIN orders' \ {id} : orders'[k].symbol = s \/ (k \in DOMAIN orders /\ orders'[k] = orders[k])
    BY <2>1, <2>2 DEF Put
  <2> QED BY <2>1, <2>3, <2>4 DEF LeftoverExitIsPartial
<1>6. CASE ReducePosition(id)
  <2>1. /\ DOMAIN positions' = DOMAIN positions /\ DOMAIN orders' = DOMAIN orders
        /\ s \in DOMAIN positions /\ orders'[id].symbol = s
        /\ \A k \in DOMAIN orders : k # id => orders'[k] = orders[k]
    BY <1>2, <1>6 DEF ReducePosition, AfterFill, Order, Executes, OwnPosition
  <2> QED BY <2>1 DEF LeftoverExitIsPartial
<1>7. CASE ClosePosition(id)
  <2>1. /\ positions' = [other \in DOMAIN positions \ {s} |-> positions[other]]
        /\ orders' = Put(CanceledWith(s, id), id, AfterFill(id))
    BY <1>7 DEF ClosePosition
  <2>2. AfterFill(id).status \in {"FILLED", "PARTIALLY_FILLED"}
    BY <1>2 DEF AfterFill, Order
  <2>3. orders'[id].status \in {"FILLED", "PARTIALLY_FILLED"} /\ DOMAIN orders' = DOMAIN orders
    BY <1>2, <2>1, <2>2 DEF Put, CanceledWith
  <2>4. ASSUME NEW k \in DOMAIN orders, k # id
        PROVE  \/ orders[k].symbol # s /\ orders'[k] = orders[k]
               \/ ~Working(orders'[k])
    <3>1. orders'[k] = IF orders[k].symbol = s /\ Working(orders[k])
                       THEN [orders[k] EXCEPT !.status = "CANCELED"] ELSE orders[k]
      BY <1>2, <2>1, <2>4 DEF Put, CanceledWith
    <3>2. orders[k] \in Order
      BY <1>2
    <3> HIDE DEF s
    <3> QED BY <3>1, <3>2 DEF Order, Working
  <2> HIDE DEF s
  <2>5. DOMAIN positions' = DOMAIN positions \ {s}
    BY <2>1
  <2> QED BY <2>3, <2>4, <2>5 DEF LeftoverExitIsPartial, Working
<1> QED BY <1>1, <1>3, <1>4, <1>5, <1>6, <1>7

LEMMA HandlersLeavePartial ==
  ASSUME TypeOK, LeftoverExitIsPartial, ClockTick \/ MarketData \/ Strategy \/ Controls
  PROVE  LeftoverExitIsPartial'
<1>1. CASE UNCHANGED <<orders, positions>>
  BY <1>1 DEF LeftoverExitIsPartial
<1>2. ASSUME NEW s \in Symbols, NEW at \in DeliveryWindow, NEW q \in Quotes, OnMarket(s, at, q)
      PROVE  LeftoverExitIsPartial'
  <2>1. DOMAIN positions' = DOMAIN positions /\ orders' = WithTimeStop(s, at)
    BY <1>2 DEF OnMarket, ApplyFunding
  <2>2. \A k \in DOMAIN orders' :
          (k \in DOMAIN orders /\ orders'[k] = orders[k]) \/ (orders'[k].symbol = s /\ s \in DOMAIN positions)
    BY <2>1 DEF WithTimeStop, Put, ExitOrder
  <2> QED BY <2>1, <2>2 DEF LeftoverExitIsPartial
<1>3. ASSUME NEW sig \in Signals, NEW at \in DeliveryWindow,
             NEW healthy \in BOOLEAN, NEW synchronized \in BOOLEAN,
             OnSignal(sig, at, healthy, synchronized)
      PROVE  LeftoverExitIsPartial'
  <2>1. (\E order : orders' = Put(orders, Id("entry", sig, 0), order)) /\ positions' = positions
    BY <1>3 DEF OnSignal
  <2>2. ~ReduceOnly(Id("entry", sig, 0))
    BY DEF ReduceOnly, Id
  <2> QED BY <2>1, <2>2 DEF LeftoverExitIsPartial, Put
<1>4. CASE EmergencyCloseAll
  <2> DEFINE new == {Id("emergency", s, emergencies) : s \in DOMAIN positions}
  <2>1. /\ positions' = positions
        /\ \A k \in DOMAIN orders \ new : orders'[k] = orders[k]
        /\ DOMAIN orders' = DOMAIN orders \cup new
        /\ \A k \in new : orders'[k].symbol = k[2]
    BY <1>4 DEF EmergencyCloseAll, WithEmergencyExits, ExitOrder
  <2>2. \A k \in new : k[2] \in DOMAIN positions
    BY DEF Id
  <2> QED BY <2>1, <2>2 DEF LeftoverExitIsPartial
<1>5. CASE Reset
  BY <1>5 DEF Reset, LeftoverExitIsPartial
<1>6. CASE ClockTick \/ Controls
  BY <1>1, <1>4, <1>5, <1>6 DEF Controls, ClockTick, PauseEntries, ResumeEntries, ledger
<1>7. CASE Strategy
  BY <1>1, <1>3, <1>7 DEF Strategy, DropSignal, ledger
<1>8. CASE MarketData
  BY <1>1, <1>2, <1>8 DEF MarketData, OnMarketBackward, OnMarkPrice, ledger
<1> QED BY <1>6, <1>7, <1>8

\* A position that closes takes its exits with it: one that still works without a
\* position is the one that closed it.
THEOREM LeftoverExitsArePartial == Spec => []LeftoverExitIsPartial
<1>1. Init => LeftoverExitIsPartial
  BY DEF Init, LeftoverExitIsPartial
<1>2. TypeOK /\ LeftoverExitIsPartial /\ [Next]_vars => LeftoverExitIsPartial'
  <2>1. UNCHANGED vars /\ LeftoverExitIsPartial => LeftoverExitIsPartial'
    BY DEF vars, ledger, LeftoverExitIsPartial
  <2> QED BY <2>1, ExecutionLeavesPartial, HandlersLeavePartial DEF Next
<1> QED BY <1>1, <1>2, TypeCorrect, PTL DEF Spec

-----------------------------------------------------------------------------
(* The refinement.  Each lemma shows which step of TradeLedger an action is.  *)
(* LedgerInv is needed where an entry fills: an open position belongs to that *)
(* entry, so its side is the side of the order.                               *)

\* What is not the trade of s is left alone.
LEMMA OthersUnchanged ==
  ASSUME NEW s \in Symbols, DOMAIN positions' \ {s} = DOMAIN positions \ {s},
         \A other \in DOMAIN positions \ {s} : positions'[other] = positions[other]
  PROVE  \A other \in Symbols \ {s} :
           Exposure(other)' = Exposure(other) /\ Result(other)' = Result(other)
<1> TAKE other \in Symbols \ {s}
<1>1. CASE other \in DOMAIN positions
  BY <1>1 DEF Exposure, Result
<1>2. CASE other \notin DOMAIN positions
  BY <1>2 DEF Exposure, Result
<1> QED BY <1>1, <1>2

\* A long trade has a positive exposure, a short one a negative one.
LEMMA ExposureOf ==
  ASSUME TypeOK, NEW s \in DOMAIN positions
  PROVE  /\ Exposure(s) = IF positions[s].side = "LONG" THEN positions[s].quantity
                                                        ELSE -positions[s].quantity
         /\ positions[s].quantity \in Nat \ {0} /\ Exposure(s) \in Int
         /\ Result(s) = positions[s].realized + positions[s].funding
         /\ positions[s].realized \in Int /\ positions[s].funding \in Int
         /\ Exposure(s) # 0
<1>1. positions[s] \in Position
  BY DEF TypeOK, PositionsType
<1>2. positions[s].quantity \in Nat \ {0} /\ positions[s].realized \in Int
      /\ positions[s].funding \in Int
  BY <1>1 DEF Position
<1>3. Exposure(s) = IF positions[s].side = "LONG" THEN positions[s].quantity
                                                  ELSE -positions[s].quantity
  BY <1>2 DEF Exposure, Sign
<1> QED BY <1>2, <1>3 DEF Result

\* The functions of all symbols change at one point.
LEMMA ChangesOnly ==
  ASSUME NEW s \in Symbols,
         \A other \in Symbols \ {s} :
           Exposure(other)' = Exposure(other) /\ Result(other)' = Result(other)
  PROVE  /\ [x \in Symbols |-> Exposure(x)][s] = Exposure(s)
         /\ [x \in Symbols |-> Result(x)][s] = Result(s)
         /\ ([x \in Symbols |-> Exposure(x)]')[s] = Exposure(s)'
         /\ [x \in Symbols |-> Exposure(x)]' =
              [[x \in Symbols |-> Exposure(x)] EXCEPT ![s] = Exposure(s)']
         /\ [x \in Symbols |-> Result(x)]' =
              [[x \in Symbols |-> Result(x)] EXCEPT ![s] = Result(s)']
<1> DEFINE E == [x \in Symbols |-> Exposure(x)]
           R == [x \in Symbols |-> Result(x)]
<1>1. E' = [x \in Symbols |-> Exposure(x)'] /\ R' = [x \in Symbols |-> Result(x)']
  OBVIOUS
<1>2. \A x \in Symbols : /\ Exposure(x)' = [E EXCEPT ![s] = Exposure(s)'][x]
                         /\ Result(x)' = [R EXCEPT ![s] = Result(s)'][x]
  OBVIOUS
<1>3. E' = [E EXCEPT ![s] = Exposure(s)'] /\ R' = [R EXCEPT ![s] = Result(s)']
  BY <1>1, <1>2
<1> QED BY <1>3

\* A fill that moves the exposure of s, keeps its sign and books on the trade.
LEMMA TradeStep ==
  ASSUME NEW s \in Symbols,
         \A other \in Symbols \ {s} :
           Exposure(other)' = Exposure(other) /\ Result(other)' = Result(other),
         Exposure(s)' # Exposure(s), Exposure(s) * Exposure(s)' >= 0, Exposure(s)' # 0,
         Result(s)' = Result(s) + (account.cash' - account.cash), closedPnl' = closedPnl
  PROVE  Trades!Trade(s)
  BY ChangesOnly DEF Trades!Trade, Trades!Moves, Trades!Booked

\* What is left of a quantity from which a part is taken.
LEMMA LessButSome ==
  ASSUME NEW whole \in Nat, NEW part \in Nat \ {0}, part < whole
  PROVE  /\ whole - part # 0 /\ whole - part # whole
         /\ whole * (whole - part) >= 0 /\ (-whole) * (-(whole - part)) >= 0
<1>1. whole - part \in Nat \ {0} /\ whole - part # whole
  OBVIOUS
<1>2. \A a, b \in Nat : a * b >= 0 /\ (-a) * (-b) >= 0
  OBVIOUS
<1> QED BY <1>1, <1>2

\* A fill of an entry opens the trade or adds to it.
LEMMA FillEntryTrades ==
  ASSUME TypeOK, LedgerInv, NEW id \in tick.todo, FillEntry(id)
  PROVE  \E s \in Symbols : Trades!Trade(s)
<1> PICK s \in Symbols : s = orders[id].symbol
  BY FillFacts DEF FillEntry
<1> DEFINE q == FillQuantity(id)
           p == EntryPosition(id)
<1>1. Executes(id) /\ ~ReduceOnly(id) /\ q > 0
  BY DEF FillEntry
<1>2. /\ positions' = Put(positions, s, p) /\ closedPnl' = closedPnl
      /\ account' = [account EXCEPT !.cash = @ - Fee(id), !.realized = @ - Fee(id),
                                    !.fees = @ + Fee(id)]
  BY DEF FillEntry
<1>3. /\ orders[id] \in Order /\ s \in Symbols /\ q \in Nat \ {0} /\ Fee(id) \in Int
      /\ s \in DOMAIN positions => positions[s] \in Position /\ positions[s].entryId = id
  BY <1>1, FillFacts DEF Executes, OwnPosition
<1>4. /\ DOMAIN positions' = DOMAIN positions \cup {s} /\ positions'[s] = p
      /\ \A other \in DOMAIN positions \ {s} : positions'[other] = positions[other]
  <2> HIDE DEF p
  <2> QED BY <1>2 DEF Put
<1>5. account.cash \in Int /\ account'.cash - account.cash = -Fee(id)
  BY <1>2, <1>3 DEF TypeOK, AccountType
<1>6. /\ Exposure(s)' # Exposure(s) /\ Exposure(s) * Exposure(s)' >= 0 /\ Exposure(s)' # 0
      /\ Result(s)' = Result(s) - Fee(id)
  <2>1. CASE s \notin DOMAIN positions
    <3>1. p.side = orders[id].side /\ p.quantity = q /\ p.realized = -Fee(id) /\ p.funding = 0
      BY <2>1 DEF EntryPosition
    <3>2. Exposure(s) = 0 /\ Result(s) = 0
      BY <2>1 DEF Exposure, Result
    <3>3. Exposure(s)' = Sign(p.side) * q /\ Result(s)' = -Fee(id) + 0
      BY <1>4, <3>1 DEF Exposure, Result
    <3>4. Exposure(s)' = q \/ Exposure(s)' = -q
      BY <1>3, <3>3 DEF Sign
    <3> HIDE DEF q, p
    <3> QED BY <1>3, <3>2, <3>3, <3>4
  <2>2. CASE s \in DOMAIN positions
    <3>1. positions[s].side = orders[id].side
      BY <1>3, <2>2 DEF LedgerInv, EntryBacksPosition
    <3>2. /\ p.side = positions[s].side /\ p.quantity = positions[s].quantity + q
          /\ p.realized = positions[s].realized - Fee(id) /\ p.funding = positions[s].funding
      BY <1>3, <2>2, <3>1 DEF EntryPosition, Position
    <3>3. /\ Exposure(s)' = Sign(p.side) * p.quantity /\ Result(s)' = p.realized + p.funding
      BY <1>4 DEF Exposure, Result
    <3>4. /\ positions[s].quantity \in Nat \ {0} /\ positions[s].realized \in Int
          /\ positions[s].funding \in Int
          /\ Exposure(s) = IF p.side = "LONG" THEN positions[s].quantity
                                              ELSE -positions[s].quantity
          /\ Result(s) = positions[s].realized + positions[s].funding
      BY <2>2, <3>2, ExposureOf
    <3>5. Exposure(s)' = IF p.side = "LONG" THEN positions[s].quantity + q
                                            ELSE -(positions[s].quantity + q)
      BY <1>3, <3>2, <3>3, <3>4 DEF Sign
    <3>6. positions[s].quantity * (positions[s].quantity + q) >= 0
          /\ (-positions[s].quantity) * (-(positions[s].quantity + q)) >= 0
      BY <1>3, <3>4
    <3> HIDE DEF q, p
    <3> QED BY <1>3, <3>2, <3>3, <3>4, <3>5, <3>6
  <2> QED BY <2>1, <2>2
<1>7. \A other \in Symbols \ {s} :
        Exposure(other)' = Exposure(other) /\ Result(other)' = Result(other)
  BY <1>4, OthersUnchanged
<1>8. Result(s)' = Result(s) + (account.cash' - account.cash)
  BY <1>5, <1>6
<1>9. Trades!Trade(s)
  <2> HIDE DEF q, p
  <2> QED BY <1>2, <1>3, <1>6, <1>7, <1>8, TradeStep
<1> QED BY <1>9
\* A fill of an exit that leaves a part of the trade reduces it.
LEMMA ReducePositionTrades ==
  ASSUME TypeOK, NEW id \in tick.todo, ReducePosition(id)
  PROVE  \E s \in Symbols : Trades!Trade(s)
<1> PICK s \in Symbols : s = orders[id].symbol
  BY FillFacts DEF ReducePosition
<1> DEFINE q == FillQuantity(id)
           booked == Gross(id) - Fee(id)
<1>1. Executes(id) /\ ReduceOnly(id) /\ q > 0 /\ ~Closes(id)
  BY DEF ReducePosition
<1>2. /\ positions' = [positions EXCEPT ![s].quantity = @ - q, ![s].realized = @ + booked]
      /\ account' = AfterExit(id) /\ closedPnl' = closedPnl
  BY DEF ReducePosition
<1>3. /\ s \in DOMAIN positions /\ positions[s] \in Position
      /\ q \in Nat \ {0} /\ q < positions[s].quantity
      /\ Fee(id) \in Int /\ Gross(id) \in Int
  BY <1>1, FillFacts, GrossType DEF Closes, Position
<1>4. /\ DOMAIN positions' = DOMAIN positions
      /\ positions'[s].quantity = positions[s].quantity - q
      /\ positions'[s].side = positions[s].side
      /\ positions'[s].realized = positions[s].realized + booked
      /\ positions'[s].funding = positions[s].funding
      /\ \A other \in DOMAIN positions \ {s} : positions'[other] = positions[other]
  <2> HIDE DEF q, booked
  <2> QED BY <1>2, <1>3 DEF Position
<1>5. account'.cash - account.cash = booked
  BY <1>2, <1>3 DEF AfterExit, TypeOK, AccountType
<1>6. /\ positions[s].quantity \in Nat \ {0} /\ positions[s].realized \in Int
      /\ positions[s].funding \in Int /\ booked \in Int
      /\ Exposure(s) = IF positions[s].side = "LONG" THEN positions[s].quantity
                                                     ELSE -positions[s].quantity
      /\ Result(s) = positions[s].realized + positions[s].funding
  BY <1>3, ExposureOf
<1> HIDE DEF q, booked
<1>7. /\ Exposure(s)' = IF positions[s].side = "LONG" THEN positions[s].quantity - q
                                                      ELSE -(positions[s].quantity - q)
      /\ Result(s)' = Result(s) + booked
  BY <1>3, <1>4, <1>6 DEF Exposure, Result, Sign
<1>8. Exposure(s)' # Exposure(s) /\ Exposure(s) * Exposure(s)' >= 0 /\ Exposure(s)' # 0
  <2>0. positions[s].quantity \in Nat /\ q \in Nat \ {0} /\ q < positions[s].quantity
    BY <1>3, <1>6
  <2>1. /\ positions[s].quantity * (positions[s].quantity - q) >= 0
        /\ (-positions[s].quantity) * (-(positions[s].quantity - q)) >= 0
    BY <2>0, LessButSome
  <2>2. positions[s].quantity - q # 0 /\ positions[s].quantity - q # positions[s].quantity
    BY <2>0, LessButSome
  <2>3. CASE positions[s].side = "LONG"
    BY <1>6, <1>7, <2>1, <2>2, <2>3
  <2>4. CASE positions[s].side # "LONG"
    <3>1. /\ Exposure(s) = -positions[s].quantity
          /\ Exposure(s)' = -(positions[s].quantity - q)
      BY <1>6, <1>7, <2>4
    <3>2. Exposure(s) * Exposure(s)' >= 0
      BY <2>1, <3>1
    <3> QED BY <1>3, <1>6, <2>2, <3>1, <3>2
  <2> QED BY <2>3, <2>4
<1>9. \A other \in Symbols \ {s} :
        Exposure(other)' = Exposure(other) /\ Result(other)' = Result(other)
  BY <1>4, OthersUnchanged
<1>10. Trades!Trade(s)
  BY <1>2, <1>5, <1>7, <1>8, <1>9, TradeStep
<1> QED BY <1>10

\* A fill of an exit that takes the whole position closes the trade with its result.
LEMMA ClosePositionTrades ==
  ASSUME TypeOK, NEW id \in tick.todo, ClosePosition(id)
  PROVE  \E s \in Symbols : Trades!Close(s)
<1> PICK s \in Symbols : s = orders[id].symbol
  BY FillFacts DEF ClosePosition
<1> DEFINE booked == Gross(id) - Fee(id)
<1>1. Executes(id) /\ ReduceOnly(id) /\ FillQuantity(id) > 0 /\ Closes(id)
  BY DEF ClosePosition
<1>2. /\ positions' = [other \in DOMAIN positions \ {s} |-> positions[other]]
      /\ account' = AfterExit(id)
      /\ closedPnl' = closedPnl + (positions[s].realized + Gross(id) - Fee(id)
                                     + positions[s].funding)
  BY DEF ClosePosition
<1>3. /\ s \in DOMAIN positions /\ Fee(id) \in Int /\ Gross(id) \in Int
      /\ closedPnl \in Int /\ booked \in Int
  BY <1>1, FillFacts, GrossType DEF TypeOK, AccountType
<1>4. account'.cash - account.cash = booked
  BY <1>2, <1>3 DEF AfterExit, TypeOK, AccountType
<1>5. /\ positions[s].quantity \in Nat \ {0} /\ positions[s].realized \in Int
      /\ positions[s].funding \in Int /\ Exposure(s) \in Int /\ Exposure(s) # 0
      /\ Result(s) = positions[s].realized + positions[s].funding
  BY <1>3, ExposureOf
<1>6. Exposure(s)' = 0 /\ Result(s)' = 0
  BY <1>2 DEF Exposure, Result
<1>7. \A other \in Symbols \ {s} :
        Exposure(other)' = Exposure(other) /\ Result(other)' = Result(other)
  <2>1. /\ DOMAIN positions' \ {s} = DOMAIN positions \ {s}
        /\ \A other \in DOMAIN positions \ {s} : positions'[other] = positions[other]
    BY <1>2
  <2> QED BY <2>1, OthersUnchanged
<1>8. closedPnl' = closedPnl + Result(s) + (account.cash' - account.cash)
  BY <1>2, <1>3, <1>4, <1>5
<1>9. Exposure(s) * Exposure(s)' >= 0
  BY <1>5, <1>6
<1> HIDE DEF booked
<1>10. Trades!Close(s)
  BY <1>5, <1>6, <1>7, <1>8, <1>9, ChangesOnly DEF Trades!Close, Trades!Moves, Trades!Booked
<1> QED BY <1>10

\* _apply_funding is a payment on an open trade; nothing else of a market's handler
\* touches the ledger.
LEMMA OnMarketTrades ==
  ASSUME TypeOK, NEW s \in Symbols, NEW at \in DeliveryWindow, NEW quote \in Quotes,
         OnMarket(s, at, quote)
  PROVE  Trades!Fund(s) \/ UNCHANGED Trades!vars
<1> DEFINE m == [time |-> at, bid |-> quote.bid, ask |-> quote.ask]
           payment == FundingPayment(positions[s], m)
<1>1. ApplyFunding(s, m) /\ closedPnl' = closedPnl
  BY DEF OnMarket
<1>2. CASE ~FundingDue(s, pendingFunding[s])
  <2>1. UNCHANGED <<positions, account>>
    BY <1>1, <1>2 DEF ApplyFunding
  <2> QED BY <1>1, <2>1 DEF Trades!vars, Exposure, Result
<1>3. CASE FundingDue(s, pendingFunding[s])
  <2>1. /\ positions' = [positions EXCEPT ![s].funding = @ + payment]
        /\ account' = [account EXCEPT !.cash = @ + payment, !.realized = @ + payment,
                                      !.funding = @ + payment]
    BY <1>1, <1>3 DEF ApplyFunding
  <2>2. s \in DOMAIN positions /\ positions[s] \in Position
    BY <1>3 DEF FundingDue, TypeOK, PositionsType
  <2>3. payment \in Int
    <3>1. at \in Nat
      BY DEF DeliveryWindow, TypeOK, EnvType
    <3>2. /\ Midpoint(m) \in Int /\ positions[s].quantity \in Int
          /\ Sign(positions[s].side) \in Int
      BY <2>2, <3>1, DataAssumption DEF Midpoint, Position, Sign
    <3>3. (Midpoint(m) * positions[s].quantity * FundingBps) \div 10000 \in Int
      BY <3>2, SettingsAssumption
    <3> QED BY <3>2, <3>3 DEF FundingPayment
  <2> HIDE DEF payment
  <2>4. /\ DOMAIN positions' = DOMAIN positions
        /\ positions'[s].quantity = positions[s].quantity
        /\ positions'[s].side = positions[s].side
        /\ positions'[s].realized = positions[s].realized
        /\ positions'[s].funding = positions[s].funding + payment
        /\ \A other \in DOMAIN positions \ {s} : positions'[other] = positions[other]
    BY <2>1, <2>2 DEF Position
  <2>5. account'.cash - account.cash = payment
    BY <2>1, <2>3 DEF TypeOK, AccountType
  <2>6. /\ positions[s].realized \in Int /\ positions[s].funding \in Int
        /\ Exposure(s) # 0 /\ Result(s) = positions[s].realized + positions[s].funding
    BY <2>2, ExposureOf
  <2>7. Exposure(s)' = Exposure(s) /\ Result(s)' = Result(s) + (account.cash' - account.cash)
    BY <2>2, <2>3, <2>4, <2>5, <2>6 DEF Exposure, Result
  <2>8. \A other \in Symbols \ {s} :
          Exposure(other)' = Exposure(other) /\ Result(other)' = Result(other)
    BY <2>4, OthersUnchanged
  <2>9. [x \in Symbols |-> Exposure(x)]' = [x \in Symbols |-> Exposure(x)]
    BY <2>7, <2>8
  <2> QED BY <1>1, <2>6, <2>7, <2>8, <2>9, ChangesOnly DEF Trades!Fund, Trades!Booked
<1> QED BY <1>2, <1>3

\* reset, which the broker allows only without a position.
LEMMA ResetTrades ==
  ASSUME Reset
  PROVE  Trades!Restart
<1>1. DOMAIN positions = {} /\ DOMAIN positions' = {}
  BY DEF Reset
<1>2. \A s \in Symbols : /\ Exposure(s) = 0 /\ Exposure(s)' = 0 /\ Result(s)' = 0
  BY <1>1 DEF Exposure, Result
<1>3. /\ [x \in Symbols |-> Exposure(x)]' = [x \in Symbols |-> 0]
      /\ [x \in Symbols |-> Result(x)]' = [x \in Symbols |-> 0]
  BY <1>2
<1>4. account'.cash = InitialBalance /\ closedPnl' = 0
  BY DEF Reset
<1> QED BY <1>2, <1>3, <1>4 DEF Trades!Restart

\* A step that touches neither positions nor account.
LEMMA QuietTrades ==
  ASSUME UNCHANGED <<positions, account, closedPnl>>
  PROVE  UNCHANGED Trades!vars
  BY DEF Trades!vars, Exposure, Result

-----------------------------------------------------------------------------
\* The paper broker implements the trade ledger: money is booked once, on the cash and
\* on the one trade that earned or cost it, and no step turns a long trade into a short
\* one (_apply_fill_to_account, _apply_funding, reset).
THEOREM BrokerImplementsLedger == Spec => ImplementsLedger
<1>1. Init => Trades!Init
  <2> SUFFICES ASSUME Init PROVE Trades!Init
    OBVIOUS
  <2>1. DOMAIN positions = {} /\ account.cash = InitialBalance /\ closedPnl = 0
    BY DEF Init
  <2> QED BY <2>1 DEF Trades!Init, Exposure, Result
<1>2. TypeOK /\ LedgerInv /\ [Next]_vars => [Trades!Next]_(Trades!vars)
  <2> SUFFICES ASSUME TypeOK, LedgerInv, [Next]_vars
               PROVE  Trades!Next \/ UNCHANGED Trades!vars
    OBVIOUS
  <2>1. CASE ClockTick
    BY <2>1, QuietTrades DEF ClockTick, ledger
  <2>2. CASE MarketData
    <3>1. ASSUME NEW s \in Symbols, NEW at \in DeliveryWindow, NEW q \in Quotes,
                 OnMarketBackward(s, at, q)
          PROVE  UNCHANGED Trades!vars
      BY <3>1, QuietTrades DEF OnMarketBackward, ledger
    <3>2. ASSUME NEW s \in Symbols, NEW at \in DeliveryWindow, NEW next \in FundingTimes,
                 OnMarkPrice(s, at, next)
          PROVE  UNCHANGED Trades!vars
      BY <3>2, QuietTrades DEF OnMarkPrice, ledger
    <3> QED BY <2>2, <3>1, <3>2, OnMarketTrades DEF MarketData, Trades!Next
  <2>3. CASE Strategy
    <3>1. ASSUME NEW sig \in Signals, DropSignal(sig) PROVE UNCHANGED Trades!vars
      BY <3>1, QuietTrades DEF DropSignal, ledger
    <3>2. ASSUME NEW sig \in Signals, NEW at \in DeliveryWindow, NEW healthy \in BOOLEAN,
                 NEW synchronized \in BOOLEAN, OnSignal(sig, at, healthy, synchronized)
          PROVE  UNCHANGED Trades!vars
      BY <3>2, QuietTrades DEF OnSignal
    <3> QED BY <2>3, <3>1, <3>2 DEF Strategy
  <2>4. CASE ExecuteOrder
    <3>1. ASSUME NEW id \in tick.todo, SkipOrder(id) \/ RefuseOrder(id) \/ StarveOrder(id)
          PROVE  UNCHANGED Trades!vars
      BY <3>1, QuietTrades DEF SkipOrder, RefuseOrder, StarveOrder, ledger
    <3> QED BY <2>4, <3>1, FillEntryTrades, ReducePositionTrades, ClosePositionTrades
            DEF ExecuteOrder, Trades!Next
  <2>5. CASE Controls
    <3>1. CASE PauseEntries \/ ResumeEntries \/ EmergencyCloseAll
      BY <3>1, QuietTrades DEF PauseEntries, ResumeEntries, EmergencyCloseAll, ledger
    <3> QED BY <2>5, <3>1, ResetTrades DEF Controls, Trades!Next
  <2>6. CASE UNCHANGED vars
    BY <2>6, QuietTrades DEF vars, ledger
  <2> QED BY <2>1, <2>2, <2>3, <2>4, <2>5, <2>6 DEF Next
<1> QED BY <1>1, <1>2, TypeCorrect, LedgerInvariant, PTL
        DEF Spec, ImplementsLedger, Trades!Spec

-----------------------------------------------------------------------------
(* What the open positions have booked, as a sum.                            *)

BookedOf(ps) == [s \in DOMAIN ps |-> ps[s].realized + ps[s].funding]

LEMMA BookedIsTotal ==
  ASSUME NEW ps, IsFiniteSet(DOMAIN ps)
  PROVE  Booked(ps) = Total(BookedOf(ps), DOMAIN ps)
<1> DEFINE S == DOMAIN ps
           Q(g) == g = [T \in SUBSET S |->
                          IF T = {} THEN 0
                          ELSE ps[Picked(T)].realized + ps[Picked(T)].funding
                                 + g[T \ {Picked(T)}]]
<1>1. Booked(ps) = (CHOOSE g : Q(g))[S]
  BY DEF Booked, MapThenSumSet, MapThenFoldSet, Picked
<1>2. \A g : Q(g) <=> Sums(g, BookedOf(ps), SUBSET S)
  <2> SUFFICES ASSUME NEW g PROVE Q(g) <=> Sums(g, BookedOf(ps), SUBSET S)
    OBVIOUS
  <2>1. ASSUME NEW T \in SUBSET S, T # {}
        PROVE  /\ Picked(T) \in S
               /\ ps[Picked(T)].realized + ps[Picked(T)].funding = BookedOf(ps)[Picked(T)]
    BY <2>1, PickedIn DEF BookedOf
  <2> QED BY <2>1 DEF Sums, Plus
<1>3. \E g : Sums(g, BookedOf(ps), SUBSET S)
  BY SumsExist
<1>4. Sums(CHOOSE g : Q(g), BookedOf(ps), SUBSET S)
  <2> HIDE DEF Q
  <2> QED BY <1>2, <1>3
<1> HIDE DEF Q
<1> DEFINE h == CHOOSE g : Q(g)
<1> HIDE DEF h
<1> QED BY <1>1, <1>4, TotalOf DEF h

\* The positions' types and finiteness, as far as the sums depend on them.
IsBook(ps) ==
  /\ IsFiniteSet(DOMAIN ps)
  /\ \A s \in DOMAIN ps : ps[s].realized \in Int /\ ps[s].funding \in Int

LEMMA BookedFacts ==
  ASSUME NEW ps, IsBook(ps)
  PROVE  /\ IsFiniteSet(DOMAIN ps) /\ Booked(ps) \in Int
         /\ \A s \in DOMAIN ps : BookedOf(ps)[s] \in Whole
<1>1. \A s \in DOMAIN ps : BookedOf(ps)[s] \in Whole
  BY DEF IsBook, BookedOf, Whole
<1>2. IsFiniteSet(DOMAIN ps)
  BY DEF IsBook
<1>3. Total(BookedOf(ps), DOMAIN ps) \in Whole
  BY <1>1, <1>2, TotalInt
<1> QED BY <1>1, <1>2, <1>3, BookedIsTotal DEF Whole

\* The booked sum is that of one position and that of the others.
LEMMA BookedSplit ==
  ASSUME NEW ps, IsBook(ps), NEW s \in DOMAIN ps
  PROVE  Booked(ps) = ps[s].realized + ps[s].funding + Total(BookedOf(ps), DOMAIN ps \ {s})
<1>1. Booked(ps) = BookedOf(ps)[s] + Total(BookedOf(ps), DOMAIN ps \ {s})
  BY BookedFacts, BookedIsTotal, TotalSplit
<1> QED BY <1>1 DEF BookedOf

\* Without s the sum is that of the others.
LEMMA BookedWithout ==
  ASSUME NEW ps, IsBook(ps), NEW rest, NEW s, DOMAIN rest = DOMAIN ps \ {s},
         \A other \in DOMAIN rest : /\ rest[other].realized = ps[other].realized
                                    /\ rest[other].funding = ps[other].funding
  PROVE  IsBook(rest) /\ Booked(rest) = Total(BookedOf(ps), DOMAIN ps \ {s})
<1> DEFINE T == DOMAIN ps \ {s}
<1>1. IsBook(rest)
  BY FS_RemoveElement DEF IsBook
<1>2. IsFiniteSet(T) /\ \A other \in T : BookedOf(rest)[other] = BookedOf(ps)[other]
  BY <1>1 DEF BookedOf, IsBook
<1> HIDE DEF T
<1>3. Total(BookedOf(rest), T) = Total(BookedOf(ps), T)
  BY <1>2, TotalAgrees
<1> QED BY <1>1, <1>3, BookedFacts, BookedIsTotal DEF T

\* Two books that differ in s only have the same sum of the others.
LEMMA BookedElsewhere ==
  ASSUME NEW ps, IsBook(ps), NEW qs, IsBook(qs), NEW s, DOMAIN qs \ {s} = DOMAIN ps \ {s},
         \A other \in DOMAIN ps \ {s} : /\ qs[other].realized = ps[other].realized
                                        /\ qs[other].funding = ps[other].funding
  PROVE  Total(BookedOf(qs), DOMAIN qs \ {s}) = Total(BookedOf(ps), DOMAIN ps \ {s})
<1> DEFINE T == DOMAIN ps \ {s}
<1>1. /\ IsFiniteSet(T) /\ T = DOMAIN qs \ {s}
      /\ \A other \in T : BookedOf(qs)[other] = BookedOf(ps)[other]
  BY FS_RemoveElement DEF BookedOf, IsBook
<1> HIDE DEF T
<1>2. Total(BookedOf(qs), T) = Total(BookedOf(ps), T)
  BY <1>1, TotalAgrees
<1> QED BY <1>1, <1>2 DEF T

\* What is booked on one position of the book is added to the sum.
LEMMA BookedChange ==
  ASSUME NEW ps, IsBook(ps), NEW qs, IsBook(qs), NEW s \in DOMAIN ps, DOMAIN qs = DOMAIN ps,
         \A other \in DOMAIN ps \ {s} : /\ qs[other].realized = ps[other].realized
                                        /\ qs[other].funding = ps[other].funding
  PROVE  Booked(qs) = Booked(ps) - (ps[s].realized + ps[s].funding)
                        + (qs[s].realized + qs[s].funding)
<1> DEFINE r == Total(BookedOf(ps), DOMAIN ps \ {s})
<1>1. r = Total(BookedOf(qs), DOMAIN qs \ {s})
  BY BookedElsewhere
<1>2. Booked(ps) = ps[s].realized + ps[s].funding + r
  BY BookedSplit
<1> HIDE DEF r
<1>3. Booked(qs) = qs[s].realized + qs[s].funding + r
  BY <1>1, BookedSplit
<1>4. /\ {ps[s].realized, ps[s].funding, qs[s].realized, qs[s].funding} \subseteq Int
      /\ Booked(ps) \in Int
  BY BookedFacts DEF IsBook
<1>5. r \in Int
  BY FS_RemoveElement, TotalInt, BookedFacts DEF r, Whole
<1> QED BY <1>2, <1>3, <1>4, <1>5

\* A position that leaves the book takes what was booked on it.
LEMMA BookedLeaves ==
  ASSUME NEW ps, IsBook(ps), NEW s \in DOMAIN ps, NEW rest, DOMAIN rest = DOMAIN ps \ {s},
         \A other \in DOMAIN rest : /\ rest[other].realized = ps[other].realized
                                    /\ rest[other].funding = ps[other].funding
  PROVE  IsBook(rest) /\ Booked(ps) = Booked(rest) + (ps[s].realized + ps[s].funding)
<1>1. IsBook(rest) /\ Booked(rest) = Total(BookedOf(ps), DOMAIN ps \ {s})
  BY BookedWithout
<1>2. Booked(ps) = ps[s].realized + ps[s].funding + Booked(rest)
  BY <1>1, BookedSplit
<1>3. Booked(rest) \in Int /\ ps[s].realized \in Int /\ ps[s].funding \in Int
  BY <1>1, BookedFacts DEF IsBook
<1> QED BY <1>1, <1>2, <1>3

-----------------------------------------------------------------------------
(* The account against the positions.                                        *)

RealizedIsBooked == account.realized = closedPnl + Booked(positions)

\* The inductive invariant: a sum is one of finitely many positions.
BalanceInv == IsFiniteSet(DOMAIN positions) /\ RealizedIsBooked

LEMMA TypedBook ==
  ASSUME NEW ps, IsFiniteSet(DOMAIN ps), \A s \in DOMAIN ps : ps[s] \in Position
  PROVE  IsBook(ps)
BY DEF IsBook, Position

LEMMA FillEntryBalances ==
  ASSUME TypeOK, TypeOK', BalanceInv, NEW id \in tick.todo, FillEntry(id)
  PROVE  BalanceInv'
<1> DEFINE s == orders[id].symbol
           p == EntryPosition(id)
<1>1. /\ positions' = Put(positions, s, p)
      /\ account' = [account EXCEPT !.cash = @ - Fee(id), !.realized = @ - Fee(id),
                                    !.fees = @ + Fee(id)]
      /\ closedPnl' = closedPnl /\ Executes(id)
  BY DEF FillEntry
<1>2. /\ Fee(id) \in Int /\ account.realized \in Int /\ closedPnl \in Int
      /\ account'.realized = account.realized - Fee(id)
      /\ s \in DOMAIN positions => positions[s] \in Position
  BY <1>1, FillFacts DEF TypeOK, AccountType
<1>3. /\ s \notin DOMAIN positions => p.realized = -Fee(id) /\ p.funding = 0
      /\ s \in DOMAIN positions =>
           p.realized = positions[s].realized - Fee(id) /\ p.funding = positions[s].funding
  BY <1>2 DEF EntryPosition, Position
<1> HIDE DEF s, p
<1>4. /\ DOMAIN positions' = DOMAIN positions \cup {s} /\ positions'[s] = p
      /\ \A other \in DOMAIN positions \ {s} : positions'[other] = positions[other]
  BY <1>1 DEF Put
<1>5. IsFiniteSet(DOMAIN positions')
  BY <1>4, FS_AddElement DEF BalanceInv
<1>6. IsBook(positions) /\ IsBook(positions')
  BY <1>5, TypedBook DEF BalanceInv, TypeOK, PositionsType
<1>7. Booked(positions) \in Int /\ Booked(positions') = Booked(positions) - Fee(id)
  <2>1. CASE s \in DOMAIN positions
    <3>1. Booked(positions') = Booked(positions) - (positions[s].realized + positions[s].funding)
                                 + (p.realized + p.funding)
      BY <1>4, <1>6, <2>1, BookedChange
    <3> QED BY <1>2, <1>3, <1>6, <2>1, <3>1, BookedFacts DEF Position
  <2>2. CASE s \notin DOMAIN positions
    <3>1. /\ DOMAIN positions = DOMAIN positions' \ {s}
          /\ \A other \in DOMAIN positions : positions'[other] = positions[other]
      BY <1>4, <2>2
    <3>2. Booked(positions') = Booked(positions) + (p.realized + p.funding)
      BY <1>4, <1>6, <3>1, BookedLeaves
    <3> QED BY <1>2, <1>3, <1>6, <2>2, <3>2, BookedFacts
  <2> QED BY <2>1, <2>2
<1> QED BY <1>1, <1>2, <1>5, <1>7 DEF BalanceInv, RealizedIsBooked

LEMMA ReducePositionBalances ==
  ASSUME TypeOK, TypeOK', BalanceInv, NEW id \in tick.todo, ReducePosition(id)
  PROVE  BalanceInv'
<1> DEFINE s == orders[id].symbol
<1>1. /\ positions' = [positions EXCEPT ![s].quantity = @ - FillQuantity(id),
                                        ![s].realized = @ + Gross(id) - Fee(id)]
      /\ account' = AfterExit(id) /\ closedPnl' = closedPnl
      /\ Executes(id) /\ ReduceOnly(id)
  BY DEF ReducePosition
<1>2. /\ s \in DOMAIN positions /\ positions[s] \in Position
      /\ Fee(id) \in Int /\ Gross(id) \in Int
  BY <1>1, FillFacts, GrossType
<1>3. /\ account.realized \in Int /\ closedPnl \in Int
      /\ account'.realized = account.realized - Fee(id) + Gross(id)
  BY <1>1 DEF TypeOK, AccountType, AfterExit
<1>4. /\ DOMAIN positions' = DOMAIN positions
      /\ positions'[s].realized = positions[s].realized + Gross(id) - Fee(id)
      /\ positions'[s].funding = positions[s].funding
      /\ \A other \in DOMAIN positions \ {s} : positions'[other] = positions[other]
  BY <1>1, <1>2 DEF Position
<1> HIDE DEF s
<1>5. IsBook(positions) /\ IsBook(positions')
  BY <1>4, TypedBook DEF BalanceInv, TypeOK, PositionsType
<1>6. Booked(positions') = Booked(positions) - (positions[s].realized + positions[s].funding)
                             + (positions'[s].realized + positions'[s].funding)
  BY <1>2, <1>4, <1>5, BookedChange
<1>7. Booked(positions) \in Int /\ positions[s].realized \in Int /\ positions[s].funding \in Int
  BY <1>2, <1>5, BookedFacts DEF Position
<1> QED BY <1>1, <1>2, <1>3, <1>4, <1>6, <1>7 DEF BalanceInv, RealizedIsBooked

LEMMA ClosePositionBalances ==
  ASSUME TypeOK, TypeOK', BalanceInv, NEW id \in tick.todo, ClosePosition(id)
  PROVE  BalanceInv'
<1> DEFINE s == orders[id].symbol
<1>1. /\ positions' = [other \in DOMAIN positions \ {s} |-> positions[other]]
      /\ account' = AfterExit(id)
      /\ closedPnl' = closedPnl + (positions[s].realized + Gross(id) - Fee(id)
                                    + positions[s].funding)
      /\ Executes(id) /\ ReduceOnly(id)
  BY DEF ClosePosition
<1>2. /\ s \in DOMAIN positions /\ positions[s] \in Position
      /\ Fee(id) \in Int /\ Gross(id) \in Int
  BY <1>1, FillFacts, GrossType
<1>3. /\ account.realized \in Int /\ closedPnl \in Int
      /\ account'.realized = account.realized - Fee(id) + Gross(id)
  BY <1>1 DEF TypeOK, AccountType, AfterExit
<1>4. /\ DOMAIN positions' = DOMAIN positions \ {s}
      /\ \A other \in DOMAIN positions' : positions'[other] = positions[other]
  BY <1>1
<1> HIDE DEF s
<1>5. IsBook(positions)
  BY TypedBook DEF BalanceInv, TypeOK, PositionsType
<1>6. /\ IsBook(positions')
      /\ Booked(positions) = Booked(positions') + (positions[s].realized + positions[s].funding)
  BY <1>2, <1>4, <1>5, BookedLeaves
<1>7. /\ Booked(positions') \in Int /\ Booked(positions) \in Int
      /\ positions[s].realized \in Int /\ positions[s].funding \in Int
  BY <1>2, <1>5, <1>6, BookedFacts DEF Position
<1>8. IsFiniteSet(DOMAIN positions')
  BY <1>6, BookedFacts
<1> QED BY <1>1, <1>2, <1>3, <1>6, <1>7, <1>8 DEF BalanceInv, RealizedIsBooked

LEMMA FundingType ==
  ASSUME TypeOK, NEW s, NEW m, Midpoint(m) \in Int, s \in DOMAIN positions
  PROVE  FundingPayment(positions[s], m) \in Int
<1>1. positions[s].quantity \in Int /\ Sign(positions[s].side) \in Int
  BY DEF TypeOK, PositionsType, Position, Sign
<1>2. (Midpoint(m) * positions[s].quantity * FundingBps) \div 10000 \in Int
  BY <1>1, SettingsAssumption
<1> QED BY <1>1, <1>2 DEF FundingPayment

LEMMA OnMarketBalances ==
  ASSUME TypeOK, TypeOK', BalanceInv, NEW s \in Symbols, NEW at \in DeliveryWindow,
         NEW q \in Quotes, OnMarket(s, at, q)
  PROVE  BalanceInv'
<1> DEFINE m == [time |-> at, bid |-> q.bid, ask |-> q.ask]
           payment == FundingPayment(positions[s], m)
<1>1. ApplyFunding(s, m) /\ closedPnl' = closedPnl
  BY DEF OnMarket
<1>2. CASE ~FundingDue(s, pendingFunding[s])
  BY <1>1, <1>2 DEF ApplyFunding, BalanceInv, RealizedIsBooked
<1>3. CASE FundingDue(s, pendingFunding[s])
  <2>1. /\ positions' = [positions EXCEPT ![s].funding = @ + payment]
        /\ account' = [account EXCEPT !.cash = @ + payment, !.realized = @ + payment,
                                      !.funding = @ + payment]
        /\ s \in DOMAIN positions
    BY <1>1, <1>3 DEF ApplyFunding, FundingDue
  <2>2. positions[s] \in Position
    BY <2>1 DEF TypeOK, PositionsType
  <2>3. payment \in Int
    <3>1. Midpoint(m) \in Int
      BY DataAssumption DEF Midpoint
    <3> QED BY <2>1, <3>1, FundingType
  <2> HIDE DEF payment
  <2>4. /\ DOMAIN positions' = DOMAIN positions
        /\ positions'[s].realized = positions[s].realized
        /\ positions'[s].funding = positions[s].funding + payment
        /\ \A other \in DOMAIN positions \ {s} : positions'[other] = positions[other]
    BY <2>1, <2>2 DEF Position
  <2>5. /\ account.realized \in Int /\ closedPnl \in Int
        /\ account'.realized = account.realized + payment
    BY <2>1 DEF TypeOK, AccountType
  <2>6. IsBook(positions) /\ IsBook(positions')
    BY <2>4, TypedBook DEF BalanceInv, TypeOK, PositionsType
  <2>7. Booked(positions') = Booked(positions) - (positions[s].realized + positions[s].funding)
                               + (positions'[s].realized + positions'[s].funding)
    <3>1. s \in DOMAIN positions
      BY <2>1
    <3> QED BY <2>4, <2>6, <3>1, BookedChange
  <2>8. Booked(positions) \in Int /\ positions[s].realized \in Int /\ positions[s].funding \in Int
    BY <2>2, <2>6, BookedFacts DEF Position
  <2> QED BY <1>1, <2>3, <2>4, <2>5, <2>7, <2>8 DEF BalanceInv, RealizedIsBooked
<1> QED BY <1>2, <1>3

LEMMA BookedNothing ==
  ASSUME NEW ps, DOMAIN ps = {}
  PROVE  IsFiniteSet(DOMAIN ps) /\ Booked(ps) = 0
BY FS_EmptySet, BookedIsTotal, TotalEmpty

LEMMA QuietBalances ==
  ASSUME BalanceInv, UNCHANGED <<positions, account, closedPnl>>
  PROVE  BalanceInv'
BY DEF BalanceInv, RealizedIsBooked

\* PaperAccount: the cash is the initial balance plus what was realized, and that is
\* what the closed trades and the open positions have booked, through every fill,
\* fee, funding payment and reset.
THEOREM AccountBalances == Spec => []LedgerBalanced
<1>1. Init => BalanceInv
  <2> SUFFICES ASSUME Init PROVE BalanceInv
    OBVIOUS
  <2>1. DOMAIN positions = {} /\ account.realized = 0 /\ closedPnl = 0
    BY DEF Init
  <2> QED BY <2>1, BookedNothing DEF BalanceInv, RealizedIsBooked
<1>2. TypeOK /\ TypeOK' /\ BalanceInv /\ [Next]_vars => BalanceInv'
  <2> SUFFICES ASSUME TypeOK, TypeOK', BalanceInv, [Next]_vars PROVE BalanceInv'
    OBVIOUS
  <2>1. CASE ClockTick
    BY <2>1, QuietBalances DEF ClockTick, ledger
  <2>2. CASE MarketData
    <3>1. ASSUME NEW s \in Symbols, NEW at \in DeliveryWindow, NEW q \in Quotes,
                 OnMarketBackward(s, at, q)
          PROVE  BalanceInv'
      BY <3>1, QuietBalances DEF OnMarketBackward, ledger
    <3>2. ASSUME NEW s \in Symbols, NEW at \in DeliveryWindow, NEW next \in FundingTimes,
                 OnMarkPrice(s, at, next)
          PROVE  BalanceInv'
      BY <3>2, QuietBalances DEF OnMarkPrice, ledger
    <3> QED BY <2>2, <3>1, <3>2, OnMarketBalances DEF MarketData
  <2>3. CASE Strategy
    <3>1. ASSUME NEW sig \in Signals, DropSignal(sig) PROVE BalanceInv'
      BY <3>1, QuietBalances DEF DropSignal, ledger
    <3>2. ASSUME NEW sig \in Signals, NEW at \in DeliveryWindow,
                 NEW healthy \in BOOLEAN, NEW synchronized \in BOOLEAN,
                 OnSignal(sig, at, healthy, synchronized)
          PROVE  BalanceInv'
      BY <3>2, QuietBalances DEF OnSignal
    <3> QED BY <2>3, <3>1, <3>2 DEF Strategy
  <2>4. CASE ExecuteOrder
    <3>1. ASSUME NEW id \in tick.todo, SkipOrder(id) \/ RefuseOrder(id) \/ StarveOrder(id)
          PROVE  BalanceInv'
      BY <3>1, QuietBalances DEF SkipOrder, RefuseOrder, StarveOrder, ledger
    <3> QED BY <2>4, <3>1, FillEntryBalances, ReducePositionBalances, ClosePositionBalances
            DEF ExecuteOrder
  <2>5. CASE Controls
    <3>1. CASE Reset
      <4>1. DOMAIN positions' = {} /\ account'.realized = 0 /\ closedPnl' = 0
        BY <3>1 DEF Reset
      <4> QED BY <4>1, BookedNothing DEF BalanceInv, RealizedIsBooked
    <3>2. CASE EmergencyCloseAll \/ PauseEntries \/ ResumeEntries
      BY <3>2, QuietBalances DEF EmergencyCloseAll, PauseEntries, ResumeEntries, ledger
    <3> QED BY <2>5, <3>1, <3>2 DEF Controls
  <2>6. CASE UNCHANGED vars
    BY <2>6, QuietBalances DEF vars, ledger
  <2> QED BY <2>1, <2>2, <2>3, <2>4, <2>5, <2>6 DEF Next
<1>3. BalanceInv /\ LedgerInv => LedgerBalanced
  BY DEF BalanceInv, RealizedIsBooked, LedgerBalanced, LedgerInv
<1> QED BY <1>1, <1>2, <1>3, TypeCorrect, LedgerInvariant, PTL DEF Spec

-----------------------------------------------------------------------------
(* What the orders of a set may still fill.                                  *)

RemainingOf(all, ids) == [id \in ids |-> Remaining(all[id])]

LEMMA LeftIsTotal ==
  ASSUME NEW all, NEW S, IsFiniteSet(S)
  PROVE  Left(all, S) = Total(RemainingOf(all, S), S)
<1> DEFINE Q(g) == g = [T \in SUBSET S |->
                          IF T = {} THEN 0
                          ELSE Remaining(all[Picked(T)]) + g[T \ {Picked(T)}]]
<1>1. Left(all, S) = (CHOOSE g : Q(g))[S]
  BY DEF Left, MapThenSumSet, MapThenFoldSet, Picked
<1>2. \A g : Q(g) <=> Sums(g, RemainingOf(all, S), SUBSET S)
  <2> SUFFICES ASSUME NEW g PROVE Q(g) <=> Sums(g, RemainingOf(all, S), SUBSET S)
    OBVIOUS
  <2>1. ASSUME NEW T \in SUBSET S, T # {}
        PROVE  Remaining(all[Picked(T)]) = RemainingOf(all, S)[Picked(T)]
    BY <2>1, PickedIn DEF RemainingOf
  <2> QED BY <2>1 DEF Sums, Plus
<1>3. \E g : Sums(g, RemainingOf(all, S), SUBSET S)
  BY SumsExist
<1> DEFINE h == CHOOSE g : Q(g)
<1> HIDE DEF Q
<1>4. Sums(h, RemainingOf(all, S), SUBSET S)
  BY <1>2, <1>3
<1> HIDE DEF h
<1> QED BY <1>1, <1>4, TotalOf DEF h

LEMMA LeftAgrees ==
  ASSUME NEW all, NEW later, NEW S, IsFiniteSet(S), \A id \in S : later[id] = all[id]
  PROVE  Left(later, S) = Left(all, S)
<1>1. \A id \in S : RemainingOf(later, S)[id] = RemainingOf(all, S)[id]
  BY DEF RemainingOf
<1> QED BY <1>1, LeftIsTotal, TotalAgrees

LEMMA LeftOfNone == \A all : Left(all, {}) = 0
BY FS_EmptySet, LeftIsTotal, TotalEmpty

\* One more order.
LEMMA LeftAdded ==
  ASSUME NEW all, NEW S, IsFiniteSet(S), NEW id, id \notin S,
         \A k \in S \cup {id} : Remaining(all[k]) \in Int
  PROVE  /\ Left(all, S) \in Int
         /\ Left(all, S \cup {id}) = Remaining(all[id]) + Left(all, S)
<1> DEFINE W == S \cup {id}
           F == RemainingOf(all, W)
           G == RemainingOf(all, S)
<1>1. /\ IsFiniteSet(W) /\ id \in W /\ W \ {id} = S
      /\ \A k \in W : F[k] \in Whole
      /\ F[id] = Remaining(all[id])
  BY FS_AddElement DEF RemainingOf, Whole
<1>2. \A k \in S : F[k] = G[k]
  BY DEF RemainingOf
<1>3. \A k \in S : G[k] \in Whole
  BY DEF RemainingOf, Whole
<1> HIDE DEF W, F
<1>4. Total(F, W) = F[id] + Total(F, W \ {id})
  BY <1>1, TotalSplit
<1> HIDE DEF G
<1>5. Total(F, S) = Total(G, S)
  BY <1>2, TotalAgrees
<1>6. Total(G, S) \in Int
  BY <1>3, TotalInt DEF Whole
<1>7. Left(all, W) = Total(F, W) /\ Left(all, S) = Total(G, S)
  BY <1>1, LeftIsTotal DEF F, G
<1> QED BY <1>1, <1>4, <1>5, <1>6, <1>7 DEF W

LEMMA LeftOfPart ==
  ASSUME NEW all, NEW S, IsFiniteSet(S), NEW T \in SUBSET S,
         \A k \in S : Remaining(all[k]) \in Nat
  PROVE  Left(all, T) <= Left(all, S)
<1> DEFINE F == RemainingOf(all, S)
           G == RemainingOf(all, T)
<1>1. (\A k \in S : F[k] \in Nat) /\ (\A k \in T : F[k] = G[k]) /\ IsFiniteSet(T)
  BY FS_Subset DEF RemainingOf
<1>2. Left(all, S) = Total(F, S) /\ Left(all, T) = Total(G, T)
  BY <1>1, LeftIsTotal
<1> HIDE DEF F, G
<1>3. Total(F, T) = Total(G, T)
  BY <1>1, TotalAgrees
<1>4. Total(F, T) <= Total(F, S)
  BY <1>1, TotalMonotone
<1> QED BY <1>2, <1>3, <1>4

-----------------------------------------------------------------------------
(* The stops of an untouched position.                                       *)

\* The invariant's parts.  Orders are finitely many and filled within their quantity.
OrdersInv ==
  /\ IsFiniteSet(DOMAIN positions) /\ IsFiniteSet(DOMAIN orders)
  /\ \A id \in DOMAIN orders : orders[id].filled <= orders[id].quantity

\* A signal has one entry order, which has filled nothing as long as it is pending.
EntriesInv ==
  \A id \in DOMAIN orders : ~ReduceOnly(id) =>
    id = Id("entry", id[2], 0) /\ (orders[id].status = "PENDING" => orders[id].filled = 0)

\* A stop is identified by a quantity that its entry has filled by now, so the stop of
\* the entry's next fill is a new one.
StopsInv ==
  \A id \in DOMAIN orders : id[1] = "stop" =>
    LET entry == Id("entry", id[2], 0)
    IN  entry \in DOMAIN orders /\ id[3] \in 1 .. orders[entry].filled

\* The stops of entry, out of all orders.
OwnStops(all, entry) == {id \in DOMAIN all : id[1] = "stop" /\ id[2] = entry[2]}

\* As long as no exit has filled, the stops of the position p of s all work for it,
\* and cover its quantity.
Covered(all, p, s) ==
  p.quantity = all[p.entryId].filled =>
    /\ \A id \in OwnStops(all, p.entryId) :
         all[id].symbol = s /\ all[id].side = p.side /\ Working(all[id])
    /\ p.quantity = Left(all, OwnStops(all, p.entryId))
CoverInv == \A s \in DOMAIN positions : Covered(orders, positions[s], s)

ProtectionInv == OrdersInv /\ EntriesInv /\ StopsInv /\ CoverInv

\* A position stays covered when its stops and what its entry has filled stay.
LEMMA CoveredStays ==
  ASSUME NEW all, NEW later, NEW p, NEW p2, NEW s, Covered(all, p, s), IsFiniteSet(DOMAIN all),
         p2.quantity = p.quantity, p2.side = p.side, p2.entryId = p.entryId,
         later[p.entryId].filled = all[p.entryId].filled,
         OwnStops(later, p.entryId) = OwnStops(all, p.entryId),
         \A id \in OwnStops(all, p.entryId) :
           all[id].symbol = s /\ all[id].side = p.side => later[id] = all[id]
  PROVE  Covered(later, p2, s)
<1> DEFINE S == OwnStops(all, p.entryId)
<1> SUFFICES ASSUME p2.quantity = later[p2.entryId].filled
             PROVE  /\ \A id \in S : /\ later[id].symbol = s /\ later[id].side = p2.side
                                     /\ Working(later[id])
                    /\ p2.quantity = Left(later, S)
  BY DEF Covered
<1>1. /\ \A id \in S : all[id].symbol = s /\ all[id].side = p.side /\ Working(all[id])
      /\ p.quantity = Left(all, S)
  BY DEF Covered
<1>2. \A id \in S : later[id] = all[id]
  BY <1>1
<1>3. IsFiniteSet(S)
  BY FS_Subset DEF OwnStops
<1> HIDE DEF S
<1>4. Left(later, S) = Left(all, S)
  BY <1>2, <1>3, LeftAgrees
<1> QED BY <1>1, <1>2, <1>4

\* An untouched position's stops cover it.
LEMMA CoveredIsStopped ==
  ASSUME TypeOK, ProtectionInv
  PROVE  UntouchedIsStopped
<1> SUFFICES ASSUME NEW s \in DOMAIN positions,
                    positions[s].quantity = orders[positions[s].entryId].filled
             PROVE  positions[s].quantity <= Left(orders, WorkingStops(s))
  BY DEF UntouchedIsStopped
<1> DEFINE T == OwnStops(orders, positions[s].entryId)
           S == WorkingStops(s)
<1>1. /\ \A id \in T : orders[id].symbol = s /\ Working(orders[id])
      /\ positions[s].quantity = Left(orders, T)
  BY DEF ProtectionInv, CoverInv, Covered
<1>2. T \in SUBSET S
  BY <1>1 DEF OwnStops, WorkingStops
<1>3. IsFiniteSet(S)
  BY FS_Subset DEF WorkingStops, ProtectionInv, OrdersInv
<1>4. \A k \in S : Remaining(orders[k]) \in Nat
  BY DEF WorkingStops, Remaining, ProtectionInv, OrdersInv, TypeOK, OrdersType, Order
<1>5. positions[s].quantity \in Nat
  BY DEF TypeOK, PositionsType, Position
<1> HIDE DEF S, T
<1>6. Left(orders, T) <= Left(orders, S)
  BY <1>2, <1>3, <1>4, LeftOfPart
<1> QED BY <1>1, <1>6 DEF S

\* A step that keeps the stops and entries as they are, and of the positions at most
\* changes what is booked on them, keeps the invariant.
LEMMA StopsStay ==
  ASSUME TypeOK, TypeOK', LedgerInv, ProtectionInv, OrdersInv',
         DOMAIN orders \subseteq DOMAIN orders',
         \A id \in DOMAIN orders : ~ReduceOnly(id) \/ id[1] = "stop" => orders'[id] = orders[id],
         \A id \in DOMAIN orders' \ DOMAIN orders : ReduceOnly(id) /\ id[1] # "stop",
         DOMAIN positions' = DOMAIN positions,
         \A s \in DOMAIN positions :
           /\ positions'[s].side = positions[s].side
           /\ positions'[s].quantity = positions[s].quantity
           /\ positions'[s].entryId = positions[s].entryId
  PROVE  ProtectionInv'
<1>1. EntriesInv'
  BY DEF ProtectionInv, EntriesInv, ReduceOnly
<1>2. StopsInv'
  <2>1. \A sig : ~ReduceOnly(Id("entry", sig, 0))
    BY DEF ReduceOnly, Id
  <2> QED BY <2>1 DEF ProtectionInv, StopsInv, ReduceOnly
<1>3. CoverInv'
  <2> SUFFICES ASSUME NEW s \in DOMAIN positions PROVE Covered(orders', positions'[s], s)
    BY DEF CoverInv
  <2> DEFINE entry == positions[s].entryId
  <2>1. entry \in DOMAIN orders /\ orders'[entry].filled = orders[entry].filled
    BY DEF LedgerInv, EntryBacksPosition
  <2>2. /\ OwnStops(orders', entry) = OwnStops(orders, entry)
        /\ \A id \in OwnStops(orders, entry) : orders'[id] = orders[id]
    BY DEF OwnStops
  <2>3. Covered(orders, positions[s], s) /\ IsFiniteSet(DOMAIN orders)
    BY DEF ProtectionInv, CoverInv, OrdersInv
  <2> QED BY <2>1, <2>2, <2>3, CoveredStays
<1> QED BY <1>1, <1>2, <1>3 DEF ProtectionInv

LEMMA ExitOrderFacts ==
  ASSUME NEW s, NEW p, NEW quantity, NEW at, NEW trigger
  PROVE  /\ ExitOrder(s, p, quantity, at, trigger).filled = 0
         /\ ExitOrder(s, p, quantity, at, trigger).symbol = s
         /\ ExitOrder(s, p, quantity, at, trigger).side = p.side
         /\ ExitOrder(s, p, quantity, at, trigger).status = "PENDING"
         /\ ExitOrder(s, p, quantity, at, trigger).quantity = Min2(quantity, p.quantity)
BY DEF ExitOrder

\* Orders and positions stay finite and within their quantities when a step fills
\* nothing and adds orders without a fill.
LEMMA OrdersGrow ==
  ASSUME TypeOK, TypeOK', OrdersInv, NEW new, IsFiniteSet(new),
         DOMAIN orders' = DOMAIN orders \cup new, DOMAIN positions' = DOMAIN positions,
         \A id \in DOMAIN orders \ new : /\ orders'[id].filled = orders[id].filled
                                         /\ orders'[id].quantity = orders[id].quantity,
         \A id \in new : orders'[id].filled = 0
  PROVE  OrdersInv'
<1>1. IsFiniteSet(DOMAIN orders')
  BY FS_Union DEF OrdersInv
<1>2. \A id \in new : orders'[id].filled <= orders'[id].quantity
  BY DEF TypeOK, OrdersType, Order
<1> QED BY <1>1, <1>2 DEF OrdersInv

LEMMA OnMarketProtects ==
  ASSUME TypeOK, TypeOK', LedgerInv, ProtectionInv,
         NEW s \in Symbols, NEW at \in DeliveryWindow, NEW q \in Quotes, OnMarket(s, at, q)
  PROVE  ProtectionInv'
<1>1. /\ orders' = WithTimeStop(s, at) /\ DOMAIN positions' = DOMAIN positions
      /\ \A other \in DOMAIN positions :
           /\ positions'[other].side = positions[other].side
           /\ positions'[other].quantity = positions[other].quantity
           /\ positions'[other].entryId = positions[other].entryId
  BY DEF OnMarket, ApplyFunding, TypeOK, PositionsType, Position
<1>2. CASE orders' = orders
  <2>1. OrdersInv'
    BY <1>1, <1>2 DEF ProtectionInv, OrdersInv
  <2> QED BY <1>1, <1>2, <2>1, StopsStay
<1>3. CASE orders' # orders
  <2> DEFINE p == positions[s]
             id == Id("time", s, p.openedAt)
             order == ExitOrder(s, p, p.quantity, at, None)
  <2>1. orders' = Put(orders, id, order)
    BY <1>1, <1>3 DEF WithTimeStop
  <2>2. id[1] = "time" /\ ReduceOnly(id) /\ order.filled = 0
    BY DEF Id, ReduceOnly, ExitOrder
  <2> HIDE DEF id, order
  <2>3. /\ DOMAIN orders' = DOMAIN orders \cup {id} /\ orders'[id].filled = 0
        /\ \A k \in DOMAIN orders : k # id => orders'[k] = orders[k]
    BY <2>1, <2>2 DEF Put
  <2>4. IsFiniteSet({id})
    BY FS_Singleton
  <2>5. OrdersInv'
    BY <1>1, <2>3, <2>4, OrdersGrow DEF ProtectionInv
  <2> QED BY <1>1, <2>2, <2>3, <2>5, StopsStay
<1> QED BY <1>2, <1>3

LEMMA EmergencyProtects ==
  ASSUME TypeOK, TypeOK', LedgerInv, ProtectionInv, EmergencyCloseAll
  PROVE  ProtectionInv'
<1> DEFINE f == [s \in DOMAIN positions |-> Id("emergency", s, emergencies)]
           new == {Id("emergency", s, emergencies) : s \in DOMAIN positions}
<1>1. /\ positions' = positions /\ DOMAIN orders' = DOMAIN orders \cup new
      /\ \A k \in DOMAIN orders \ new : orders'[k] = orders[k]
      /\ \A k \in new : orders'[k].filled = 0
  BY ExitOrderFacts DEF EmergencyCloseAll, WithEmergencyExits
<1>2. \A k \in new : k[1] = "emergency" /\ ReduceOnly(k)
  BY DEF Id, ReduceOnly
<1>3. IsFiniteSet(new)
  <2>1. f \in Surjection(DOMAIN positions, new)
    BY DEF Surjection
  <2> HIDE DEF f, new
  <2> QED BY <2>1, FS_Surjection DEF ProtectionInv, OrdersInv
<1> HIDE DEF new
<1>4. OrdersInv'
  BY <1>1, <1>3, OrdersGrow DEF ProtectionInv
<1> QED BY <1>1, <1>2, <1>4, StopsStay

\* The entry of a new signal replaces no order and has no stops.
LEMMA OnSignalProtects ==
  ASSUME TypeOK, TypeOK', LedgerInv, ProtectionInv, NEW sig \in Signals,
         NEW at \in DeliveryWindow, NEW healthy \in BOOLEAN, NEW synchronized \in BOOLEAN,
         OnSignal(sig, at, healthy, synchronized)
  PROVE  ProtectionInv'
<1> DEFINE new == Id("entry", sig, 0)
<1>1. /\ sig \notin emitted /\ positions' = positions
      /\ \E approved, n : orders' = Put(orders, new, EntryOrder(sig, approved, n, at))
  BY DEF OnSignal
<1>2. ~ReduceOnly(new) /\ new[2] = sig /\ new[1] = "entry" /\ new = Id("entry", new[2], 0)
  BY DEF Id, ReduceOnly
<1>3. \A approved, n : EntryOrder(sig, approved, n, at).filled = 0
  BY DEF EntryOrder
<1>4. new \notin DOMAIN orders
  BY <1>1, <1>2 DEF LedgerInv, EntriesEmitted
<1> HIDE DEF new
<1>5. /\ DOMAIN orders' = DOMAIN orders \cup {new} /\ orders'[new].filled = 0
      /\ \A k \in DOMAIN orders : orders'[k] = orders[k]
  BY <1>1, <1>3, <1>4 DEF Put
<1>6. OrdersInv'
  <2>1. IsFiniteSet({new})
    BY FS_Singleton
  <2> QED BY <1>1, <1>5, <2>1, OrdersGrow DEF ProtectionInv
<1>7. EntriesInv'
  BY <1>2, <1>5 DEF ProtectionInv, EntriesInv, ReduceOnly
<1>8. StopsInv'
  BY <1>2, <1>5 DEF ProtectionInv, StopsInv
<1>9. CoverInv'
  <2> SUFFICES ASSUME NEW s \in DOMAIN positions PROVE Covered(orders', positions[s], s)
    BY <1>1 DEF CoverInv
  <2> DEFINE entry == positions[s].entryId
  <2>1. orders'[entry].filled = orders[entry].filled
    BY <1>5 DEF LedgerInv, EntryBacksPosition
  <2>2. /\ OwnStops(orders', entry) = OwnStops(orders, entry)
        /\ \A id \in OwnStops(orders, entry) : orders'[id] = orders[id]
    BY <1>2, <1>5 DEF OwnStops
  <2>3. Covered(orders, positions[s], s) /\ IsFiniteSet(DOMAIN orders)
    BY DEF ProtectionInv, CoverInv, OrdersInv
  <2> QED BY <2>1, <2>2, <2>3, CoveredStays
<1> QED BY <1>6, <1>7, <1>8, <1>9 DEF ProtectionInv

LEMMA QuietProtects ==
  ASSUME ProtectionInv, UNCHANGED <<orders, positions>>
  PROVE  ProtectionInv'
BY DEF ProtectionInv, OrdersInv, EntriesInv, StopsInv, CoverInv

\* A stop that works for the open position is not refused.
LEMMA RefuseProtects ==
  ASSUME TypeOK, TypeOK', LedgerInv, ProtectionInv, NEW id \in tick.todo, RefuseOrder(id)
  PROVE  ProtectionInv'
<1>1. /\ positions' = positions /\ ~OwnPosition(id) /\ id \in DOMAIN orders
      /\ orders[id] \in Order
      /\ orders' = [orders EXCEPT ![id].status = IF ReduceOnly(id) THEN "CANCELED" ELSE "REJECTED"]
  BY DEF RefuseOrder, TypeOK, TickType, OrdersType
<1>2. /\ DOMAIN orders' = DOMAIN orders /\ orders'[id].status # "PENDING"
      /\ orders'[id].filled = orders[id].filled /\ orders'[id].quantity = orders[id].quantity
      /\ \A k \in DOMAIN orders : k # id => orders'[k] = orders[k]
  BY <1>1 DEF Order
<1>3. OrdersInv'
  BY <1>1, <1>2 DEF ProtectionInv, OrdersInv
<1>4. EntriesInv'
  BY <1>2 DEF ProtectionInv, EntriesInv, ReduceOnly
<1>5. StopsInv'
  BY <1>2 DEF ProtectionInv, StopsInv
<1>6. CoverInv'
  <2> SUFFICES ASSUME NEW s \in DOMAIN positions PROVE Covered(orders', positions[s], s)
    BY <1>1 DEF CoverInv
  <2> DEFINE entry == positions[s].entryId
  <2>1. orders'[entry].filled = orders[entry].filled
    BY <1>2 DEF LedgerInv, EntryBacksPosition
  <2>2. OwnStops(orders', entry) = OwnStops(orders, entry)
    BY <1>2 DEF OwnStops
  <2>3. \A k \in OwnStops(orders, entry) :
          orders[k].symbol = s /\ orders[k].side = positions[s].side => orders'[k] = orders[k]
    BY <1>1, <1>2 DEF OwnStops, OwnPosition, ReduceOnly
  <2>4. Covered(orders, positions[s], s) /\ IsFiniteSet(DOMAIN orders)
    BY DEF ProtectionInv, CoverInv, OrdersInv
  <2> QED BY <2>1, <2>2, <2>3, <2>4, CoveredStays
<1> QED BY <1>3, <1>4, <1>5, <1>6 DEF ProtectionInv

\* An exit fill touches its own position, and leaves the stops of the others.
LEMMA ExitProtects ==
  ASSUME TypeOK, TypeOK', LedgerInv, ProtectionInv, NEW id \in tick.todo,
         ReducePosition(id) \/ ClosePosition(id)
  PROVE  ProtectionInv'
<1> DEFINE s == orders[id].symbol
           q == FillQuantity(id)
<1>1. /\ Executes(id) /\ ReduceOnly(id) /\ q > 0
      /\ orders' = [orders EXCEPT ![id] = AfterFill(id)] \/ orders' = Put(CanceledWith(s, id), id, AfterFill(id))
  BY DEF ReducePosition, ClosePosition
<1>2. /\ id \in DOMAIN orders /\ orders[id] \in Order /\ q \in Int /\ q <= Remaining(orders[id])
      /\ s \in DOMAIN positions /\ positions[s] \in Position
  BY <1>1, FillFacts
<1>3. /\ AfterFill(id).status \in {"FILLED", "PARTIALLY_FILLED"}
      /\ AfterFill(id).filled <= AfterFill(id).quantity
  BY <1>2 DEF AfterFill, Order, Remaining
<1>4. /\ DOMAIN orders' = DOMAIN orders /\ orders'[id] = AfterFill(id)
      /\ \A k \in DOMAIN orders : k # id =>
           \/ orders'[k] = orders[k]
           \/ /\ orders[k].symbol = s
              /\ orders'[k] = [orders[k] EXCEPT !.status = "CANCELED"]
  BY <1>1, <1>2 DEF Put, CanceledWith
<1>5. ASSUME NEW k \in DOMAIN orders, k # id
      PROVE  /\ orders'[k].filled = orders[k].filled /\ orders'[k].quantity = orders[k].quantity
             /\ orders'[k].status \in {orders[k].status, "CANCELED"}
             /\ orders[k].symbol # s => orders'[k] = orders[k]
  <2>1. orders[k] \in Order
    BY DEF TypeOK, OrdersType
  <2> HIDE DEF s
  <2> QED BY <1>4, <1>5, <2>1 DEF Order
<1>6. ReducePosition(id) =>
        /\ DOMAIN positions' = DOMAIN positions
        /\ positions'[s].quantity = positions[s].quantity - q
        /\ positions'[s].entryId = positions[s].entryId
        /\ \A other \in DOMAIN positions : other # s => positions'[other] = positions[other]
  <2> SUFFICES ASSUME ReducePosition(id)
               PROVE  /\ DOMAIN positions' = DOMAIN positions
                      /\ positions'[s].quantity = positions[s].quantity - q
                      /\ positions'[s].entryId = positions[s].entryId
                      /\ \A other \in DOMAIN positions : other # s => positions'[other] = positions[other]
    OBVIOUS
  <2>1. positions' = [positions EXCEPT ![s].quantity = @ - q,
                                       ![s].realized = @ + Gross(id) - Fee(id)]
    BY DEF ReducePosition
  <2> HIDE DEF s, q
  <2> QED BY <1>2, <2>1 DEF Position
<1>7. ClosePosition(id) =>
        /\ DOMAIN positions' = DOMAIN positions \ {s}
        /\ \A other \in DOMAIN positions : other # s => positions'[other] = positions[other]
  BY DEF ClosePosition
<1> HIDE DEF s, q
<1>8. OrdersInv'
  <2>1. IsFiniteSet(DOMAIN positions')
    BY <1>6, <1>7, FS_RemoveElement DEF ProtectionInv, OrdersInv
  <2>2. \A k \in DOMAIN orders' : orders'[k].filled <= orders'[k].quantity
    BY <1>3, <1>4, <1>5 DEF ProtectionInv, OrdersInv
  <2> QED BY <1>4, <2>1, <2>2 DEF ProtectionInv, OrdersInv
<1>9. EntriesInv'
  BY <1>1, <1>4, <1>5 DEF ProtectionInv, EntriesInv, ReduceOnly
<1>10. StopsInv'
  <2>1. \A sig : Id("entry", sig, 0) # id
    BY <1>1 DEF Id, ReduceOnly
  <2> QED BY <1>4, <1>5, <2>1 DEF ProtectionInv, StopsInv
<1>11. ASSUME NEW other \in DOMAIN positions
       PROVE  /\ positions[other].entryId \in DOMAIN orders
              /\ positions[other].entryId # id
              /\ orders'[positions[other].entryId].filled = orders[positions[other].entryId].filled
  BY <1>1, <1>5 DEF LedgerInv, EntryBacksPosition
<1>12. ASSUME NEW other \in DOMAIN positions, other # s
       PROVE  Covered(orders', positions[other], other)
  <2> DEFINE entry == positions[other].entryId
  <2>1. OwnStops(orders', entry) = OwnStops(orders, entry)
    BY <1>4 DEF OwnStops
  <2>2. \A k \in OwnStops(orders, entry) :
          orders[k].symbol = other /\ orders[k].side = positions[other].side => orders'[k] = orders[k]
    BY <1>5, <1>12 DEF OwnStops, s
  <2>3. Covered(orders, positions[other], other) /\ IsFiniteSet(DOMAIN orders)
    BY DEF ProtectionInv, CoverInv, OrdersInv
  <2> QED BY <1>11, <2>1, <2>2, <2>3, CoveredStays
<1>13. ReducePosition(id) => Covered(orders', positions'[s], s)
  <2> SUFFICES ASSUME ReducePosition(id)
               PROVE  positions'[s].quantity # orders'[positions'[s].entryId].filled
    BY DEF Covered
  <2>1. positions[s].quantity <= orders[positions[s].entryId].filled
    BY <1>2 DEF LedgerInv, EntryBacksPosition
  <2>2. orders[positions[s].entryId].filled \in Int /\ positions[s].quantity \in Int
    BY <1>2, <1>11 DEF TypeOK, OrdersType, Order, Position
  <2> QED BY <1>1, <1>2, <1>6, <1>11, <2>1, <2>2
<1>14. CoverInv'
  BY <1>6, <1>7, <1>12, <1>13 DEF CoverInv
<1> QED BY <1>8, <1>9, <1>10, <1>14 DEF ProtectionInv

\* A fill of an entry brings the stop of its quantity, which no earlier fill has used.
LEMMA FillEntryProtects ==
  ASSUME TypeOK, TypeOK', LedgerInv, LedgerInv', ProtectionInv, NEW id \in tick.todo,
         FillEntry(id)
  PROVE  ProtectionInv'
<1> DEFINE s == orders[id].symbol
           q == FillQuantity(id)
           p == EntryPosition(id)
           at == tick.market.time
           stop == Id("stop", id[2], p.quantity)
           target == Id("take-profit", id[2], p.quantity)
           held == IF s \in DOMAIN positions THEN positions[s].quantity ELSE 0
           stopOrder == ExitOrder(s, p, q, at, p.stop)
           targetOrder == ExitOrder(s, p, q, at, p.takeProfit)
<1>1. /\ Executes(id) /\ ~ReduceOnly(id) /\ q > 0 /\ positions' = Put(positions, s, p)
      /\ orders' = Put(Put(Put(orders, stop, stopOrder), target, targetOrder), id, AfterFill(id))
  BY DEF FillEntry, WithProtection
<1>2. /\ id \in DOMAIN orders /\ orders[id] \in Order
      /\ q \in Int /\ q <= Remaining(orders[id]) /\ Working(orders[id])
      /\ s \in DOMAIN positions => positions[s] \in Position /\ positions[s].entryId = id
  BY <1>1, FillFacts DEF Executes, OwnPosition
<1>3. /\ AfterFill(id).status \in {"FILLED", "PARTIALLY_FILLED"}
      /\ AfterFill(id).filled = orders[id].filled + q
      /\ AfterFill(id).filled <= AfterFill(id).quantity
  BY <1>2 DEF AfterFill, Order, Remaining
<1>4. p.quantity = held + q /\ p.entryId = id /\ held \in Nat
  BY <1>2 DEF EntryPosition, Position
<1>5. /\ stop[1] = "stop" /\ stop[2] = id[2] /\ stop[3] = p.quantity
      /\ target[1] = "take-profit" /\ id = Id("entry", id[2], 0) /\ id[1] = "entry"
      /\ ReduceOnly(stop) /\ ReduceOnly(target)
  BY <1>1, <1>2 DEF Id, ReduceOnly, ProtectionInv, EntriesInv
<1>6. /\ stopOrder.filled = 0 /\ stopOrder.symbol = s /\ stopOrder.side = p.side
      /\ stopOrder.status = "PENDING" /\ stopOrder.quantity = q
      /\ targetOrder.filled = 0
  BY <1>1, <1>2, <1>4, ExitOrderFacts DEF Min2
<1> HIDE DEF q, p, stop, target, stopOrder, targetOrder, held
<1>7. /\ DOMAIN orders' = DOMAIN orders \cup {stop, target, id}
      /\ orders'[id] = AfterFill(id) /\ orders'[stop] = stopOrder
      /\ orders'[target] = targetOrder
      /\ \A k \in DOMAIN orders \ {stop, target, id} : orders'[k] = orders[k]
  <2>1. id # stop /\ id # target /\ stop # target
    BY <1>5
  <2> QED BY <1>1, <2>1 DEF Put
<1> HIDE DEF s
<1>8. /\ DOMAIN positions' = DOMAIN positions \cup {s} /\ positions'[s] = p
      /\ \A other \in DOMAIN positions : other # s => positions'[other] = positions[other]
  BY <1>1 DEF Put
<1>9. OrdersInv'
  <2>1. IsFiniteSet(DOMAIN orders')
    <3>1. IsFiniteSet(DOMAIN orders \cup {stop})
      BY FS_AddElement DEF ProtectionInv, OrdersInv
    <3>2. IsFiniteSet((DOMAIN orders \cup {stop}) \cup {target})
      BY <3>1, FS_AddElement
    <3>3. IsFiniteSet(((DOMAIN orders \cup {stop}) \cup {target}) \cup {id})
      BY <3>2, FS_AddElement
    <3>4. DOMAIN orders' = ((DOMAIN orders \cup {stop}) \cup {target}) \cup {id}
      BY <1>7
    <3> QED BY <3>3, <3>4
  <2>2. IsFiniteSet(DOMAIN positions')
    BY <1>8, FS_AddElement DEF ProtectionInv, OrdersInv
  <2>3. \A k \in {stop, target} : orders'[k].filled = 0 /\ orders'[k].quantity \in Nat
    BY <1>6, <1>7 DEF TypeOK, OrdersType, Order
  <2>4. \A k \in DOMAIN orders' : orders'[k].filled <= orders'[k].quantity
    BY <1>3, <1>7, <2>3 DEF ProtectionInv, OrdersInv
  <2> QED BY <2>1, <2>2, <2>4 DEF OrdersInv
<1>10. EntriesInv'
  BY <1>3, <1>5, <1>7 DEF ProtectionInv, EntriesInv, ReduceOnly
<1>11. p.quantity \in 1 .. AfterFill(id).filled
  <2>1. p.quantity <= orders'[id].filled
    BY <1>4, <1>8 DEF LedgerInv, EntryBacksPosition
  <2>2. AfterFill(id).filled \in Int
    BY <1>2, <1>3 DEF Order
  <2> QED BY <1>1, <1>2, <1>4, <1>7, <2>1, <2>2
<1>12. StopsInv'
  <2> SUFFICES ASSUME NEW k \in DOMAIN orders', k[1] = "stop"
               PROVE  LET entry == Id("entry", k[2], 0)
                      IN  entry \in DOMAIN orders' /\ k[3] \in 1 .. orders'[entry].filled
    BY DEF StopsInv
  <2>1. CASE k = stop
    BY <1>5, <1>7, <1>11, <2>1
  <2>2. CASE k # stop
    <3> DEFINE entry == Id("entry", k[2], 0)
    <3>1. k \in DOMAIN orders /\ entry \in DOMAIN orders /\ k[3] \in 1 .. orders[entry].filled
      BY <1>5, <1>7, <2>2 DEF ProtectionInv, StopsInv
    <3>2. entry # stop /\ entry # target
      BY <1>5 DEF Id
    <3>3. orders[entry].filled <= orders'[entry].filled /\ orders[entry].filled \in Int
          /\ orders'[entry].filled \in Int
      BY <1>1, <1>2, <1>3, <1>7, <3>1, <3>2 DEF TypeOK, OrdersType, Order
    <3> QED BY <1>7, <3>1, <3>3
  <2> QED BY <2>1, <2>2
<1>13. ASSUME NEW other \in DOMAIN positions, other # s
       PROVE  Covered(orders', positions[other], other)
  <2> DEFINE entry == positions[other].entryId
  <2>1. /\ entry \in DOMAIN orders /\ ~ReduceOnly(entry) /\ entry # id
        /\ entry = Id("entry", entry[2], 0)
    BY <1>13 DEF LedgerInv, EntryBacksPosition, ProtectionInv, EntriesInv, s
  <2>2. entry[2] # id[2] /\ entry # stop /\ entry # target
    BY <1>5, <2>1
  <2>3. orders'[entry].filled = orders[entry].filled
    BY <1>7, <2>1, <2>2
  <2>4. /\ OwnStops(orders', entry) = OwnStops(orders, entry)
        /\ \A k \in OwnStops(orders, entry) : orders'[k] = orders[k]
    BY <1>5, <1>7, <2>2 DEF OwnStops
  <2>5. Covered(orders, positions[other], other) /\ IsFiniteSet(DOMAIN orders)
    BY DEF ProtectionInv, CoverInv, OrdersInv
  <2> QED BY <2>3, <2>4, <2>5, CoveredStays
<1>14. Covered(orders', p, s)
  <2> DEFINE S == OwnStops(orders, id)
  <2> SUFFICES ASSUME p.quantity = orders'[id].filled
               PROVE  /\ \A k \in OwnStops(orders', id) :
                           /\ orders'[k].symbol = s /\ orders'[k].side = p.side
                           /\ Working(orders'[k])
                      /\ p.quantity = Left(orders', OwnStops(orders', id))
    BY <1>4 DEF Covered
  <2>1. held = orders[id].filled
    <3>1. orders[id].filled \in Nat
      BY <1>2 DEF Order
    <3>2. held + q = orders[id].filled + q
      BY <1>3, <1>4, <1>7
    <3> QED BY <1>2, <1>4, <3>1, <3>2
  <2>2. \A k \in S : k[3] \in 1 .. held
    BY <1>5, <2>1 DEF OwnStops, ProtectionInv, StopsInv
  <2>3. stop \notin S
    BY <1>1, <1>2, <1>4, <1>5, <2>2
  <2>4. OwnStops(orders', id) = S \cup {stop}
    BY <1>5, <1>7 DEF OwnStops
  <2>5. \A k \in S : orders'[k] = orders[k]
    BY <1>5, <1>7, <2>3 DEF OwnStops
  <2>6. /\ \A k \in S : /\ orders[k].symbol = s /\ orders[k].side = p.side
                        /\ Working(orders[k])
        /\ held = Left(orders, S)
    <3>1. CASE s \in DOMAIN positions
      <4>1. Covered(orders, positions[s], s) /\ held = positions[s].quantity
        BY <3>1 DEF ProtectionInv, CoverInv, held
      <4>2. p.side = positions[s].side
        BY <3>1 DEF p, EntryPosition, s
      <4> QED BY <1>2, <2>1, <3>1, <4>1, <4>2 DEF Covered
    <3>2. CASE s \notin DOMAIN positions
      <4>1. held = 0
        BY <3>2 DEF held
      <4>2. S = {}
        BY <2>2, <4>1
      <4> QED BY <4>1, <4>2, LeftOfNone
    <3> QED BY <3>1, <3>2
  <2>7. IsFiniteSet(S)
    BY FS_Subset DEF OwnStops, ProtectionInv, OrdersInv
  <2>8. \A k \in S \cup {stop} : Remaining(orders'[k]) \in Int
    BY <1>7, <2>4 DEF OwnStops, Remaining, TypeOK, OrdersType, Order
  <2>9. Remaining(orders'[stop]) = q
    BY <1>2, <1>6, <1>7 DEF Remaining
  <2> HIDE DEF S
  <2>10. Left(orders', S) = Left(orders, S)
    BY <2>5, <2>7, LeftAgrees
  <2>11. Left(orders', S \cup {stop}) = Remaining(orders'[stop]) + Left(orders', S)
    BY <2>3, <2>7, <2>8, LeftAdded
  <2>12. p.quantity = Left(orders', S \cup {stop})
    BY <1>2, <1>4, <2>6, <2>9, <2>10, <2>11
  <2>13. \A k \in S \cup {stop} : /\ orders'[k].symbol = s /\ orders'[k].side = p.side
                                  /\ Working(orders'[k])
    BY <1>6, <1>7, <2>5, <2>6 DEF Working
  <2> QED BY <2>4, <2>12, <2>13
<1>15. CoverInv'
  BY <1>8, <1>13, <1>14 DEF CoverInv
<1> QED BY <1>9, <1>10, <1>12, <1>15 DEF ProtectionInv

\* Until an exit has filled, the working stops of a position cover all that its entry
\* has filled, in however many parts (_create_protective_orders).
THEOREM UntouchedPositionIsStopped == Spec => []UntouchedIsStopped
<1>1. Init => ProtectionInv
  <2> SUFFICES ASSUME Init PROVE ProtectionInv
    OBVIOUS
  <2>1. DOMAIN orders = {} /\ DOMAIN positions = {}
    BY DEF Init
  <2> QED BY <2>1, FS_EmptySet DEF ProtectionInv, OrdersInv, EntriesInv, StopsInv, CoverInv
<1>2. TypeOK /\ TypeOK' /\ LedgerInv /\ LedgerInv' /\ ProtectionInv /\ [Next]_vars => ProtectionInv'
  <2> SUFFICES ASSUME TypeOK, TypeOK', LedgerInv, LedgerInv', ProtectionInv, [Next]_vars
               PROVE  ProtectionInv'
    OBVIOUS
  <2>1. CASE ClockTick
    BY <2>1, QuietProtects DEF ClockTick, ledger
  <2>2. CASE MarketData
    <3>1. ASSUME NEW s \in Symbols, NEW at \in DeliveryWindow, NEW q \in Quotes,
                 OnMarketBackward(s, at, q)
          PROVE  ProtectionInv'
      BY <3>1, QuietProtects DEF OnMarketBackward, ledger
    <3>2. ASSUME NEW s \in Symbols, NEW at \in DeliveryWindow, NEW next \in FundingTimes,
                 OnMarkPrice(s, at, next)
          PROVE  ProtectionInv'
      BY <3>2, QuietProtects DEF OnMarkPrice, ledger
    <3> QED BY <2>2, <3>1, <3>2, OnMarketProtects DEF MarketData
  <2>3. CASE Strategy
    <3>1. ASSUME NEW sig \in Signals, DropSignal(sig) PROVE ProtectionInv'
      BY <3>1, QuietProtects DEF DropSignal, ledger
    <3> QED BY <2>3, <3>1, OnSignalProtects DEF Strategy
  <2>4. CASE ExecuteOrder
    <3>1. ASSUME NEW id \in tick.todo, SkipOrder(id) \/ StarveOrder(id) PROVE ProtectionInv'
      BY <3>1, QuietProtects DEF SkipOrder, StarveOrder, ledger
    <3> QED BY <2>4, <3>1, RefuseProtects, FillEntryProtects, ExitProtects DEF ExecuteOrder
  <2>5. CASE Controls
    <3>1. CASE Reset
      <4>1. DOMAIN orders' = {} /\ DOMAIN positions' = {}
        BY <3>1 DEF Reset
      <4> QED BY <4>1, FS_EmptySet DEF ProtectionInv, OrdersInv, EntriesInv, StopsInv, CoverInv
    <3>2. CASE PauseEntries \/ ResumeEntries
      BY <3>2, QuietProtects DEF PauseEntries, ResumeEntries, ledger
    <3> QED BY <2>5, <3>1, <3>2, EmergencyProtects DEF Controls
  <2>6. CASE UNCHANGED vars
    BY <2>6, QuietProtects DEF vars, ledger
  <2> QED BY <2>1, <2>2, <2>3, <2>4, <2>5, <2>6 DEF Next
<1> QED BY <1>1, <1>2, CoveredIsStopped, TypeCorrect, LedgerInvariant, PTL DEF Spec
=============================================================================
