------------------------------- MODULE PaperStore -------------------------------
(***************************************************************************)
(* The tables of the paper account in DuckDB (storage.py) behind the broker   *)
(* and the reset thread.  A handler of the event loop executes its statements *)
(* one by one before it returns; `script' holds those that are left, stage    *)
(* after stage.  A stage is a set of rows that the code saves in some order   *)
(* of its dictionary.  The process may end between any two statements.        *)
(* Nothing is loaded at its next start: the memory is empty and the tables    *)
(* are what they were.                                                        *)
(***************************************************************************)
EXTENDS PaperResetRace

CONSTANT MaxCrashes    \* bound: how often the process ends

ASSUME CrashAssumption == MaxCrashes \in Nat

VARIABLES
  rows,      \* paper_orders, paper_fills, positions, account_snapshots: key -> row
  script,    \* the running handler's statements by stage
  crashes,
  \* History.
  ghosts,    \* symbols whose row in positions is of a former process
  base,      \* symbol -> net quantity of the fills of former processes
  raced,     \* a handler was saving while the reset thread was at work
  collided   \* a fill was not saved since its identity was in the table

storeVars == <<rows, script, crashes, ghosts, base, raced, collided>>

Empty == << >>
NoRows == [orders |-> Empty, fills |-> Empty, positions |-> Empty, account |-> Empty]
Gone == << >>    \* the row of a DELETE
Stages == 1 .. 5
NoScript == [i \in Stages |-> {}]

\* The statements that are left; a handler returns when there are none.
Unsaved == UNION {script[i] : i \in Stages}
Returned == Unsaved = {}

InitStore ==
  /\ InitRace /\ rows = NoRows /\ script = NoScript /\ crashes = 0
  /\ ghosts = {} /\ base = [s \in Symbols |-> 0] /\ raced = FALSE /\ collided = FALSE

-----------------------------------------------------------------------------
(* The statements a handler leaves behind, from what it changes in memory.   *)

Statement(table, key, row) == [table |-> table, key |-> key, row |-> row]

ChangedOrders ==
  {id \in DOMAIN orders' : id \notin DOMAIN orders \/ orders'[id] # orders[id]}
\* The order of the iteration's fill, if there is one.
Executed == {id \in tick.todo \cap ChangedOrders : orders'[id].filled > orders[id].filled}

\* _save_order
OrderRows(ids) == {Statement("orders", id, orders'[id]) : id \in ids}

\* Mutant: a closed position keeps its row.
SavedOpen ==
  {Statement("positions", s, positions'[s]) :
     s \in {t \in DOMAIN positions' : t \notin DOMAIN positions \/ positions'[t] # positions[t]}}

\* _save_position, which deletes the row of a position that is closed.
SavedPositions ==
  {Statement("positions", s, positions'[s]) :
     s \in {t \in DOMAIN positions' : t \notin DOMAIN positions \/ positions'[t] # positions[t]}}
  \cup {Statement("positions", s, Gone) : s \in DOMAIN positions \ DOMAIN positions'}

\* Mutant: the row says what the order has filled in all its fills.
FilledRows(ids) ==
  {Statement("fills", <<id, orders'[id].filled, tick.market.time>>,
     [symbol |-> orders[id].symbol,
      net |-> (IF ReduceOnly(id) THEN -1 ELSE 1) * orders'[id].filled]) : id \in ids}

\* The fill's identity is the order's, its filled quantity and the time.
FillRows(ids) ==
  {Statement("fills", <<id, orders'[id].filled, tick.market.time>>,
     [symbol |-> orders[id].symbol,
      net |-> (IF ReduceOnly(id) THEN -1 ELSE 1) * (orders'[id].filled - orders[id].filled)]) :
     id \in ids}

\* _record_equity, at the end of on_market.
Snapshot(at) ==
  IF tick' # Idle THEN {}
  ELSE {Statement("account", at, [cash |-> account'.cash, open |-> Cardinality(DOMAIN positions')])}

\* _execute: the other orders, the position, the order, the fill; the last iteration
\* is followed by _record_equity.
ExecutionSaves ==
  script' = <<OrderRows(ChangedOrders \ Executed), SavedPositions, OrderRows(Executed),
              FillRows(Executed), Snapshot(tick.market.time)>>
\* on_market up to its loop: the funded position, then the time stop.
MarketSaves(at) ==
  script' = <<SavedPositions, OrderRows(ChangedOrders), Snapshot(at), {}, {}>>
\* submit_entry, submit_reduce_only
OrderSaves == script' = <<OrderRows(ChangedOrders), {}, {}, {}, {}>>

\* A handler starts when the one before has executed its statements.  The controls
\* that pause and resume entries have none and are left out.
Handler ==
  /\ Returned
  /\ \/ \E s \in Symbols, at \in DeliveryWindow, q \in Quotes :
          \/ OnMarket(s, at, q) /\ MarketSaves(at)
          \/ OnMarketBackward(s, at, q) /\ UNCHANGED script
     \/ tick.todo \subseteq DOMAIN orders /\ ExecuteOrder /\ ExecutionSaves
     \/ OrderGone /\ UNCHANGED script
     \/ (Strategy \/ EmergencyCloseAll) /\ OrderSaves
  /\ UNCHANGED <<resetPc, rows, crashes, ghosts, base, collided>>
  /\ raced' = (raced \/ (resetPc # "idle" /\ ~Returned'))

-----------------------------------------------------------------------------
(* The tables.                                                               *)

\* save_paper_order, save_paper_position and save_account_snapshot replace the
\* row, save_paper_fill keeps the one it finds.
Written(table, statement) ==
  IF statement.row = Gone
  THEN [k \in DOMAIN table \ {statement.key} |-> table[k]]
  ELSE IF statement.table = "fills" /\ statement.key \in DOMAIN table THEN table
  ELSE Put(table, statement.key, statement.row)

Save ==
  /\ \E i \in Stages : \E statement \in script[i] :
       LET t == statement.table
       IN  /\ \A j \in 1 .. i - 1 : script[j] = {}
           /\ rows' = [rows EXCEPT ![t] = Written(@, statement)]
           /\ script' = [script EXCEPT ![i] = @ \ {statement}]
           /\ ghosts' = IF t = "positions" THEN ghosts \ {statement.key} ELSE ghosts
           /\ collided' = (collided \/ (t = "fills" /\ statement.key \in DOMAIN rows.fills))
  /\ UNCHANGED <<raceVars, crashes, base, raced>>

\* The reset thread; its last statement is the transaction of reset_paper.
ResetStep ==
  /\ \/ ResetMemory /\ UNCHANGED <<rows, ghosts, base>>
     \/ /\ ResetTables /\ rows' = NoRows
        /\ ghosts' = {} /\ base' = [s \in Symbols |-> 0]
  /\ raced' = (raced \/ ~Returned)
  /\ UNCHANGED <<script, crashes, collided>>

\* The net quantity of the symbol's fills in the table.
NetOf(table, s) ==
  MapThenSumSet(LAMBDA key : table[key].net, {key \in DOMAIN table : table[key].symbol = s})
Net(s) == NetOf(rows.fills, s)

\* The process ends and starts again.
Crash ==
  /\ crashes < MaxCrashes /\ crashes' = crashes + 1
  /\ consuming' = TRUE /\ resetPc' = "idle"
  /\ orders' = << >> /\ positions' = << >> /\ closedPnl' = 0
  /\ account' = [cash |-> InitialBalance, realized |-> 0, fees |-> 0, funding |-> 0]
  /\ fills' = [s \in Symbols |-> [entry |-> 0, exit |-> 0]]
  /\ lastMarkets' = [s \in Symbols |-> NoMarket] /\ latestMarkets' = lastMarkets'
  /\ fundingEvents' = {} /\ tick' = Idle
  /\ nextFunding' = [s \in Symbols |-> None] /\ pendingFunding' = nextFunding'
  /\ ClearRisk
  /\ script' = NoScript /\ raced' = FALSE /\ collided' = FALSE
  /\ ghosts' = DOMAIN rows.positions /\ base' = [s \in Symbols |-> Net(s)]
  /\ UNCHANGED <<now, emitted, emergencies, rows>>

Clock == ClockTick /\ UNCHANGED <<resetPc, storeVars>>

NextStore == Clock \/ Handler \/ Save \/ ResetStep \/ Crash
SpecStore == InitStore /\ [][NextStore]_<<raceVars, storeVars>>

-----------------------------------------------------------------------------
(* Properties.                                                               *)

\* No handler and no reset is at work.
AtRest == Returned /\ LoopFree /\ resetPc = "idle"

\* _save_order, _save_position, _record_equity: between two handlers the tables show
\* every order and position of the memory and the balance after the latest market;
\* a position the memory does not have is one that a former process left behind.
TablesFollowMemory ==
  AtRest /\ ~raced =>
    /\ \A id \in DOMAIN orders : id \in DOMAIN rows.orders /\ rows.orders[id] = orders[id]
    /\ \A s \in DOMAIN positions :
         s \in DOMAIN rows.positions /\ rows.positions[s] = positions[s]
    /\ DOMAIN rows.positions \ DOMAIN positions = ghosts
    /\ (\E s \in Symbols : lastMarkets[s].time # None) =>
         \E s \in Symbols :
           /\ lastMarkets[s].time \in DOMAIN rows.account
           /\ rows.account[lastMarkets[s].time].cash = account.cash

\* What the row of a position that this process has opened says.
RowQuantity(s) ==
  IF s \in DOMAIN rows.positions \ ghosts THEN rows.positions[s].quantity ELSE 0
\* The fill that the running handler has still to save.
PendingFill(s) ==
  {f.row.net : f \in {g \in Unsaved : g.table = "fills" /\ g.row.symbol = s}}

\* _execute: wherever the process ends, the fills in the table net out to the row of
\* the position, or to that row without the one fill whose statement comes next.
OneFillTorn ==
  ~raced /\ ~collided =>
    \A s \in Symbols :
      RowQuantity(s) - (Net(s) - base[s]) \in {0} \cup PendingFill(s)
=============================================================================
