---------------------------- MODULE PaperResetRace ----------------------------
(***************************************************************************)
(* POST /api/paper/reset runs PaperBroker.reset in a worker thread           *)
(* (api/app.py: asyncio.to_thread), so its statements interleave with the    *)
(* handlers of the event loop and with the iterations of a running           *)
(* on_market loop.  The thread is one action per statement that touches the  *)
(* state the other components read; a fill stays one step, which leaves out  *)
(* only further interleavings.                                               *)
(***************************************************************************)
EXTENDS PaperBroker

VARIABLE resetPc   \* the statement the reset thread runs next, "idle" without one

raceVars == <<vars, resetPc>>

InitRace == Init /\ resetPc = "idle"

\* The check for open positions; with one open the request ends with status 409.
StartReset ==
  /\ resetPc = "idle" /\ DOMAIN positions = {}
  /\ resetPc' = "account"
  /\ UNCHANGED vars

ResetAccount ==
  /\ resetPc = "account" /\ resetPc' = "orders"
  /\ account' = [cash |-> InitialBalance, realized |-> 0, fees |-> 0, funding |-> 0]
  /\ UNCHANGED <<orders, positions, fills, closedPnl, feed, riskVars, env, tick>>

ResetOrders ==
  /\ resetPc = "orders" /\ resetPc' = "fills"
  /\ orders' = << >>
  /\ UNCHANGED <<positions, account, fills, closedPnl, feed, riskVars, env, tick>>

ResetFills ==
  /\ resetPc = "fills" /\ resetPc' = "markets"
  /\ fills' = [s \in Symbols |-> [entry |-> 0, exit |-> 0]] /\ closedPnl' = 0
  /\ UNCHANGED <<orders, positions, account, feed, riskVars, env, tick>>

ResetMarkets ==
  /\ resetPc = "markets" /\ resetPc' = "risk"
  /\ lastMarkets' = [s \in Symbols |-> NoMarket] /\ fundingEvents' = {}
  /\ UNCHANGED <<ledger, latestMarkets, nextFunding, pendingFunding, riskVars, env, tick>>

ResetRisk ==
  /\ resetPc = "risk" /\ resetPc' = "tables"
  /\ ClearRisk
  /\ UNCHANGED <<ledger, feed, env, tick>>

\* store.reset_paper, one transaction; the tables themselves are in PaperStore.
ResetTables ==
  /\ resetPc = "tables" /\ resetPc' = "idle"
  /\ UNCHANGED vars

ResetMemory ==
  StartReset \/ ResetAccount \/ ResetOrders \/ ResetFills \/ ResetMarkets \/ ResetRisk
ResetThread == ResetMemory \/ ResetTables

\* on_market's loop reads an order by an identity that is gone: the KeyError ends
\* the task that consumes the events.
OrderGone ==
  /\ ~(tick.todo \subseteq DOMAIN orders)
  /\ tick' = Idle /\ consuming' = FALSE
  /\ UNCHANGED <<ledger, feed, riskVars, now, emitted, emergencies>>

EventLoop ==
  \/ ClockTick \/ MarketData \/ Strategy \/ OrderGone
  \/ tick.todo \subseteq DOMAIN orders /\ ExecuteOrder
  \/ EmergencyCloseAll \/ PauseEntries \/ ResumeEntries

NextRace ==
  \/ ResetThread
  \/ EventLoop /\ UNCHANGED resetPc
SpecRace == InitRace /\ [][NextRace]_raceVars

-----------------------------------------------------------------------------
\* reset: "Cannot reset paper account while positions are open".
ResetOnlyFlat == resetPc # "idle" => DOMAIN positions = {}
=============================================================================
