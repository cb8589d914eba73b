------------------------------ MODULE DemoTrading ------------------------------
(***************************************************************************)
(* Orders on the Binance demo account: BinanceDemoTradingClient.place_order  *)
(* (demo_trading/client.py), and the DemoTradingAdapter in front of it, which *)
(* reconciles the exchange's positions with the local ones before it opens   *)
(* and keeps the local ones from the user data stream                        *)
(* (demo_trading/service.py).                                                *)
(*                                                                           *)
(* Every HTTP request is an await at which the other calls and the stream's  *)
(* handler run, so a call is one action per request.  The exchange is        *)
(* external: it executes an order at once, it may do so without the client   *)
(* learning it, or after the client has given up on the request.  Retrying   *)
(* is up to the caller: another call with the same idempotency key, at any   *)
(* time.  The process may stop or die at any await and be started again; of  *)
(* the state of this module only the demo_positions outlive it.              *)
(*                                                                           *)
(* Abstraction.  One symbol, an order of one unit, a position that is its    *)
(* quantity.  A request fails or succeeds; retry of a clock error, signatures *)
(* and decoding are left out.                                                *)
(***************************************************************************)
EXTENDS UserDataStream

CONSTANTS
  Calls, Keys,    \* calls of DemoTradingAdapter.place_order, idempotency keys
  KeyOf,          \* call -> its key
  Opening         \* the calls with intent OPEN; the others close

ASSUME CallsAssumption ==
  KeyOf \in [Calls -> Keys] /\ Opening \subseteq Calls

VARIABLES
  pc,             \* call -> what it awaits, or how it ended
  fetched,        \* call -> the remote position its reconciliation has read
  holder,         \* _order_locks: key -> the calls inside the lock
  executions,     \* the exchange: key -> how many orders it has executed
  remote,         \* the exchange: the position
  abandoned,      \* requests on their way that no client waits for
  late,           \* key -> how many of its executions were such requests
  lost,           \* whether an ACCOUNT_UPDATE event was lost after the last one that
                  \* was handled; for the properties
  local,          \* demo_positions in the local store
  inSync,         \* positions_in_sync
  handler,        \* on_user_event, or start: [pc, fetched]
  process         \* "down", "starting" (DemoTradingAdapter.start) or "up"

call     == <<pc, fetched, holder>>
exchange == <<executions, remote, abandoned, late>>
store    == <<lost, local, handler>>
vars     == <<call, exchange, store, inSync, process, streamVars>>

Waiting == {"remote", "local", "lock", "query", "post", "recheck"}
Ended == {"done", "refused", "unknown", "failed"}

Init ==
  /\ pc = [c \in Calls |-> "idle"] /\ fetched = [c \in Calls |-> 0]
  /\ holder = [k \in Keys |-> {}]
  /\ executions = [k \in Keys |-> 0] /\ late = executions /\ abandoned = {}
  /\ remote \in 0 .. 1 /\ local \in 0 .. 1 /\ inSync = FALSE /\ process = "down"
  /\ lost = (remote # local) /\ StreamInit
  /\ handler = [pc |-> "idle", fetched |-> 0]

Goto(c, next) == pc' = [pc EXCEPT ![c] = next]

\* `async with lock': leaving the block, on whatever path, releases the lock.
\* Mutant: only a call that was answered releases it.
LeaveAnswered(c, outcome) ==
  /\ Goto(c, outcome)
  /\ holder' = IF outcome = "done" THEN [holder EXCEPT ![KeyOf[c]] = @ \ {c}] ELSE holder
Leave(c, outcome) ==
  /\ Goto(c, outcome)
  /\ holder' = [holder EXCEPT ![KeyOf[c]] = @ \ {c}]

\* A request that raises, on its way or for an answer of status 400 or more.
Raises(c) == Leave(c, "failed")

-----------------------------------------------------------------------------
(* DemoTradingAdapter.place_order, with reconcile_positions.                 *)

Begin(c) ==
  /\ pc[c] = "idle" /\ process = "up"
  /\ Goto(c, IF c \in Opening THEN "remote" ELSE "lock")
  /\ UNCHANGED <<fetched, holder, exchange, store, inSync, streamVars>>

FetchRemote(c) ==
  /\ pc[c] = "remote"
  /\ \/ Goto(c, "local") /\ fetched' = [fetched EXCEPT ![c] = remote]
     \/ Goto(c, "failed") /\ UNCHANGED fetched
  /\ UNCHANGED <<holder, exchange, store, inSync, streamVars>>

\* The comparison, and the gate that reads its result at once.
Compare(c) ==
  /\ pc[c] = "local"
  /\ inSync' = (fetched[c] = local)
  /\ Goto(c, IF inSync' THEN "lock" ELSE "refused")
  /\ UNCHANGED <<fetched, holder, exchange, store, streamVars>>

-----------------------------------------------------------------------------
(* BinanceDemoTradingClient.place_order.                                     *)

\* Mutant: the lock is free for everyone.
LockIsFree(c) == c \notin holder[KeyOf[c]]
CanLock(c) == holder[KeyOf[c]] = {}

AcquireLock(c) ==
  /\ pc[c] = "lock" /\ CanLock(c)
  /\ holder' = [holder EXCEPT ![KeyOf[c]] = @ \cup {c}]
  /\ Goto(c, "query")
  /\ UNCHANGED <<fetched, exchange, store, inSync, streamVars>>

\* query_order: the order of the key, none, or an exception; then the order is
\* normalized, which may refuse it, and posted.
Query(c) ==
  /\ pc[c] = "query"
  /\ \/ executions[KeyOf[c]] > 0 /\ Leave(c, "done")
     \/ executions[KeyOf[c]] = 0 /\ Goto(c, "post") /\ UNCHANGED holder
     \/ Raises(c)
  /\ UNCHANGED <<fetched, exchange, store, inSync, streamVars>>

\* The exchange: an OPEN order adds to the position, a reduce-only order takes from
\* it, and either announces the position on the user data stream, if one is open.
Execute(c) ==
  /\ executions' = [executions EXCEPT ![KeyOf[c]] = @ + 1]
  /\ remote' = IF c \in Opening THEN remote + 1 ELSE IF remote > 0 THEN remote - 1 ELSE 0
  /\ frames' = IF Delivers THEN Append(frames, remote') ELSE frames
  /\ lost' = (lost \/ ~Delivers)
  /\ UNCHANGED <<keyLive, link, healthy, missed>>

\* The response of the POST: the order; status 503, execution unknown; or an
\* exception.  The order may have been executed in each case.
PostExecuted(c) ==
  /\ pc[c] = "post"
  /\ Execute(c)
  /\ \/ Leave(c, "done")
     \/ Goto(c, "recheck") /\ UNCHANGED holder
     \/ Raises(c)
  /\ UNCHANGED <<fetched, abandoned, late, local, handler, inSync>>

PostNotExecuted(c) ==
  /\ pc[c] = "post"
  /\ \/ Goto(c, "recheck") /\ UNCHANGED holder
     \/ Raises(c)
  /\ abandoned' \in {abandoned, abandoned \cup {c}}
  /\ UNCHANGED <<fetched, executions, remote, late, store, inSync, streamVars>>

ArriveLate(c) ==
  /\ c \in abandoned /\ abandoned' = abandoned \ {c}
  /\ Execute(c) /\ late' = [late EXCEPT ![KeyOf[c]] = @ + 1]
  /\ UNCHANGED <<call, local, handler, inSync>>

\* After status 503 the order is queried, never posted again.
Recheck(c) ==
  /\ pc[c] = "recheck"
  /\ \/ executions[KeyOf[c]] > 0 /\ Leave(c, "done")
     \/ executions[KeyOf[c]] = 0 /\ Leave(c, "unknown")
     \/ Raises(c)
  /\ UNCHANGED <<fetched, exchange, store, inSync, streamVars>>

-----------------------------------------------------------------------------
(* The user data stream and DemoTradingAdapter.on_user_event, which runs inside *)
(* the stream's _receive.                                                     *)

Idle == [pc |-> "idle", fetched |-> 0]
Quiet == handler.pc = "idle"
Drops == lost' = (lost \/ Unread \ {Expired} # {})

\* The connection fails to open or is lost, or a renewal raises.
StreamFails ==
  /\ link \notin {"sleeping", "stopped"} /\ Quiet /\ Pause /\ Drops
  /\ UNCHANGED <<call, exchange, local, handler, inSync>>

\* A rotation cancels the handler at its await.
StreamRotates ==
  /\ Rotate /\ Drops /\ handler' = Idle
  /\ UNCHANGED <<call, exchange, local, inSync>>

StreamStep ==
  /\ Connect \/ Wake \/ Renew \/ KeepaliveFails \/ KeyExpires \/ (Quiet /\ ReceiveExpired)
  /\ UNCHANGED <<call, exchange, store, inSync>>

\* Mutant: a closed position is not stored.
StoreOpenPosition(position) == IF position = 0 THEN local ELSE position

\* save_demo_position
Store(position) == position

OnAccountUpdate ==
  /\ link = "open" /\ Quiet /\ frames # << >> /\ Head(frames) # Expired
  /\ local' = Store(Head(frames)) /\ frames' = Tail(frames)
  /\ handler' = [handler EXCEPT !.pc = "remote"] /\ lost' = (lost /\ ~keyLive)
  /\ UNCHANGED <<call, exchange, inSync, keyLive, link, healthy, missed>>

HandlerFetches ==
  /\ handler.pc = "remote"
  /\ handler' = [pc |-> "local", fetched |-> remote]
  /\ UNCHANGED <<call, exchange, lost, local, inSync, streamVars>>

\* The request raises, and _run takes the exception.
HandlerFails ==
  /\ process = "up" /\ handler.pc = "remote" /\ Pause /\ Drops /\ handler' = Idle
  /\ UNCHANGED <<call, exchange, local, inSync>>

HandlerCompares ==
  /\ handler.pc = "local"
  /\ handler' = Idle /\ inSync' = (handler.fetched = local)
  /\ UNCHANGED <<call, exchange, lost, local, streamVars>>

-----------------------------------------------------------------------------
(* DemoTradingAdapter.start and stop, and the process that dies.             *)

\* client.start and is_hedge_mode have answered; next is reconcile_positions, whose
\* requests are the steps of the handler's.
Boot ==
  /\ process = "down" /\ process' = "starting" /\ handler' = [Idle EXCEPT !.pc = "remote"]
  /\ UNCHANGED <<call, exchange, lost, local, inSync, streamVars>>

\* Whatever the comparison has found, the stream is started.
Started ==
  /\ process = "starting" /\ Quiet /\ Start /\ process' = "up"
  /\ UNCHANGED <<call, exchange, store, inSync>>

\* A request of start raises, and the application does not come up.
StartFails ==
  /\ process = "starting" /\ process' = "down" /\ handler' = Idle /\ inSync' = FALSE
  /\ UNCHANGED <<call, exchange, lost, local, streamVars>>

\* The calls under way and the locks are gone; an order that is on its way may arrive.
Down ==
  /\ process = "up" /\ process' = "down"
  /\ pc' = [c \in Calls |-> IF pc[c] \in Waiting THEN "failed" ELSE pc[c]]
  /\ fetched' = [c \in Calls |-> 0] /\ holder' = [k \in Keys |-> {}]
  /\ \E posted \in SUBSET {c \in Calls : pc[c] = "post"} : abandoned' = abandoned \cup posted
  /\ Stop /\ Drops /\ handler' = Idle /\ inSync' = FALSE
  /\ UNCHANGED <<executions, remote, late, local>>

-----------------------------------------------------------------------------
CallStep(c) ==
  /\ \/ FetchRemote(c) \/ Compare(c) \/ AcquireLock(c) \/ Query(c)
     \/ PostExecuted(c) \/ PostNotExecuted(c) \/ Recheck(c)
  /\ UNCHANGED process
Handler == OnAccountUpdate \/ HandlerFetches \/ HandlerFails \/ HandlerCompares
Next ==
  \/ \E c \in Calls : CallStep(c) \/ ((Begin(c) \/ ArriveLate(c)) /\ UNCHANGED process)
  \/ (StreamFails \/ StreamRotates \/ StreamStep \/ Handler) /\ UNCHANGED process
  \/ Boot \/ Started \/ StartFails \/ Down
Spec == Init /\ [][Next]_vars

\* Every request is answered or fails (the HTTP client has a timeout).
LiveSpec == Spec /\ \A c \in Calls : WF_vars(CallStep(c))

-----------------------------------------------------------------------------
(* Properties.                                                               *)

\* Type invariant; the lock of a key has its holder inside the locked block.
TypeOK ==
  /\ pc \in [Calls -> {"idle"} \cup Waiting \cup Ended] /\ fetched \in [Calls -> Nat]
  /\ holder \in [Keys -> SUBSET Calls] /\ executions \in [Keys -> Nat]
  /\ remote \in Nat /\ local \in Nat /\ abandoned \subseteq Calls /\ late \in [Keys -> Nat]
  /\ frames \in Seq(Nat \cup {Expired}) /\ link \in Links
  /\ {keyLive, healthy, missed} \subseteq BOOLEAN /\ lost \in BOOLEAN /\ inSync \in BOOLEAN
  /\ process \in {"down", "starting", "up"} /\ (link = "stopped" <=> process # "up")
  /\ handler \in [pc : {"idle", "remote", "local"}, fetched : Nat]
  /\ \A c \in Calls : c \in holder[KeyOf[c]] <=> pc[c] \in {"query", "post", "recheck"}

\* place_order: "Place idempotently; a 503 unknown response is resolved by query,
\* never resubmission": whatever calls race, fail and retry, the exchange executes
\* at most one order per key, besides requests that reach it after the client has
\* given them up, which no query of the client can rule out; and a call that returned
\* an order returned one the exchange has.
PlacedOnce ==
  \A k \in Keys :
    /\ executions[k] - late[k] <= 1
    /\ (\E c \in Calls : pc[c] = "done" /\ KeyOf[c] = k) => executions[k] > 0

\* on_user_event, save_demo_position: the stored position is the exchange's once every
\* event has been handled, across restarts, connections and keys, unless an event was
\* lost that none has followed: nothing else repairs the table.
LocalFollowsRemote == ~lost /\ frames = << >> => local = remote

\* DemoUserDataStream.healthy, which /api/health reports: the stream is healthy only
\* while a connection is open, and if that connection is one the exchange sends
\* nothing on, the notice of the expired key was missed or its renewal failed.
HealthyStreamHears ==
  healthy => link = "open" /\ (keyLive \/ missed \/ Expired \in Unread)

\* place_order: every call that has begun ends, also when calls of the same key fail.
CallsEnd == <>[](\A c \in Calls : pc[c] \notin Waiting)
=============================================================================
