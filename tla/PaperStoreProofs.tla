---------------------------- MODULE PaperStoreProofs ----------------------------
(***************************************************************************)
(* The tables of the paper account follow its memory, for every set of        *)
(* symbols and signals, every quote, every value of the settings and any      *)
(* number of restarts and resets.                                             *)
(***************************************************************************)
EXTENDS PaperBrokerProofs, PaperStore

-----------------------------------------------------------------------------
(* The inductive invariant.                                                  *)

\* The loop may hold orders that the reset thread has cleared.
LoopType ==
  /\ tick \in [market : [time : Nat \cup {None}, bid : Nat, ask : Nat],
               bids : Nat, asks : Nat, todo : SUBSET OrderIds]
  /\ tick.todo # {} => tick.market.time # None
MarketsType == lastMarkets \in [Symbols -> [time : Nat \cup {None}, bid : Nat, ask : Nat]]
MemoryType == OrdersType /\ PositionsType /\ AccountType /\ EnvType /\ LoopType /\ MarketsType

Tables == {"orders", "fills", "positions", "account"}
\* Finitely many fills, whose net quantities are integers.
IsFills(table) == IsFiniteSet(DOMAIN table) /\ \A k \in DOMAIN table : table[k].net \in Int
TablesType ==
  /\ rows = [orders |-> rows.orders, fills |-> rows.fills,
             positions |-> rows.positions, account |-> rows.account]
  /\ IsFills(rows.fills)
  /\ base \in [Symbols -> Int]

\* A statement stands in one stage and is the only one for its row; there is at most
\* one fill, which is saved when every position is.
ScriptType ==
  /\ script = [i \in Stages |-> script[i]]
  /\ \A g \in Unsaved : /\ g.table \in Tables /\ (g.table # "positions" => g.row # Gone)
                        /\ g.table = "fills" => g.row.net \in Int
  /\ \A f, g \in Unsaved :
       f.table = g.table /\ (f.table = "fills" \/ f.key = g.key) => f = g
  /\ \A i, j \in Stages : i # j => script[i] \cap script[j] = {}
  /\ \A i, j \in Stages : \A g \in script[i], f \in script[j] :
       g.table = "positions" /\ f.table = "fills" => i < j

StoreType == MemoryType /\ TablesType /\ ScriptType

Unsaves(table, key) == \E g \in Unsaved : g.table = table /\ g.key = key
NoMarkets == \A s \in Symbols : lastMarkets[s].time = None

\* What the reset thread has cleared stays so.
ResetInv ==
  /\ resetPc # "idle" => Returned /\ DOMAIN positions = {}
  /\ resetPc \in {"fills", "markets", "risk", "tables"} => DOMAIN orders = {}

\* A loop whose orders are gone has no market, unless the thread is about to clear
\* it; any other loop runs at its symbol's latest market.
LoopInv ==
  /\ resetPc \in {"risk", "tables"} => NoMarkets
  /\ tick # Idle => tick.todo # {}
  /\ ~(tick.todo \subseteq DOMAIN orders) =>
       DOMAIN orders = {} /\ (resetPc \in {"fills", "markets"} \/ NoMarkets)
  /\ tick # Idle /\ DOMAIN orders # {} =>
       \E s \in Symbols : lastMarkets[s].time = tick.market.time

\* The row of an order, of a position and of the balance is what the memory has, or
\* the statement that makes it so is left.
OrderRowsInv ==
  /\ \A g \in Unsaved : g.table = "orders" => g.key \in DOMAIN orders /\ g.row = orders[g.key]
  /\ \A id \in DOMAIN orders :
       Unsaves("orders", id) \/ (id \in DOMAIN rows.orders /\ rows.orders[id] = orders[id])

PositionRow(s) == IF s \in DOMAIN positions THEN positions[s] ELSE Gone
PositionRowsInv ==
  /\ ghosts \subseteq DOMAIN rows.positions
  /\ \A g \in Unsaved : g.table = "positions" => g.row = PositionRow(g.key)
  /\ \A s \in DOMAIN positions : ~Unsaves("positions", s) =>
       s \in DOMAIN rows.positions \ ghosts /\ rows.positions[s] = positions[s]
  /\ \A s \in DOMAIN rows.positions \ DOMAIN positions :
       ~Unsaves("positions", s) => s \in ghosts

BalanceSaved(s) ==
  /\ \A g \in Unsaved : g.table = "account" =>
       g.key = lastMarkets[s].time /\ g.row.cash = account.cash
  /\ \/ \E g \in Unsaved : g.table = "account"
     \/ lastMarkets[s].time \in DOMAIN rows.account
        /\ rows.account[lastMarkets[s].time].cash = account.cash
AccountRowsInv == resetPc = "idle" /\ LoopFree => NoMarkets \/ \E s \in Symbols : BalanceSaved(s)

RowsInv ==
  ~raced => ResetInv /\ LoopInv /\ OrderRowsInv /\ PositionRowsInv /\ AccountRowsInv

\* What the memory holds of s, and what the fills of this process net out to.
Held(s) == IF s \in DOMAIN positions THEN positions[s].quantity ELSE 0
Netted(s) == Net(s) - base[s]

\* The fills in the table net out to the position but for the one that is left, and
\* a position whose statement is left has the row of before that fill.
FillRowsInv ==
  \A s \in Symbols :
    /\ PendingFill(s) = {} => Netted(s) = Held(s)
    /\ \A net \in PendingFill(s) : Netted(s) = Held(s) - net
    /\ Unsaves("positions", s) => RowQuantity(s) = Netted(s)

StoreInv == StoreType /\ RowsInv /\ (~raced /\ ~collided => FillRowsInv)

-----------------------------------------------------------------------------
(* The net quantity of the fills in the table, as a sum.                     *)

KeysOf(table, s) == {key \in DOMAIN table : table[key].symbol = s}
NetsOf(table, keys) == [key \in keys |-> table[key].net]

LEMMA NetIsTotal ==
  ASSUME NEW table, NEW s, IsFiniteSet(DOMAIN table)
  PROVE  /\ IsFiniteSet(KeysOf(table, s))
         /\ NetOf(table, s) = Total(NetsOf(table, KeysOf(table, s)), KeysOf(table, s))
<1> DEFINE S == KeysOf(table, s)
           Q(g) == g = [T \in SUBSET S |->
                          IF T = {} THEN 0 ELSE table[Picked(T)].net + g[T \ {Picked(T)}]]
<1>1. NetOf(table, s) = (CHOOSE g : Q(g))[S]
  BY DEF NetOf, MapThenSumSet, MapThenFoldSet, Picked, KeysOf
<1>2. IsFiniteSet(S)
  BY FS_Subset DEF KeysOf
<1> HIDE DEF S
<1>3. \A g : Q(g) <=> Sums(g, NetsOf(table, S), SUBSET S)
  <2> SUFFICES ASSUME NEW g PROVE Q(g) <=> Sums(g, NetsOf(table, S), SUBSET S)
    OBVIOUS
  <2>1. ASSUME NEW T \in SUBSET S, T # {}
        PROVE  table[Picked(T)].net = NetsOf(table, S)[Picked(T)]
    BY <2>1, PickedIn DEF NetsOf
  <2> QED BY <2>1 DEF Sums, Plus
<1>4. \E g : Sums(g, NetsOf(table, S), SUBSET S)
  BY <1>2, SumsExist
<1> DEFINE h == CHOOSE g : Q(g)
<1> HIDE DEF Q
<1>5. Sums(h, NetsOf(table, S), SUBSET S)
  BY <1>3, <1>4
<1> HIDE DEF h
<1>6. NetOf(table, s) = Total(NetsOf(table, S), S)
  BY <1>1, <1>2, <1>5, TotalOf DEF h
<1> QED BY <1>2, <1>6 DEF S

LEMMA NetOfNone == \A s : NetOf(Empty, s) = 0
<1> TAKE s
<1>1. DOMAIN Empty = {} /\ KeysOf(Empty, s) = {}
  BY DEF Empty, KeysOf
<1> QED BY <1>1, FS_EmptySet, NetIsTotal, TotalEmpty

LEMMA NetInt == ASSUME NEW table, IsFills(table), NEW s PROVE NetOf(table, s) \in Int
<1> DEFINE S == KeysOf(table, s)
<1>1. \A k \in S : NetsOf(table, S)[k] \in Whole
  BY DEF IsFills, KeysOf, NetsOf, Whole
<1>2. IsFiniteSet(S) /\ NetOf(table, s) = Total(NetsOf(table, S), S)
  BY NetIsTotal DEF IsFills
<1> HIDE DEF S
<1> QED BY <1>1, <1>2, TotalInt DEF Whole

\* One more fill.
LEMMA NetAdded ==
  ASSUME NEW table, IsFills(table), NEW key, key \notin DOMAIN table, NEW row, row.net \in Int
  PROVE  /\ IsFills(Put(table, key, row))
         /\ \A s : NetOf(Put(table, key, row), s)
                     = NetOf(table, s) + (IF row.symbol = s THEN row.net ELSE 0)
<1> DEFINE later == Put(table, key, row)
<1>1. /\ DOMAIN later = DOMAIN table \cup {key} /\ later[key] = row
      /\ \A k \in DOMAIN table : later[k] = table[k]
  BY DEF Put
<1>2. IsFills(later)
  BY <1>1, FS_AddElement DEF IsFills
<1> HIDE DEF later
<1>3. ASSUME NEW s PROVE NetOf(later, s) = NetOf(table, s) + (IF row.symbol = s THEN row.net ELSE 0)
  <2> DEFINE S == KeysOf(table, s)
             W == KeysOf(later, s)
             F == NetsOf(table, S)
             G == NetsOf(later, W)
  <2>1. IsFiniteSet(S) /\ IsFiniteSet(W)
    BY <1>2, NetIsTotal DEF IsFills
  <2>2. NetOf(table, s) = Total(F, S) /\ NetOf(later, s) = Total(G, W)
    BY <1>2, NetIsTotal DEF IsFills
  <2>3. /\ \A k \in S : F[k] = table[k].net /\ F[k] \in Whole
        /\ \A k \in W : G[k] = later[k].net /\ G[k] \in Whole
    BY <1>2 DEF IsFills, KeysOf, NetsOf, Whole
  <2>4. /\ S \subseteq W /\ key \notin S /\ W \subseteq S \cup {key}
        /\ key \in W <=> row.symbol = s
    BY <1>1 DEF KeysOf
  <2>5. \A k \in S : F[k] = G[k]
    <3>1. S \subseteq DOMAIN table
      BY DEF KeysOf
    <3> QED BY <1>1, <2>3, <2>4, <3>1
  <2> HIDE DEF S, W, F, G
  <2>6. Total(F, S) = Total(G, S) /\ Total(G, S) \in Int
    BY <2>1, <2>3, <2>5, TotalAgrees, TotalInt DEF Whole
  <2>7. CASE row.symbol = s
    <3>1. key \in W /\ W \ {key} = S /\ G[key] = row.net
      BY <1>1, <2>3, <2>4, <2>7
    <3>2. Total(G, W) = G[key] + Total(G, W \ {key})
      BY <2>1, <2>3, <3>1, TotalSplit
    <3>3. NetOf(later, s) = row.net + NetOf(table, s)
      BY <2>2, <2>6, <3>1, <3>2
    <3>4. NetOf(table, s) \in Int
      BY <2>2, <2>6
    <3> QED BY <2>7, <3>3, <3>4
  <2>8. CASE row.symbol # s
    <3>1. W = S
      BY <2>4, <2>8
    <3> QED BY <2>2, <2>6, <2>8, <3>1
  <2> QED BY <2>7, <2>8
<1> QED BY <1>2, <1>3 DEF later

-----------------------------------------------------------------------------
(* The statements a handler leaves behind.                                   *)

\* A row that is saved is not the one a DELETE stands for.
LEMMA RowsStay == (\A o \in Order : o # Gone) /\ (\A p \in Position : p # Gone)
<1>1. DOMAIN Gone = {}
  BY DEF Gone
<1>2. (\A o \in Order : "side" \in DOMAIN o) /\ (\A p \in Position : "side" \in DOMAIN p)
  BY DEF Order, Position
<1> QED BY <1>1, <1>2

LEMMA SnapshotStays == ASSUME NEW cash, NEW open PROVE [cash |-> cash, open |-> open] # Gone
<1> DEFINE row == [cash |-> cash, open |-> open]
<1>1. "cash" \in DOMAIN row
  OBVIOUS
<1>2. DOMAIN Gone = {}
  BY DEF Gone
<1> HIDE DEF row
<1>3. row # Gone
  BY <1>1, <1>2
<1> QED BY <1>3 DEF row

LEMMA FiveStages ==
  ASSUME NEW A, NEW B, NEW C, NEW D, NEW E, script' = <<A, B, C, D, E>>
  PROVE  /\ Unsaved' = A \cup B \cup C \cup D \cup E
         /\ script' = [i \in Stages |-> script'[i]] /\ Stages = {1, 2, 3, 4, 5}
         /\ script'[1] = A /\ script'[2] = B /\ script'[3] = C /\ script'[4] = D /\ script'[5] = E
<1>1. script'[1] = A /\ script'[2] = B /\ script'[3] = C /\ script'[4] = D /\ script'[5] = E
  OBVIOUS
<1>2. script' = [i \in Stages |-> script'[i]] /\ Stages = {1, 2, 3, 4, 5}
  BY DEF Stages
<1>3. Unsaved' = script'[1] \cup script'[2] \cup script'[3] \cup script'[4] \cup script'[5]
  BY <1>2, Zenon DEF Unsaved
<1> QED BY <1>1, <1>2, <1>3

\* The rows of orders and of positions that a handler saves.
LEMMA OrderRowsFacts ==
  ASSUME NEW ids
  PROVE  /\ \A g \in OrderRows(ids) : /\ g.table = "orders" /\ g.key \in ids
                                      /\ g.row = orders'[g.key]
                                      /\ g = Statement("orders", g.key, g.row)
         /\ \A id \in ids : Statement("orders", id, orders'[id]) \in OrderRows(ids)
BY DEF OrderRows, Statement

ChangedPositions ==
  {s \in DOMAIN positions' : s \notin DOMAIN positions \/ positions'[s] # positions[s]}
    \cup (DOMAIN positions \ DOMAIN positions')

LEMMA SavedPositionsFacts ==
  /\ \A g \in SavedPositions : /\ g.table = "positions" /\ g.key \in ChangedPositions
                               /\ g.row = PositionRow(g.key)'
                               /\ g = Statement("positions", g.key, g.row)
  /\ \A s \in ChangedPositions : Statement("positions", s, PositionRow(s)') \in SavedPositions
<1>1. \A s \in DOMAIN positions' : PositionRow(s)' = positions'[s]
  BY DEF PositionRow
<1>2. \A s : s \notin DOMAIN positions' => PositionRow(s)' = Gone
  BY DEF PositionRow
<1>3. \A s \in ChangedPositions : Statement("positions", s, PositionRow(s)') \in SavedPositions
  BY <1>1, <1>2 DEF SavedPositions, ChangedPositions
<1>4. ASSUME NEW g \in SavedPositions
      PROVE  \E s \in ChangedPositions : g = Statement("positions", s, PositionRow(s)')
  BY <1>1, <1>2 DEF SavedPositions, ChangedPositions
<1> QED BY <1>3, <1>4 DEF Statement

LEMMA SnapshotFacts ==
  ASSUME NEW at
  PROVE  /\ \A g \in Snapshot(at) : /\ g.table = "account" /\ g.key = at /\ g.row # Gone
                                    /\ g.row.cash = account'.cash
         /\ \A f, g \in Snapshot(at) : f = g
         /\ tick' = Idle <=> Snapshot(at) # {}
<1> DEFINE row == [cash |-> account'.cash, open |-> Cardinality(DOMAIN positions')]
<1>1. Snapshot(at) = IF tick' # Idle THEN {} ELSE {Statement("account", at, row)}
  BY DEF Snapshot
<1>2. row # Gone /\ row.cash = account'.cash
  BY SnapshotStays
<1> HIDE DEF row
<1> DEFINE g == Statement("account", at, row)
<1>3. g.table = "account" /\ g.key = at /\ g.row = row
  BY DEF Statement
<1> HIDE DEF g
<1>4. Snapshot(at) = IF tick' # Idle THEN {} ELSE {g}
  BY <1>1 DEF g
<1> QED BY <1>2, <1>3, <1>4

\* The fill of the iteration, if there is one.
FillNet(id) == (IF ReduceOnly(id) THEN -1 ELSE 1) * FillQuantity(id)
OneFill == Executed = {} \/ \E id \in ChangedOrders : Executed = {id} /\ FillNet(id) \in Int
             /\ orders'[id].filled - orders[id].filled = FillQuantity(id)

LEMMA FillRowsFacts ==
  ASSUME OneFill
  PROVE  /\ \A g \in FillRows(Executed) : /\ g.table = "fills" /\ g.row # Gone
                                          /\ g.row.net \in Int
         /\ \A f, g \in FillRows(Executed) : f = g
         /\ \A id : Executed = {id} =>
              \E key : FillRows(Executed) =
                {Statement("fills", key, [symbol |-> orders[id].symbol, net |-> FillNet(id)])}
<1>1. CASE Executed = {}
  BY <1>1 DEF FillRows
<1>2. CASE Executed # {}
  <2>1. PICK id : /\ Executed = {id} /\ FillNet(id) \in Int
                  /\ orders'[id].filled - orders[id].filled = FillQuantity(id)
    BY <1>2 DEF OneFill
  <2> DEFINE row == [symbol |-> orders[id].symbol, net |-> FillNet(id)]
             key == <<id, orders'[id].filled, tick.market.time>>
  <2>2. FillRows(Executed) = {Statement("fills", key, row)}
    BY <2>1 DEF FillRows, FillNet
  <2>3. row # Gone
    <3>1. DOMAIN Gone = {}
      BY DEF Gone
    <3>2. "net" \in DOMAIN row
      OBVIOUS
    <3> HIDE DEF row
    <3> QED BY <3>1, <3>2
  <2>4. row.net \in Int
    BY <2>1
  <2>5. \A other : Executed = {other} => other = id
    BY <2>1
  <2>6. \A f, g \in FillRows(Executed) : f = g
    BY <2>2
  <2>7. \A g \in FillRows(Executed) : g.table = "fills" /\ g.row = row
    BY <2>2 DEF Statement
  <2>8. \E k : FillRows(Executed) = {Statement("fills", k, row)}
    BY <2>2
  <2> QED BY <2>3, <2>4, <2>5, <2>6, <2>7, <2>8
<1> QED BY <1>1, <1>2

\* The three ways a handler's statements are ordered.
LEMMA ExecutionScript ==
  ASSUME OrdersType', OneFill, ExecutionSaves
  PROVE  ScriptType'
<1> DEFINE A == OrderRows(ChangedOrders \ Executed)
           B == SavedPositions
           C == OrderRows(Executed)
           D == FillRows(Executed)
           E == Snapshot(tick.market.time)
<1>1. script' = <<A, B, C, D, E>>
  BY DEF ExecutionSaves
<1>2. /\ \A g \in A : g.table = "orders" /\ g.key \in ChangedOrders \ Executed
                        /\ g.row = orders'[g.key] /\ g = Statement("orders", g.key, g.row)
      /\ \A g \in C : g.table = "orders" /\ g.key \in Executed
                        /\ g.row = orders'[g.key] /\ g = Statement("orders", g.key, g.row)
      /\ \A id \in ChangedOrders : orders'[id] # Gone
      /\ Executed \subseteq ChangedOrders
  BY OrderRowsFacts, RowsStay DEF ChangedOrders, Executed, OrdersType
<1>3. \A g \in B : g.table = "positions" /\ g.row = PositionRow(g.key)'
                     /\ g = Statement("positions", g.key, g.row)
  BY SavedPositionsFacts
<1>4. /\ \A g \in D : g.table = "fills" /\ g.row # Gone /\ g.row.net \in Int
      /\ \A f, g \in D : f = g
  BY FillRowsFacts
<1>5. /\ \A g \in E : g.table = "account" /\ g.row # Gone
      /\ \A f, g \in E : f = g
  BY SnapshotFacts
<1> HIDE DEF A, B, C, D, E
<1>6. /\ Unsaved' = A \cup B \cup C \cup D \cup E
      /\ script' = [i \in Stages |-> script'[i]] /\ Stages = {1, 2, 3, 4, 5}
      /\ script'[1] = A /\ script'[2] = B /\ script'[3] = C /\ script'[4] = D /\ script'[5] = E
  BY <1>1, FiveStages
<1>7. \A g \in Unsaved' : /\ g.table \in Tables /\ (g.table # "positions" => g.row # Gone)
                          /\ g.table = "fills" => g.row.net \in Int
  BY <1>2, <1>3, <1>4, <1>5, <1>6 DEF Tables
<1>8. \A f, g \in Unsaved' :
        f.table = g.table /\ (f.table = "fills" \/ f.key = g.key) => f = g
  <2>1. ASSUME NEW f \in A \cup C, NEW g \in A \cup C, f.key = g.key PROVE f = g
    BY <1>2, <2>1
  <2>2. ASSUME NEW f \in B, NEW g \in B, f.key = g.key PROVE f = g
    BY <1>3, <2>2
  <2> QED BY <1>2, <1>3, <1>4, <1>5, <1>6, <2>1, <2>2
<1>9. \A i, j \in Stages : i # j => script'[i] \cap script'[j] = {}
  BY <1>2, <1>3, <1>4, <1>5, <1>6
<1>10. \A i, j \in Stages : \A g \in script'[i], f \in script'[j] :
         g.table = "positions" /\ f.table = "fills" => i < j
  BY <1>2, <1>3, <1>4, <1>5, <1>6
<1> QED BY <1>6, <1>7, <1>8, <1>9, <1>10 DEF ScriptType

LEMMA MarketScript ==
  ASSUME OrdersType', NEW at, MarketSaves(at)
  PROVE  ScriptType'
<1> DEFINE A == SavedPositions
           B == OrderRows(ChangedOrders)
           C == Snapshot(at)
<1>1. script' = <<A, B, C, {}, {}>>
  BY DEF MarketSaves
<1>2. /\ \A g \in B : /\ g.table = "orders" /\ g.key \in ChangedOrders
                      /\ g.row = orders'[g.key] /\ g = Statement("orders", g.key, g.row)
      /\ \A id \in ChangedOrders : orders'[id] # Gone
  BY OrderRowsFacts, RowsStay DEF ChangedOrders, OrdersType
<1>3. \A g \in A : /\ g.table = "positions" /\ g.row = PositionRow(g.key)'
                   /\ g = Statement("positions", g.key, g.row)
  BY SavedPositionsFacts
<1>4. /\ \A g \in C : g.table = "account" /\ g.row # Gone
      /\ \A f, g \in C : f = g
  BY SnapshotFacts
<1> HIDE DEF A, B, C
<1>5. /\ Unsaved' = A \cup B \cup C
      /\ script' = [i \in Stages |-> script'[i]] /\ Stages = {1, 2, 3, 4, 5}
      /\ script'[1] = A /\ script'[2] = B /\ script'[3] = C /\ script'[4] = {} /\ script'[5] = {}
  BY <1>1, FiveStages
<1>6. \A g \in Unsaved' : /\ g.table \in Tables /\ (g.table # "positions" => g.row # Gone)
                          /\ g.table # "fills"
  BY <1>2, <1>3, <1>4, <1>5 DEF Tables
<1>7. \A f, g \in Unsaved' : f.table = g.table /\ f.key = g.key => f = g
  <2>1. ASSUME NEW f \in A, NEW g \in A, f.key = g.key PROVE f = g
    BY <1>3, <2>1
  <2>2. ASSUME NEW f \in B, NEW g \in B, f.key = g.key PROVE f = g
    BY <1>2, <2>2
  <2> QED BY <1>2, <1>3, <1>4, <1>5, <2>1, <2>2
<1>8. \A i, j \in Stages : i # j => script'[i] \cap script'[j] = {}
  BY <1>2, <1>3, <1>4, <1>5
<1>9. \A i \in Stages : \A g \in script'[i] : g.table # "fills"
  BY <1>2, <1>3, <1>4, <1>5
<1> QED BY <1>5, <1>6, <1>7, <1>8, <1>9 DEF ScriptType

LEMMA OrderScript ==
  ASSUME OrdersType', OrderSaves
  PROVE  ScriptType'
<1> DEFINE A == OrderRows(ChangedOrders)
<1>1. script' = <<A, {}, {}, {}, {}>>
  BY DEF OrderSaves
<1>2. /\ \A g \in A : /\ g.table = "orders" /\ g.key \in ChangedOrders
                      /\ g.row = orders'[g.key] /\ g = Statement("orders", g.key, g.row)
      /\ \A id \in ChangedOrders : orders'[id] # Gone
  BY OrderRowsFacts, RowsStay DEF ChangedOrders, OrdersType
<1> HIDE DEF A
<1>3. /\ Unsaved' = A \cup {} \cup {} \cup {} \cup {}
      /\ script' = [i \in Stages |-> script'[i]] /\ Stages = {1, 2, 3, 4, 5}
      /\ script'[1] = A /\ script'[2] = {} /\ script'[3] = {} /\ script'[4] = {} /\ script'[5] = {}
  BY <1>1, FiveStages
<1>4. \A g \in Unsaved' : g.table \in Tables /\ g.row # Gone /\ g.table = "orders"
  BY <1>2, <1>3 DEF Tables
<1>5. \A f, g \in Unsaved' : f.key = g.key => f = g
  BY <1>2, <1>3
<1>6. \A i, j \in Stages : i # j => script'[i] \cap script'[j] = {}
  BY <1>3
<1>7. \A i \in Stages : \A g \in script'[i] : g.table # "fills"
  BY <1>2, <1>3
<1> QED BY <1>3, <1>4, <1>5, <1>6, <1>7 DEF ScriptType

LEMMA QuietScript ==
  ASSUME ScriptType, UNCHANGED script
  PROVE  ScriptType'
BY DEF ScriptType, Unsaved

-----------------------------------------------------------------------------
(* What an iteration fills.                                                  *)

\* A fill of id changes what no other order has filled, but for a protective order
\* that is placed anew.
LEMMA FillOfOne ==
  ASSUME TypeOK, NEW id \in tick.todo,
         FillEntry(id) \/ ReducePosition(id) \/ ClosePosition(id)
  PROVE  /\ Executes(id) /\ FillQuantity(id) \in Nat \ {0}
         /\ DOMAIN orders \subseteq DOMAIN orders' /\ orders'[id] = AfterFill(id)
         /\ \A other \in DOMAIN orders \ {id} :
              orders'[other].filled = orders[other].filled \/ orders'[other].filled = 0
<1>1. Executes(id) /\ FillQuantity(id) > 0
  BY DEF FillEntry, ReducePosition, ClosePosition
<1>2. /\ FillQuantity(id) \in Nat \ {0} /\ id \in DOMAIN orders
      /\ \A other \in DOMAIN orders : orders[other] \in Order
  BY <1>1, FillFacts DEF TypeOK, OrdersType
<1>3. CASE FillEntry(id)
  <2> DEFINE p == EntryPosition(id)
             q == FillQuantity(id)
             stop == ExitOrder(orders[id].symbol, p, q, tick.market.time, p.stop)
             target == ExitOrder(orders[id].symbol, p, q, tick.market.time, p.takeProfit)
  <2>1. orders' = Put(WithProtection(id, p, q), id, AfterFill(id))
    BY <1>3 DEF FillEntry
  <2>2. stop.filled = 0 /\ target.filled = 0
    BY DEF ExitOrder
  <2>3. /\ DOMAIN orders \subseteq DOMAIN WithProtection(id, p, q)
        /\ \A other \in DOMAIN orders :
             WithProtection(id, p, q)[other] \in {orders[other], stop, target}
    BY DEF WithProtection, Put
  <2> HIDE DEF p, q, stop, target
  <2> QED BY <1>1, <1>2, <2>1, <2>2, <2>3 DEF Put
<1>4. CASE ReducePosition(id)
  <2>1. orders' = [orders EXCEPT ![id] = AfterFill(id)]
    BY <1>4 DEF ReducePosition
  <2> QED BY <1>1, <1>2, <2>1
<1>5. CASE ClosePosition(id)
  <2>1. orders' = Put(CanceledWith(orders[id].symbol, id), id, AfterFill(id))
    BY <1>5 DEF ClosePosition
  <2>2. /\ DOMAIN CanceledWith(orders[id].symbol, id) = DOMAIN orders
        /\ \A other \in DOMAIN orders :
             CanceledWith(orders[id].symbol, id)[other].filled = orders[other].filled
    BY <1>2 DEF CanceledWith, Order
  <2> QED BY <1>1, <1>2, <2>1, <2>2 DEF Put
<1> QED BY <1>3, <1>4, <1>5

LEMMA FillExecutes ==
  ASSUME TypeOK, NEW id \in tick.todo,
         FillEntry(id) \/ ReducePosition(id) \/ ClosePosition(id)
  PROVE  OneFill /\ Executed = {id} /\ FillNet(id) \in Int
<1>1. /\ FillQuantity(id) \in Nat \ {0} /\ orders'[id] = AfterFill(id)
      /\ DOMAIN orders \subseteq DOMAIN orders'
      /\ \A other \in DOMAIN orders \ {id} :
           orders'[other].filled = orders[other].filled \/ orders'[other].filled = 0
      /\ id \in DOMAIN orders
  BY FillOfOne, FillFacts
<1>2. \A other \in DOMAIN orders : orders[other] \in Order /\ orders[other].filled \in Nat
  BY DEF TypeOK, OrdersType, Order
<1>3. orders'[id].filled = orders[id].filled + FillQuantity(id)
  BY <1>1, <1>2 DEF AfterFill, Order
<1>4. /\ orders'[id].filled > orders[id].filled /\ orders'[id] # orders[id]
      /\ orders'[id].filled - orders[id].filled = FillQuantity(id)
  BY <1>1, <1>2, <1>3
<1>5. id \in ChangedOrders
  BY <1>1, <1>4 DEF ChangedOrders
<1>6. tick.todo \subseteq DOMAIN orders
  BY DEF TypeOK, TickType
<1>7. \A other \in DOMAIN orders \ {id} : ~(orders'[other].filled > orders[other].filled)
  BY <1>1, <1>2
<1>8. Executed = {id}
  BY <1>4, <1>5, <1>6, <1>7 DEF Executed
<1>9. FillNet(id) \in Int
  BY <1>1 DEF FillNet
<1> QED BY <1>4, <1>5, <1>8, <1>9 DEF OneFill

LEMMA NoFillExecutes ==
  ASSUME TypeOK, NEW id \in tick.todo, SkipOrder(id) \/ RefuseOrder(id) \/ StarveOrder(id)
  PROVE  /\ Executed = {} /\ DOMAIN orders' = DOMAIN orders /\ UNCHANGED positions
<1>1. \A other \in DOMAIN orders : orders[other] \in Order /\ orders[other].filled \in Nat
  BY DEF TypeOK, OrdersType, Order
<1>2. /\ DOMAIN orders' = DOMAIN orders /\ UNCHANGED positions
      /\ \A other \in DOMAIN orders : orders'[other].filled = orders[other].filled
  <2>1. CASE RefuseOrder(id)
    <3>1. orders' = [orders EXCEPT ![id].status = IF ReduceOnly(id) THEN "CANCELED" ELSE "REJECTED"]
      BY <2>1 DEF RefuseOrder
    <3>2. UNCHANGED positions
      BY <2>1 DEF RefuseOrder
    <3> QED BY <1>1, <3>1, <3>2 DEF Order
  <2>2. CASE UNCHANGED <<orders, positions>>
    BY <2>2
  <2> QED BY <2>1, <2>2 DEF SkipOrder, StarveOrder, ledger
<1>3. tick.todo \subseteq DOMAIN orders
  BY DEF TypeOK, TickType
<1>4. \A other \in DOMAIN orders : ~(orders'[other].filled > orders[other].filled)
  BY <1>1, <1>2
<1> QED BY <1>2, <1>3, <1>4 DEF Executed

\* The fill moves the position of its symbol by its net quantity, and no other.
LEMMA FillMoves ==
  ASSUME TypeOK, NEW id \in tick.todo,
         FillEntry(id) \/ ReducePosition(id) \/ ClosePosition(id)
  PROVE  \A s \in Symbols :
           Held(s)' = Held(s) + (IF s = orders[id].symbol THEN FillNet(id) ELSE 0)
<1> DEFINE t == orders[id].symbol
           q == FillQuantity(id)
<1>1. Executes(id) /\ q \in Nat \ {0}
  BY FillOfOne
<1>2. /\ t \in DOMAIN positions => positions[t] \in Position
      /\ ReduceOnly(id) => t \in DOMAIN positions /\ q <= positions[t].quantity
  BY <1>1, FillFacts
<1>3. \A s \in DOMAIN positions : positions[s].quantity \in Nat \ {0}
  BY DEF TypeOK, PositionsType, Position
<1>4. CASE FillEntry(id)
  <2>1. /\ positions' = Put(positions, t, EntryPosition(id)) /\ FillNet(id) = q
    BY <1>4, <1>1 DEF FillEntry, FillNet
  <2>2. EntryPosition(id).quantity = q + IF t \in DOMAIN positions THEN positions[t].quantity ELSE 0
    BY <1>1, <1>2, <1>3 DEF EntryPosition, Position
  <2> HIDE DEF q, t
  <2> QED BY <1>1, <1>3, <2>1, <2>2 DEF Put, Held, t
<1>5. CASE ReducePosition(id)
  <2>1. /\ positions' = [positions EXCEPT ![t].quantity = @ - q,
                                          ![t].realized = @ + Gross(id) - Fee(id)]
        /\ ReduceOnly(id)
    BY <1>5 DEF ReducePosition
  <2>2. FillNet(id) = -q
    BY <1>1, <2>1 DEF FillNet
  <2>3. t \in DOMAIN positions /\ positions[t] \in Position
    BY <1>2, <2>1
  <2>4. /\ DOMAIN positions' = DOMAIN positions /\ positions'[t].quantity = positions[t].quantity - q
        /\ \A s \in DOMAIN positions \ {t} : positions'[s] = positions[s]
    BY <2>1, <2>3 DEF Position
  <2> HIDE DEF q, t
  <2> QED BY <1>1, <1>3, <2>2, <2>3, <2>4 DEF Held, t
<1>6. CASE ClosePosition(id)
  <2>1. /\ positions' = [other \in DOMAIN positions \ {t} |-> positions[other]]
        /\ ReduceOnly(id) /\ q >= positions[t].quantity
    BY <1>6 DEF ClosePosition, Closes
  <2>2. FillNet(id) = -q
    BY <1>1, <2>1 DEF FillNet
  <2>3. t \in DOMAIN positions /\ q = positions[t].quantity
    BY <1>1, <1>2, <1>3, <2>1
  <2> HIDE DEF q, t
  <2> QED BY <1>1, <1>3, <2>1, <2>2, <2>3 DEF Held, t
<1> QED BY <1>4, <1>5, <1>6

-----------------------------------------------------------------------------
(* A handler's statements say what it has changed.                           *)

Recorded ==
  /\ DOMAIN orders \subseteq DOMAIN orders'
  /\ \A g \in Unsaved' : g.table = "orders" => g.key \in ChangedOrders /\ g.row = orders'[g.key]
  /\ \A id \in ChangedOrders : Unsaves("orders", id)'
  /\ \A g \in Unsaved' : g.table = "positions" =>
       g.key \in ChangedPositions /\ g.row = PositionRow(g.key)'
  /\ \A s \in ChangedPositions : Unsaves("positions", s)'

\* The fill that is saved is what the positions have moved by.
NoFillRecorded ==
  (\A g \in Unsaved' : g.table # "fills") /\ \A s \in Symbols : Held(s)' = Held(s)
FillRecorded ==
  \E g \in Unsaved' : /\ g.table = "fills" /\ g.row.net \in Int
                      /\ \A f \in Unsaved' : f.table = "fills" => f = g
                      /\ \A s \in Symbols :
                           Held(s)' = Held(s) + (IF s = g.row.symbol THEN g.row.net ELSE 0)

\* The balance that is saved is that at the time `at', once the loop has ended.
BalanceRecorded(at) ==
  /\ \A g \in Unsaved' : g.table = "account" => g.key = at /\ g.row.cash = account'.cash
  /\ tick' = Idle => \E g \in Unsaved' : g.table = "account"

LEMMA ExecutionRecords ==
  ASSUME OneFill, ExecutionSaves, DOMAIN orders \subseteq DOMAIN orders'
  PROVE  /\ Recorded /\ BalanceRecorded(tick.market.time)
         /\ \A g \in Unsaved' : g.table = "fills" <=> g \in FillRows(Executed)
         /\ FillRows(Executed) \subseteq Unsaved'
<1> DEFINE A == OrderRows(ChangedOrders \ Executed)
           B == SavedPositions
           C == OrderRows(Executed)
           D == FillRows(Executed)
           E == Snapshot(tick.market.time)
<1>1. script' = <<A, B, C, D, E>>
  BY DEF ExecutionSaves
<1>2. /\ \A g \in A : g.table = "orders" /\ g.key \in ChangedOrders /\ g.row = orders'[g.key]
      /\ \A g \in C : g.table = "orders" /\ g.key \in ChangedOrders /\ g.row = orders'[g.key]
      /\ \A id \in ChangedOrders \ Executed : Statement("orders", id, orders'[id]) \in A
      /\ \A id \in Executed : Statement("orders", id, orders'[id]) \in C
  BY OrderRowsFacts DEF Executed
<1>3. /\ \A g \in B : /\ g.table = "positions" /\ g.key \in ChangedPositions
                      /\ g.row = PositionRow(g.key)'
      /\ \A s \in ChangedPositions : Statement("positions", s, PositionRow(s)') \in B
  BY SavedPositionsFacts
<1>4. \A g \in D : g.table = "fills"
  BY FillRowsFacts
<1>5. /\ \A g \in E : /\ g.table = "account" /\ g.key = tick.market.time
                      /\ g.row.cash = account'.cash
      /\ tick' = Idle => E # {}
  BY SnapshotFacts
<1> HIDE DEF A, B, C, D, E
<1>6. Unsaved' = A \cup B \cup C \cup D \cup E
  BY <1>1, FiveStages
<1>7. \A table, key, row : Statement(table, key, row).table = table
                             /\ Statement(table, key, row).key = key
  BY DEF Statement
<1>8. \A id \in ChangedOrders : \E g \in Unsaved' : g.table = "orders" /\ g.key = id
  BY <1>2, <1>6, <1>7
<1>9. \A s \in ChangedPositions : \E g \in Unsaved' : g.table = "positions" /\ g.key = s
  BY <1>3, <1>6, <1>7
<1>10. Recorded
  BY <1>2, <1>3, <1>4, <1>5, <1>6, <1>8, <1>9 DEF Recorded, Unsaves
<1>11. BalanceRecorded(tick.market.time)
  BY <1>2, <1>3, <1>4, <1>5, <1>6 DEF BalanceRecorded
<1>12. (\A g \in Unsaved' : g.table = "fills" <=> g \in D) /\ D \subseteq Unsaved'
  BY <1>2, <1>3, <1>4, <1>5, <1>6
<1> QED BY <1>10, <1>11, <1>12 DEF D

LEMMA MarketRecords ==
  ASSUME NEW at, MarketSaves(at), DOMAIN orders \subseteq DOMAIN orders'
  PROVE  Recorded /\ BalanceRecorded(at) /\ \A g \in Unsaved' : g.table # "fills"
<1> DEFINE A == SavedPositions
           B == OrderRows(ChangedOrders)
           C == Snapshot(at)
<1>1. script' = <<A, B, C, {}, {}>>
  BY DEF MarketSaves
<1>2. /\ \A g \in B : g.table = "orders" /\ g.key \in ChangedOrders /\ g.row = orders'[g.key]
      /\ \A id \in ChangedOrders : Statement("orders", id, orders'[id]) \in B
  BY OrderRowsFacts
<1>3. /\ \A g \in A : /\ g.table = "positions" /\ g.key \in ChangedPositions
                      /\ g.row = PositionRow(g.key)'
      /\ \A s \in ChangedPositions : Statement("positions", s, PositionRow(s)') \in A
  BY SavedPositionsFacts
<1>4. /\ \A g \in C : g.table = "account" /\ g.key = at /\ g.row.cash = account'.cash
      /\ tick' = Idle => C # {}
  BY SnapshotFacts
<1> HIDE DEF A, B, C
<1>5. Unsaved' = A \cup B \cup C \cup {} \cup {}
  BY <1>1, FiveStages
<1>6. \A table, key, row : Statement(table, key, row).table = table
                             /\ Statement(table, key, row).key = key
  BY DEF Statement
<1>7. \A id \in ChangedOrders : \E g \in Unsaved' : g.table = "orders" /\ g.key = id
  BY <1>2, <1>5, <1>6
<1>8. \A s \in ChangedPositions : \E g \in Unsaved' : g.table = "positions" /\ g.key = s
  BY <1>3, <1>5, <1>6
<1>9. Recorded
  BY <1>2, <1>3, <1>4, <1>5, <1>7, <1>8 DEF Recorded, Unsaves
<1>10. BalanceRecorded(at) /\ \A g \in Unsaved' : g.table # "fills"
  BY <1>2, <1>3, <1>4, <1>5 DEF BalanceRecorded
<1> QED BY <1>9, <1>10

LEMMA OrderRecords ==
  ASSUME OrderSaves, DOMAIN orders \subseteq DOMAIN orders', UNCHANGED positions
  PROVE  Recorded /\ \A g \in Unsaved' : g.table = "orders"
<1> DEFINE A == OrderRows(ChangedOrders)
<1>1. script' = <<A, {}, {}, {}, {}>>
  BY DEF OrderSaves
<1>2. /\ \A g \in A : g.table = "orders" /\ g.key \in ChangedOrders /\ g.row = orders'[g.key]
      /\ \A id \in ChangedOrders : Statement("orders", id, orders'[id]) \in A
  BY OrderRowsFacts
<1> HIDE DEF A
<1>3. Unsaved' = A \cup {} \cup {} \cup {} \cup {}
  BY <1>1, FiveStages
<1>4. \A table, key, row : Statement(table, key, row).table = table
                             /\ Statement(table, key, row).key = key
  BY DEF Statement
<1>5. \A id \in ChangedOrders : \E g \in Unsaved' : g.table = "orders" /\ g.key = id
  BY <1>2, <1>3, <1>4
<1>6. ChangedPositions = {}
  BY DEF ChangedPositions
<1> QED BY <1>2, <1>3, <1>5, <1>6 DEF Recorded, Unsaves

LEMMA NothingRecorded ==
  ASSUME Returned, UNCHANGED <<script, orders, positions>>
  PROVE  Recorded /\ Unsaved' = {}
BY DEF Returned, Unsaved, Recorded, ChangedOrders, ChangedPositions

\* Positions that keep their quantities hold what they held.
LEMMA SameHeld ==
  ASSUME DOMAIN positions' = DOMAIN positions,
         \A s \in DOMAIN positions : positions'[s].quantity = positions[s].quantity
  PROVE  \A s \in Symbols : Held(s)' = Held(s)
BY DEF Held

-----------------------------------------------------------------------------
(* The handlers.                                                             *)

\* Between its statements a handler's memory has every type of the broker.
LEMMA MemoryTypes ==
  /\ MemoryType /\ tick.todo \subseteq DOMAIN orders => TypeOK
  /\ MemoryType /\ tick = Idle => TypeOK
  /\ TypeOK => OrdersType /\ PositionsType /\ AccountType /\ EnvType /\ LoopType
<1>1. Idle.todo = {}
  BY DEF Idle
<1> QED BY <1>1 DEF MemoryType, TypeOK, LoopType, TickType

\* What a handler does, beyond what its statements say of it.
Handled == MemoryType' /\ ScriptType' /\ Recorded /\ (NoFillRecorded \/ FillRecorded)

\* One iteration leaves the loop where it was, or ends it.
LEMMA ExecutionAdvances ==
  ASSUME TypeOK, ExecuteOrder
  PROVE  /\ DOMAIN orders # {} /\ DOMAIN orders \subseteq DOMAIN orders' /\ UNCHANGED lastMarkets
         /\ tick # Idle
         /\ \/ tick' = Idle
            \/ /\ tick'.todo # {} /\ tick'.todo \subseteq tick.todo
               /\ tick'.market = tick.market
<1> PICK id \in tick.todo :
      \/ SkipOrder(id) \/ RefuseOrder(id) \/ StarveOrder(id)
      \/ FillEntry(id) \/ ReducePosition(id) \/ ClosePosition(id)
  BY DEF ExecuteOrder
<1>1. DOMAIN orders # {} /\ tick # Idle
  BY DEF TypeOK, TickType, Idle
<1>2. DOMAIN orders \subseteq DOMAIN orders'
  BY FillOfOne, NoFillExecutes
<1>3. UNCHANGED lastMarkets
  BY DEF SkipOrder, RefuseOrder, StarveOrder, FillEntry, ReducePosition, ClosePosition, feed
<1>4. \E bids, asks : Advance(id, bids, asks)
  BY DEF SkipOrder, RefuseOrder, StarveOrder, FillEntry, ReducePosition, ClosePosition, Consume
<1>5. \/ tick' = Idle
      \/ /\ tick'.todo # {} /\ tick'.todo \subseteq tick.todo
         /\ tick'.market = tick.market
  <2>1. PICK bids, asks : Advance(id, bids, asks)
    BY <1>4
  <2>2. CASE tick.todo = {id}
    BY <2>1, <2>2 DEF Advance
  <2>3. CASE tick.todo # {id}
    <3>1. tick' = [tick EXCEPT !.todo = tick.todo \ {id}, !.bids = tick.bids - bids,
                               !.asks = tick.asks - asks]
      BY <2>1, <2>3 DEF Advance
    <3>2. tick \in [market : [time : Nat \cup {None}, bid : Nat, ask : Nat],
                    bids : Nat, asks : Nat, todo : SUBSET OrderIds]
      BY DEF TypeOK, TickType
    <3>3. tick'.todo = tick.todo \ {id} /\ tick'.market = tick.market
      BY <3>1, <3>2
    <3> QED BY <2>3, <3>3
  <2> QED BY <2>2, <2>3
<1> QED BY <1>1, <1>2, <1>3, <1>5

LEMMA ExecutionHandled ==
  ASSUME MemoryType, tick.todo \subseteq DOMAIN orders, ExecuteOrder, ExecutionSaves
  PROVE  Handled /\ BalanceRecorded(tick.market.time)
<1>1. TypeOK
  BY MemoryTypes
<1>2. TypeOK'
  BY <1>1, NoFillType, FillEntryType, ReducePositionType, ClosePositionType DEF ExecuteOrder
<1>3. DOMAIN orders \subseteq DOMAIN orders' /\ UNCHANGED lastMarkets
  BY <1>1, ExecutionAdvances
<1>4. MemoryType'
  <2>1. OrdersType' /\ PositionsType' /\ AccountType' /\ EnvType' /\ LoopType'
    BY <1>2 DEF TypeOK, LoopType, TickType
  <2>2. MarketsType'
    BY <1>3 DEF MemoryType, MarketsType
  <2> QED BY <2>1, <2>2 DEF MemoryType
<1>5. OneFill
  BY <1>1, FillExecutes, NoFillExecutes DEF ExecuteOrder, OneFill
<1>6. ScriptType'
  BY <1>4, <1>5, ExecutionScript DEF MemoryType
<1>7. /\ Recorded /\ BalanceRecorded(tick.market.time)
      /\ \A g \in Unsaved' : g.table = "fills" <=> g \in FillRows(Executed)
      /\ FillRows(Executed) \subseteq Unsaved'
  BY <1>3, <1>5, ExecutionRecords
<1>8. NoFillRecorded \/ FillRecorded
  <2>1. ASSUME NEW id \in tick.todo, SkipOrder(id) \/ RefuseOrder(id) \/ StarveOrder(id)
        PROVE  NoFillRecorded
    <3>1. Executed = {} /\ UNCHANGED positions
      BY <1>1, <2>1, NoFillExecutes
    <3>2. FillRows(Executed) = {}
      BY <3>1 DEF FillRows
    <3>3. \A s \in Symbols : Held(s)' = Held(s)
      BY <3>1 DEF Held
    <3> QED BY <1>7, <3>2, <3>3 DEF NoFillRecorded
  <2>2. ASSUME NEW id \in tick.todo, FillEntry(id) \/ ReducePosition(id) \/ ClosePosition(id)
        PROVE  FillRecorded
    <3>1. /\ Executed = {id} /\ FillNet(id) \in Int
          /\ \A s \in Symbols :
               Held(s)' = Held(s) + (IF s = orders[id].symbol THEN FillNet(id) ELSE 0)
      BY <1>1, <2>2, FillExecutes, FillMoves
    <3> DEFINE row == [symbol |-> orders[id].symbol, net |-> FillNet(id)]
    <3>2. PICK key : FillRows(Executed) = {Statement("fills", key, row)}
      BY <1>5, <3>1, FillRowsFacts
    <3> DEFINE g == Statement("fills", key, row)
    <3>3. g.table = "fills" /\ g.row = row /\ row.symbol = orders[id].symbol
          /\ row.net = FillNet(id)
      BY DEF Statement
    <3> HIDE DEF g, row
    <3>4. g \in Unsaved' /\ \A f \in Unsaved' : f.table = "fills" => f = g
      BY <1>7, <3>2 DEF g
    <3> QED BY <3>1, <3>3, <3>4 DEF FillRecorded
  <2> QED BY <2>1, <2>2 DEF ExecuteOrder
<1> QED BY <1>4, <1>6, <1>7, <1>8 DEF Handled

LEMMA OnMarketHandled ==
  ASSUME MemoryType, NEW s \in Symbols, NEW at \in DeliveryWindow, NEW q \in Quotes,
         OnMarket(s, at, q), MarketSaves(at)
  PROVE  Handled /\ BalanceRecorded(at)
<1> DEFINE m == [time |-> at, bid |-> q.bid, ask |-> q.ask]
<1>1. tick = Idle /\ ApplyFunding(s, m) /\ orders' = WithTimeStop(s, at)
      /\ lastMarkets' = [lastMarkets EXCEPT ![s] = m]
  BY DEF OnMarket, ConsumerFree, LoopFree
<1>2. TypeOK /\ TypeOK'
  BY <1>1, MemoryTypes, OnMarketType
<1>3. MemoryType'
  <2>1. at \in Nat /\ q.bid \in Nat /\ q.ask \in Nat
    BY DataAssumption DEF DeliveryWindow, MemoryType, EnvType
  <2>2. MarketsType'
    BY <1>1, <2>1 DEF MemoryType, MarketsType
  <2>3. OrdersType' /\ PositionsType' /\ AccountType' /\ EnvType' /\ LoopType'
    BY <1>2 DEF TypeOK, LoopType, TickType
  <2> QED BY <2>2, <2>3 DEF MemoryType
<1>4. DOMAIN orders \subseteq DOMAIN orders'
  BY <1>1 DEF WithTimeStop, Put
<1>5. ScriptType'
  BY <1>3, MarketScript DEF MemoryType
<1>6. Recorded /\ BalanceRecorded(at) /\ \A g \in Unsaved' : g.table # "fills"
  BY <1>4, MarketRecords
<1>7. /\ DOMAIN positions' = DOMAIN positions
      /\ \A t \in DOMAIN positions : positions'[t].quantity = positions[t].quantity
  <2>1. \A t \in DOMAIN positions : positions[t] \in Position
    BY DEF MemoryType, PositionsType
  <2>2. CASE FundingDue(s, pendingFunding[s])
    <3> DEFINE payment == FundingPayment(positions[s], m)
    <3>1. positions' = [positions EXCEPT ![s].funding = @ + payment]
      BY <1>1, <2>2 DEF ApplyFunding
    <3> HIDE DEF payment
    <3> QED BY <2>1, <3>1 DEF Position
  <2>3. CASE ~FundingDue(s, pendingFunding[s])
    BY <1>1, <2>3 DEF ApplyFunding
  <2> QED BY <2>2, <2>3
<1> QED BY <1>3, <1>5, <1>6, <1>7, SameHeld DEF Handled, NoFillRecorded

\* The handlers that save nothing.
LEMMA QuietHandled ==
  ASSUME MemoryType, ScriptType, Returned, UNCHANGED <<ledger, lastMarkets, script, emergencies>>,
         tick' = Idle, now' \in Nat, emitted' \subseteq Signals, consuming' \in BOOLEAN
  PROVE  Handled /\ Unsaved' = {}
<1>1. UNCHANGED <<orders, positions, account, fills, closedPnl>>
  BY DEF ledger
<1>2. MemoryType'
  <2>1. LoopType'
    BY DEF LoopType, Idle, NoMarket, None
  <2> QED BY <1>1, <2>1 DEF MemoryType, OrdersType, PositionsType, AccountType, EnvType, MarketsType
<1>3. Recorded /\ Unsaved' = {} /\ ScriptType'
  BY <1>1, NothingRecorded, QuietScript
<1>4. \A s \in Symbols : Held(s)' = Held(s)
  BY <1>1 DEF Held
<1> QED BY <1>2, <1>3, <1>4 DEF Handled, NoFillRecorded

\* The handlers that save orders only.
LEMMA OrdersHandled ==
  ASSUME MemoryType, Strategy \/ EmergencyCloseAll, OrderSaves
  PROVE  /\ Handled /\ \A g \in Unsaved' : g.table = "orders"
         /\ tick = Idle /\ UNCHANGED <<positions, account, lastMarkets, tick>>
<1>1. /\ tick = Idle /\ UNCHANGED <<positions, account, lastMarkets, tick>>
      /\ DOMAIN orders \subseteq DOMAIN orders'
  <2>1. ASSUME NEW sig \in Signals, DropSignal(sig)
        PROVE  /\ tick = Idle /\ UNCHANGED <<positions, account, lastMarkets, tick, orders>>
    BY <2>1 DEF DropSignal, ConsumerFree, LoopFree, ledger, feed
  <2>2. ASSUME NEW sig \in Signals, NEW at \in DeliveryWindow, NEW healthy \in BOOLEAN,
               NEW synchronized \in BOOLEAN, OnSignal(sig, at, healthy, synchronized)
        PROVE  /\ tick = Idle /\ UNCHANGED <<positions, account, lastMarkets, tick>>
               /\ DOMAIN orders \subseteq DOMAIN orders'
    <3>1. \E o : orders' = Put(orders, Id("entry", sig, 0), o)
      BY <2>2 DEF OnSignal
    <3> QED BY <2>2, <3>1 DEF OnSignal, ConsumerFree, LoopFree, feed, Put
  <2>3. CASE EmergencyCloseAll
    BY <2>3 DEF EmergencyCloseAll, WithEmergencyExits, LoopFree, feed
  <2> QED BY <2>1, <2>2, <2>3 DEF Strategy
<1>2. TypeOK
  BY <1>1, MemoryTypes
<1>3. TypeOK'
  <2>1. ASSUME NEW sig \in Signals, DropSignal(sig) PROVE TypeOK'
    BY <1>2, <2>1, QuietType DEF DropSignal, TypeOK, EnvType
  <2>2. ASSUME NEW sig \in Signals, NEW at \in DeliveryWindow, NEW healthy \in BOOLEAN,
               NEW synchronized \in BOOLEAN, OnSignal(sig, at, healthy, synchronized)
        PROVE  TypeOK'
    BY <1>2, <2>2, OnSignalType
  <2> QED BY <1>2, <2>1, <2>2, EmergencyType DEF Strategy
<1>4. MemoryType'
  <2>1. OrdersType' /\ PositionsType' /\ AccountType' /\ EnvType' /\ LoopType'
    BY <1>3 DEF TypeOK, LoopType, TickType
  <2>2. MarketsType'
    BY <1>1 DEF MemoryType, MarketsType
  <2> QED BY <2>1, <2>2 DEF MemoryType
<1>5. ScriptType' /\ Recorded /\ \A g \in Unsaved' : g.table = "orders"
  BY <1>1, <1>4, OrderScript, OrderRecords DEF MemoryType
<1>6. \A s \in Symbols : Held(s)' = Held(s)
  BY <1>1 DEF Held
<1> QED BY <1>1, <1>4, <1>5, <1>6 DEF Handled, NoFillRecorded

LEMMA HandlerHandled ==
  ASSUME StoreType, Handler
  PROVE  Handled
<1>1. MemoryType /\ ScriptType /\ Returned
  BY DEF StoreType, Handler
<1>2. ASSUME NEW s \in Symbols, NEW at \in DeliveryWindow, NEW q \in Quotes,
             OnMarketBackward(s, at, q), UNCHANGED script
      PROVE  Handled
  <2>1. UNCHANGED <<ledger, lastMarkets, script, emergencies, now, emitted>> /\ tick' = Idle
    BY <1>2 DEF OnMarketBackward, ConsumerFree, LoopFree
  <2>2. now \in Nat /\ emitted \subseteq Signals /\ consuming' = FALSE
    BY <1>1, <1>2 DEF MemoryType, EnvType, OnMarketBackward
  <2> QED BY <1>1, <2>1, <2>2, QuietHandled
<1>3. ASSUME OrderGone, UNCHANGED script PROVE Handled
  <2>1. UNCHANGED <<ledger, lastMarkets, script, emergencies, now, emitted>> /\ tick' = Idle
    BY <1>3 DEF OrderGone, feed
  <2>2. now \in Nat /\ emitted \subseteq Signals /\ consuming' = FALSE
    BY <1>1, <1>3 DEF MemoryType, EnvType, OrderGone
  <2> QED BY <1>1, <2>1, <2>2, QuietHandled
<1> QED BY <1>1, <1>2, <1>3, OnMarketHandled, ExecutionHandled, OrdersHandled DEF Handler

\* The rows of what has not changed are what they were.
LEMMA HandlerRows ==
  ASSUME Returned, Recorded, UNCHANGED <<rows, ghosts>>, OrderRowsInv, PositionRowsInv
  PROVE  OrderRowsInv' /\ PositionRowsInv'
<1>1. /\ \A id \in DOMAIN orders : id \in DOMAIN rows.orders /\ rows.orders[id] = orders[id]
      /\ \A s \in DOMAIN positions :
           s \in DOMAIN rows.positions \ ghosts /\ rows.positions[s] = positions[s]
      /\ \A s \in DOMAIN rows.positions \ DOMAIN positions : s \in ghosts
      /\ ghosts \subseteq DOMAIN rows.positions
  BY DEF Returned, Unsaves, OrderRowsInv, PositionRowsInv
<1>2. OrderRowsInv'
  <2>1. \A id \in DOMAIN orders' : ~Unsaves("orders", id)' =>
          id \in DOMAIN orders /\ orders'[id] = orders[id]
    BY DEF Recorded, ChangedOrders
  <2>2. \A g \in Unsaved' : g.table = "orders" => g.key \in DOMAIN orders' /\ g.row = orders'[g.key]
    BY DEF Recorded, ChangedOrders
  <2> QED BY <1>1, <2>1, <2>2 DEF OrderRowsInv
<1>3. PositionRowsInv'
  <2>1. \A s \in DOMAIN positions' : ~Unsaves("positions", s)' =>
          s \in DOMAIN positions /\ positions'[s] = positions[s]
    BY DEF Recorded, ChangedPositions
  <2>2. \A s : s \notin DOMAIN positions' /\ ~Unsaves("positions", s)' => s \notin DOMAIN positions
    BY DEF Recorded, ChangedPositions
  <2>3. \A g \in Unsaved' : g.table = "positions" => g.row = PositionRow(g.key)'
    BY DEF Recorded
  <2> QED BY <1>1, <2>1, <2>2, <2>3 DEF PositionRowsInv
<1> QED BY <1>2, <1>3

\* A handler that returns at once has changed no order and no position.
LEMMA HandlerReset ==
  ASSUME Recorded, UNCHANGED resetPc, resetPc # "idle" => Returned', ResetInv
  PROVE  ResetInv'
<1>1. CASE resetPc = "idle"
  BY <1>1 DEF ResetInv
<1>2. CASE resetPc # "idle"
  <2>1. Unsaved' = {}
    BY <1>2 DEF Returned
  <2>2. ChangedOrders = {} /\ ChangedPositions = {}
    BY <2>1 DEF Recorded, Unsaves
  <2>3. DOMAIN orders' \subseteq DOMAIN orders /\ DOMAIN positions' \subseteq DOMAIN positions
    BY <2>2 DEF ChangedOrders, ChangedPositions
  <2> QED BY <1>2, <2>1, <2>3 DEF ResetInv, Returned
<1> QED BY <1>1, <1>2

\* The balance of the latest market is saved when the loop ends.
LEMMA BalanceIsSaved ==
  ASSUME NEW at, BalanceRecorded(at), tick' = Idle, NEW s \in Symbols, lastMarkets'[s].time = at
  PROVE  BalanceSaved(s)'
BY DEF BalanceRecorded, BalanceSaved

LEMMA BalanceStays ==
  ASSUME Unsaved = {}, \A g \in Unsaved' : g.table # "account",
         UNCHANGED <<lastMarkets, account, rows>>, NoMarkets \/ \E s \in Symbols : BalanceSaved(s)
  PROVE  NoMarkets' \/ \E s \in Symbols : BalanceSaved(s)'
<1>1. CASE NoMarkets
  BY <1>1 DEF NoMarkets
<1>2. ASSUME NEW s \in Symbols, BalanceSaved(s) PROVE BalanceSaved(s)'
  BY <1>2 DEF BalanceSaved
<1> QED BY <1>1, <1>2

LEMMA ExecutionLoop ==
  ASSUME MemoryType, tick.todo \subseteq DOMAIN orders, ExecuteOrder,
         BalanceRecorded(tick.market.time), UNCHANGED resetPc, LoopInv
  PROVE  LoopInv' /\ AccountRowsInv'
<1>1. /\ DOMAIN orders # {} /\ DOMAIN orders \subseteq DOMAIN orders' /\ UNCHANGED lastMarkets
      /\ tick # Idle
      /\ \/ tick' = Idle
         \/ /\ tick'.todo # {} /\ tick'.todo \subseteq tick.todo
            /\ tick'.market = tick.market
  BY MemoryTypes, ExecutionAdvances
<1>2. Idle.todo = {}
  BY DEF Idle
<1>3. PICK s \in Symbols : lastMarkets[s].time = tick.market.time
  BY <1>1 DEF LoopInv
<1>4. tick'.todo \subseteq DOMAIN orders'
  BY <1>1, <1>2
<1>5. LoopInv'
  <2>1. resetPc' \in {"risk", "tables"} => NoMarkets'
    BY <1>1 DEF LoopInv, NoMarkets
  <2>2. tick' # Idle => tick'.todo # {}
    BY <1>1
  <2>3. tick' # Idle => lastMarkets'[s].time = tick'.market.time
    BY <1>1, <1>3
  <2> QED BY <1>4, <2>1, <2>2, <2>3 DEF LoopInv
<1>6. AccountRowsInv'
  BY <1>1, <1>3, BalanceIsSaved DEF AccountRowsInv, LoopFree
<1> QED BY <1>5, <1>6

LEMMA OnMarketLoop ==
  ASSUME MemoryType, NEW s \in Symbols, NEW at \in DeliveryWindow, NEW q \in Quotes,
         OnMarket(s, at, q), BalanceRecorded(at), UNCHANGED resetPc,
         resetPc # "idle" => Returned', ResetInv
  PROVE  LoopInv' /\ AccountRowsInv'
<1> DEFINE m == [time |-> at, bid |-> q.bid, ask |-> q.ask]
           todo == Scheduled(s, m, orders')
<1>1. /\ orders' = WithTimeStop(s, at) /\ lastMarkets' = [lastMarkets EXCEPT ![s] = m]
      /\ tick' = IF todo = {} THEN Idle
                 ELSE [market |-> m, bids |-> q.bidQty, asks |-> q.askQty, todo |-> todo]
  BY DEF OnMarket
<1>2. todo \subseteq DOMAIN orders' /\ m.time = at
  BY DEF Scheduled
<1>3. lastMarkets'[s].time = at
  BY <1>1 DEF MemoryType, MarketsType
<1> HIDE DEF todo, m
<1>4. /\ tick' = Idle <=> todo = {}
      /\ todo # {} => tick'.todo = todo /\ tick'.market.time = at
      /\ tick'.todo \subseteq DOMAIN orders'
  BY <1>1, <1>2 DEF Idle
<1>5. resetPc \notin {"risk", "tables"}
  <2> SUFFICES ASSUME resetPc \in {"risk", "tables"} PROVE FALSE
    OBVIOUS
  <2>1. DOMAIN orders = {} /\ DOMAIN positions = {} /\ Returned'
    BY DEF ResetInv
  <2>2. orders' = orders
    BY <1>1, <2>1 DEF WithTimeStop
  <2>3. tick' = Idle
    BY <1>2, <1>4, <2>1, <2>2
  <2> QED BY <2>1, <2>3 DEF BalanceRecorded, Returned
<1>6. LoopInv'
  BY <1>3, <1>4, <1>5 DEF LoopInv
<1>7. AccountRowsInv'
  BY <1>3, BalanceIsSaved DEF AccountRowsInv, LoopFree
<1> QED BY <1>6, <1>7

LEMMA QuietLoop ==
  ASSUME LoopInv, AccountRowsInv, Unsaved = {}, \A g \in Unsaved' : g.table # "account",
         UNCHANGED <<account, lastMarkets, resetPc, rows>>, tick' = Idle,
         tick = Idle \/ OrderGone
  PROVE  LoopInv' /\ AccountRowsInv'
<1>1. Idle.todo = {}
  BY DEF Idle
<1>2. LoopInv'
  BY <1>1 DEF LoopInv, NoMarkets
<1>3. resetPc = "idle" => NoMarkets \/ \E s \in Symbols : BalanceSaved(s)
  <2>1. CASE tick = Idle
    BY <2>1 DEF AccountRowsInv, LoopFree
  <2>2. CASE OrderGone
    BY <2>2 DEF OrderGone, LoopInv
  <2> QED BY <2>1, <2>2
<1>4. AccountRowsInv'
  BY <1>3, BalanceStays DEF AccountRowsInv
<1> QED BY <1>2, <1>4

\* A position whose statements are all executed has the row that it should have.
LEMMA RowIsHeld ==
  ASSUME MemoryType, PositionRowsInv
  PROVE  \A s \in Symbols : Unsaves("positions", s) \/ RowQuantity(s) = Held(s)
<1> SUFFICES ASSUME NEW s \in Symbols, ~Unsaves("positions", s) PROVE RowQuantity(s) = Held(s)
  OBVIOUS
<1>1. CASE s \in DOMAIN positions
  BY <1>1 DEF PositionRowsInv, RowQuantity, Held
<1>2. CASE s \notin DOMAIN positions
  BY <1>2 DEF PositionRowsInv, RowQuantity, Held
<1> QED BY <1>1, <1>2

LEMMA HeldType == ASSUME MemoryType PROVE \A s \in Symbols : Held(s) \in Nat
BY DEF MemoryType, PositionsType, Position, Held

\* What is to be saved of the fills of s.
LEMMA PendingFacts ==
  \A s \in Symbols :
    /\ \A net \in PendingFill(s) : \E g \in Unsaved :
         g.table = "fills" /\ g.row.symbol = s /\ g.row.net = net
    /\ \A g \in Unsaved : g.table = "fills" /\ g.row.symbol = s => g.row.net \in PendingFill(s)
BY DEF PendingFill

LEMMA HandlerFills ==
  ASSUME MemoryType, MemoryType', TablesType, Returned, PositionRowsInv,
         UNCHANGED <<rows, base, ghosts>>,
         NoFillRecorded \/ FillRecorded, FillRowsInv
  PROVE  FillRowsInv'
<1> SUFFICES ASSUME NEW s \in Symbols
             PROVE  /\ PendingFill(s)' = {} => Netted(s)' = Held(s)'
                    /\ \A net \in PendingFill(s)' : Netted(s)' = Held(s)' - net
                    /\ Unsaves("positions", s)' => RowQuantity(s)' = Netted(s)'
  BY DEF FillRowsInv
<1>1. Netted(s)' = Netted(s) /\ RowQuantity(s)' = RowQuantity(s)
  BY DEF Netted, Net, RowQuantity
<1>2. PendingFill(s) = {}
  BY DEF Returned, PendingFill
<1>3. Netted(s) = Held(s) /\ RowQuantity(s) = Held(s)
  BY <1>2, RowIsHeld DEF FillRowsInv, Returned, Unsaves
<1>4. Held(s) \in Int /\ Held(s)' \in Int
  BY HeldType DEF MemoryType, PositionsType, Position, Held
<1>5. CASE NoFillRecorded
  <2>1. PendingFill(s)' = {}
    BY <1>5 DEF NoFillRecorded, PendingFill
  <2> QED BY <1>1, <1>3, <1>5, <2>1 DEF NoFillRecorded
<1>6. CASE FillRecorded
  <2>1. PICK g \in Unsaved' :
          /\ g.table = "fills" /\ g.row.net \in Int
          /\ \A f \in Unsaved' : f.table = "fills" => f = g
          /\ Held(s)' = Held(s) + (IF s = g.row.symbol THEN g.row.net ELSE 0)
    BY <1>6 DEF FillRecorded
  <2>2. CASE s = g.row.symbol
    <3>1. PendingFill(s)' = {g.row.net}
      BY <2>1, <2>2 DEF PendingFill
    <3>2. Held(s) = Held(s)' - g.row.net
      BY <1>4, <2>1, <2>2
    <3> QED BY <1>1, <1>3, <3>1, <3>2
  <2>3. CASE s # g.row.symbol
    <3>1. PendingFill(s)' = {} /\ Held(s)' = Held(s)
      BY <1>4, <2>1, <2>3 DEF PendingFill
    <3> QED BY <1>1, <1>3, <3>1
  <2> QED BY <2>2, <2>3
<1> QED BY <1>5, <1>6

LEMMA HandlerKeeps ==
  ASSUME StoreInv, Handler
  PROVE  StoreInv'
<1>1. /\ StoreType /\ Returned /\ UNCHANGED <<resetPc, rows, ghosts, base, collided>>
      /\ raced' = (raced \/ (resetPc # "idle" /\ ~Returned'))
  BY DEF StoreInv, Handler
<1>2. Handled
  BY <1>1, HandlerHandled
<1>3. StoreType'
  <2>1. TablesType'
    BY <1>1 DEF StoreType, TablesType
  <2> QED BY <1>2, <2>1 DEF StoreType, Handled
<1>4. RowsInv'
  <2> SUFFICES ASSUME ~raced'
               PROVE  ResetInv' /\ LoopInv' /\ OrderRowsInv' /\ PositionRowsInv' /\ AccountRowsInv'
    BY DEF RowsInv
  <2>1. /\ ResetInv /\ LoopInv /\ OrderRowsInv /\ PositionRowsInv /\ AccountRowsInv
        /\ resetPc # "idle" => Returned'
    BY <1>1 DEF StoreInv, RowsInv
  <2>2. ResetInv' /\ OrderRowsInv' /\ PositionRowsInv'
    BY <1>1, <1>2, <2>1, HandlerRows, HandlerReset DEF Handled
  <2>3. LoopInv' /\ AccountRowsInv'
    <3>1. MemoryType /\ ScriptType /\ Unsaved = {}
      BY <1>1 DEF StoreType, Returned
    <3>2. ASSUME NEW s \in Symbols, NEW at \in DeliveryWindow, NEW q \in Quotes,
                 OnMarket(s, at, q), MarketSaves(at)
          PROVE  LoopInv' /\ AccountRowsInv'
      BY <1>1, <2>1, <3>1, <3>2, OnMarketHandled, OnMarketLoop
    <3>3. ASSUME NEW s \in Symbols, NEW at \in DeliveryWindow, NEW q \in Quotes,
                 OnMarketBackward(s, at, q), UNCHANGED script
          PROVE  LoopInv' /\ AccountRowsInv'
      <4>1. /\ Unsaved' = {} /\ UNCHANGED <<account, lastMarkets>>
            /\ tick = Idle /\ tick' = Idle
        BY <3>1, <3>3 DEF OnMarketBackward, ConsumerFree, LoopFree, ledger, Unsaved
      <4> QED BY <1>1, <2>1, <3>1, <4>1, QuietLoop
    <3>4. ASSUME tick.todo \subseteq DOMAIN orders, ExecuteOrder, ExecutionSaves
          PROVE  LoopInv' /\ AccountRowsInv'
      BY <1>1, <2>1, <3>1, <3>4, ExecutionHandled, ExecutionLoop
    <3>5. ASSUME OrderGone, UNCHANGED script PROVE LoopInv' /\ AccountRowsInv'
      <4>1. Unsaved' = {} /\ UNCHANGED <<account, lastMarkets>> /\ tick' = Idle
        BY <3>1, <3>5 DEF OrderGone, ledger, feed, Unsaved
      <4> QED BY <1>1, <2>1, <3>1, <3>5, <4>1, QuietLoop
    <3>6. ASSUME Strategy \/ EmergencyCloseAll, OrderSaves PROVE LoopInv' /\ AccountRowsInv'
      <4>1. /\ \A g \in Unsaved' : g.table = "orders"
            /\ tick = Idle /\ UNCHANGED <<account, lastMarkets, tick>>
        BY <3>1, <3>6, OrdersHandled
      <4> QED BY <1>1, <2>1, <3>1, <4>1, QuietLoop
    <3> QED BY <3>2, <3>3, <3>4, <3>5, <3>6 DEF Handler
  <2> QED BY <2>2, <2>3
<1>5. ~raced' /\ ~collided' => FillRowsInv'
  BY <1>1, <1>2, <1>3, HandlerFills DEF StoreInv, StoreType, RowsInv, Handled
<1> QED BY <1>3, <1>4, <1>5 DEF StoreInv

-----------------------------------------------------------------------------
(* One statement is executed.                                                *)

LEMMA SavedRows ==
  ASSUME TablesType, NEW g, g.table \in Tables,
         rows' = [rows EXCEPT ![g.table] = Written(rows[g.table], g)]
  PROVE  /\ rows' = [orders |-> rows'.orders, fills |-> rows'.fills,
                     positions |-> rows'.positions, account |-> rows'.account]
         /\ rows'.orders = IF g.table = "orders" THEN Written(rows.orders, g) ELSE rows.orders
         /\ rows'.fills = IF g.table = "fills" THEN Written(rows.fills, g) ELSE rows.fills
         /\ rows'.positions =
              IF g.table = "positions" THEN Written(rows.positions, g) ELSE rows.positions
         /\ rows'.account = IF g.table = "account" THEN Written(rows.account, g) ELSE rows.account
<1> DEFINE W == Written(rows[g.table], g)
<1>1. rows = [orders |-> rows.orders, fills |-> rows.fills,
              positions |-> rows.positions, account |-> rows.account]
  BY DEF TablesType
<1>2. rows' = [rows EXCEPT ![g.table] = W]
  OBVIOUS
<1>3. /\ g.table = "orders" => W = Written(rows.orders, g)
      /\ g.table = "fills" => W = Written(rows.fills, g)
      /\ g.table = "positions" => W = Written(rows.positions, g)
      /\ g.table = "account" => W = Written(rows.account, g)
  OBVIOUS
<1> HIDE DEF W
<1>4. CASE g.table = "orders"
  BY <1>1, <1>2, <1>3, <1>4
<1>5. CASE g.table = "fills"
  BY <1>1, <1>2, <1>3, <1>5
<1>6. CASE g.table = "positions"
  BY <1>1, <1>2, <1>3, <1>6
<1>7. CASE g.table = "account"
  BY <1>1, <1>2, <1>3, <1>7
<1> QED BY <1>4, <1>5, <1>6, <1>7 DEF Tables

\* What a statement does to its table.
LEMMA WrittenFacts ==
  ASSUME NEW table, NEW g
  PROVE  /\ g.row # Gone /\ g.table # "fills" => Written(table, g) = Put(table, g.key, g.row)
         /\ g.row = Gone =>
              Written(table, g) = [k \in DOMAIN table \ {g.key} |-> table[k]]
         /\ g.row # Gone /\ g.table = "fills" /\ g.key \in DOMAIN table => Written(table, g) = table
         /\ g.row # Gone /\ g.table = "fills" /\ g.key \notin DOMAIN table =>
              Written(table, g) = Put(table, g.key, g.row)
BY DEF Written

\* The statement that Save executes.
Saved(g) ==
  /\ g \in Unsaved /\ Unsaved' = Unsaved \ {g}
  /\ rows' = [rows EXCEPT ![g.table] = Written(rows[g.table], g)]
  /\ ghosts' = (IF g.table = "positions" THEN ghosts \ {g.key} ELSE ghosts)
  /\ collided' = (collided \/ (g.table = "fills" /\ g.key \in DOMAIN rows.fills))
  /\ g.table = "fills" => \A f \in Unsaved : f.table # "positions"

LEMMA SaveOfOne ==
  ASSUME ScriptType, Save
  PROVE  ScriptType' /\ (\E g \in Unsaved : Saved(g)) /\ UNCHANGED <<raceVars, crashes, base, raced>>
<1>1. PICK i \in Stages, g \in Unsaved :
        /\ g \in script[i] /\ \A j \in 1 .. i - 1 : script[j] = {}
        /\ rows' = [rows EXCEPT ![g.table] = Written(rows[g.table], g)]
        /\ script' = [script EXCEPT ![i] = script[i] \ {g}]
        /\ ghosts' = IF g.table = "positions" THEN ghosts \ {g.key} ELSE ghosts
        /\ collided' = (collided \/ (g.table = "fills" /\ g.key \in DOMAIN rows.fills))
  BY DEF Save, Unsaved
<1>2. UNCHANGED <<raceVars, crashes, base, raced>>
  BY DEF Save
<1>3. /\ script = [j \in Stages |-> script[j]]
      /\ \A j, k \in Stages : j # k => script[j] \cap script[k] = {}
      /\ \A j, k \in Stages : \A f \in script[j], h \in script[k] :
           f.table = "positions" /\ h.table = "fills" => j < k
  BY DEF ScriptType
<1>4. /\ script' = [j \in Stages |-> script'[j]]
      /\ script'[i] = script[i] \ {g} /\ \A j \in Stages \ {i} : script'[j] = script[j]
  BY <1>1, <1>3
<1>5. /\ \A j \in Stages : script'[j] = script[j] \ {g}
      /\ \A f : f \in Unsaved <=> \E j \in Stages : f \in script[j]
  BY <1>1, <1>3, <1>4 DEF Unsaved
<1>6. g \in Unsaved /\ Unsaved' = Unsaved \ {g}
  <2>1. \A f : f \in Unsaved' <=> \E j \in Stages : f \in script'[j]
    BY DEF Unsaved
  <2> QED BY <1>1, <1>5, <2>1
<1>7. ScriptType'
  BY <1>3, <1>4, <1>5, <1>6 DEF ScriptType
<1>8. ASSUME g.table = "fills", NEW f \in Unsaved, f.table = "positions" PROVE FALSE
  <2>1. PICK j \in Stages : f \in script[j]
    BY <1>5
  <2>2. j < i
    BY <1>1, <1>3, <1>8, <2>1
  <2>3. j \in 1 .. i - 1
    BY <2>2 DEF Stages
  <2> QED BY <1>1, <2>1, <2>3
<1>9. Saved(g)
  BY <1>1, <1>6, <1>8 DEF Saved
<1> QED BY <1>2, <1>6, <1>7, <1>9

LEMMA SaveRows ==
  ASSUME StoreType, NEW g, Saved(g), OrderRowsInv, PositionRowsInv,
         UNCHANGED <<orders, positions>>
  PROVE  OrderRowsInv' /\ PositionRowsInv'
<1>1. /\ g \in Unsaved /\ Unsaved' = Unsaved \ {g} /\ g.table \in Tables
      /\ g.table # "positions" => g.row # Gone
      /\ ghosts' = IF g.table = "positions" THEN ghosts \ {g.key} ELSE ghosts
  BY DEF Saved, StoreType, ScriptType
<1>2. /\ rows'.orders = IF g.table = "orders" THEN Written(rows.orders, g) ELSE rows.orders
      /\ rows'.positions =
           IF g.table = "positions" THEN Written(rows.positions, g) ELSE rows.positions
  BY <1>1, SavedRows DEF Saved, StoreType
<1>3. /\ \A table, key : Unsaves(table, key)' => Unsaves(table, key)
      /\ \A table, key : Unsaves(table, key) => Unsaves(table, key)' \/ (g.table = table /\ g.key = key)
  BY <1>1 DEF Unsaves
<1>4. OrderRowsInv'
  <2>1. CASE g.table = "orders"
    <3>1. g.key \in DOMAIN orders /\ g.row = orders[g.key]
      BY <1>1, <2>1 DEF OrderRowsInv
    <3>2. rows'.orders = Put(rows.orders, g.key, g.row)
      BY <1>1, <1>2, <2>1, WrittenFacts
    <3>3. /\ g.key \in DOMAIN rows'.orders /\ rows'.orders[g.key] = orders[g.key]
          /\ \A id \in DOMAIN rows.orders \ {g.key} :
               id \in DOMAIN rows'.orders /\ rows'.orders[id] = rows.orders[id]
      BY <3>1, <3>2 DEF Put
    <3> QED BY <1>1, <1>3, <3>3 DEF OrderRowsInv
  <2>2. CASE g.table # "orders"
    BY <1>1, <1>2, <1>3, <2>2 DEF OrderRowsInv
  <2> QED BY <2>1, <2>2
<1>5. PositionRowsInv'
  <2>1. \A s : PositionRow(s)' = PositionRow(s)
    BY DEF PositionRow
  <2>2. CASE g.table = "positions"
    <3>1. g.row = PositionRow(g.key)
      BY <1>1, <2>2 DEF PositionRowsInv
    <3>2. CASE g.key \in DOMAIN positions
      <4>1. g.row = positions[g.key] /\ g.row # Gone
        BY <3>1, <3>2, RowsStay DEF PositionRow, StoreType, MemoryType, PositionsType
      <4>2. rows'.positions = Put(rows.positions, g.key, g.row)
        BY <1>2, <2>2, <4>1, WrittenFacts
      <4>3. /\ DOMAIN rows'.positions = DOMAIN rows.positions \cup {g.key}
            /\ rows'.positions[g.key] = positions[g.key]
            /\ \A s \in DOMAIN rows.positions \ {g.key} : rows'.positions[s] = rows.positions[s]
        BY <4>1, <4>2 DEF Put
      <4> QED BY <1>1, <1>3, <2>1, <2>2, <3>2, <4>3 DEF PositionRowsInv
    <3>3. CASE g.key \notin DOMAIN positions
      <4>1. rows'.positions = [k \in DOMAIN rows.positions \ {g.key} |-> rows.positions[k]]
        BY <1>2, <2>2, <3>1, <3>3, WrittenFacts DEF PositionRow
      <4>2. /\ DOMAIN rows'.positions = DOMAIN rows.positions \ {g.key}
            /\ \A s \in DOMAIN rows.positions \ {g.key} : rows'.positions[s] = rows.positions[s]
        BY <4>1
      <4> QED BY <1>1, <1>3, <2>1, <2>2, <3>3, <4>2 DEF PositionRowsInv
    <3> QED BY <3>2, <3>3
  <2>3. CASE g.table # "positions"
    BY <1>1, <1>2, <1>3, <2>1, <2>3 DEF PositionRowsInv
  <2> QED BY <2>2, <2>3
<1> QED BY <1>4, <1>5

LEMMA SaveBalance ==
  ASSUME StoreType, NEW g, Saved(g), UNCHANGED <<lastMarkets, account>>,
         NEW s \in Symbols, BalanceSaved(s)
  PROVE  BalanceSaved(s)'
<1>1. /\ g \in Unsaved /\ Unsaved' = Unsaved \ {g} /\ g.table \in Tables
      /\ g.table # "positions" => g.row # Gone
  BY DEF Saved, StoreType, ScriptType
<1>2. rows'.account = IF g.table = "account" THEN Written(rows.account, g) ELSE rows.account
  BY <1>1, SavedRows DEF Saved, StoreType
<1>3. CASE g.table = "account"
  <2>1. g.key = lastMarkets[s].time /\ g.row.cash = account.cash
    BY <1>1, <1>3 DEF BalanceSaved
  <2>2. rows'.account = Put(rows.account, g.key, g.row)
    BY <1>1, <1>2, <1>3, WrittenFacts
  <2>3. g.key \in DOMAIN rows'.account /\ rows'.account[g.key] = g.row
    BY <2>2 DEF Put
  <2> QED BY <1>1, <2>1, <2>3 DEF BalanceSaved
<1>4. CASE g.table # "account"
  BY <1>1, <1>2, <1>4 DEF BalanceSaved
<1> QED BY <1>3, <1>4

LEMMA SaveTables ==
  ASSUME StoreType, NEW g, Saved(g), UNCHANGED base
  PROVE  TablesType'
<1>1. /\ g \in Unsaved /\ g.table \in Tables /\ (g.table # "positions" => g.row # Gone)
      /\ g.table = "fills" => g.row.net \in Int
  BY DEF Saved, StoreType, ScriptType
<1>2. /\ rows' = [orders |-> rows'.orders, fills |-> rows'.fills,
                  positions |-> rows'.positions, account |-> rows'.account]
      /\ rows'.fills = IF g.table = "fills" THEN Written(rows.fills, g) ELSE rows.fills
  BY <1>1, SavedRows DEF Saved, StoreType
<1>3. IsFills(rows.fills) /\ base \in [Symbols -> Int]
  BY DEF StoreType, TablesType
<1>4. IsFills(rows'.fills)
  <2>1. CASE g.table = "fills" /\ g.key \notin DOMAIN rows.fills
    <3>1. rows'.fills = Put(rows.fills, g.key, g.row)
      BY <1>1, <1>2, <2>1, WrittenFacts
    <3> QED BY <1>1, <1>3, <2>1, <3>1, NetAdded
  <2>2. CASE ~(g.table = "fills" /\ g.key \notin DOMAIN rows.fills)
    BY <1>1, <1>2, <1>3, <2>2, WrittenFacts
  <2> QED BY <2>1, <2>2
<1>5. (IsFills(rows.fills))' <=> IsFills(rows'.fills)
  OBVIOUS
<1> QED BY <1>2, <1>3, <1>4, <1>5 DEF TablesType

LEMMA SaveFills ==
  ASSUME StoreType, NEW g, Saved(g), UNCHANGED <<positions, base>>,
         PositionRowsInv, FillRowsInv, ~collided'
  PROVE  FillRowsInv'
<1> SUFFICES ASSUME NEW s \in Symbols
             PROVE  /\ PendingFill(s)' = {} => Netted(s)' = Held(s)'
                    /\ \A net \in PendingFill(s)' : Netted(s)' = Held(s)' - net
                    /\ Unsaves("positions", s)' => RowQuantity(s)' = Netted(s)'
  BY DEF FillRowsInv
<1>1. /\ g \in Unsaved /\ Unsaved' = Unsaved \ {g} /\ g.table \in Tables
      /\ g.table # "positions" => g.row # Gone
      /\ g.table = "fills" => g.row.net \in Int
      /\ \A f, h \in Unsaved : f.table = h.table /\ (f.table = "fills" \/ f.key = h.key) => f = h
  BY DEF Saved, StoreType, ScriptType
<1>2. /\ rows'.fills = IF g.table = "fills" THEN Written(rows.fills, g) ELSE rows.fills
      /\ rows'.positions =
           IF g.table = "positions" THEN Written(rows.positions, g) ELSE rows.positions
  BY <1>1, SavedRows DEF Saved, StoreType
<1>3. Held(s)' = Held(s) /\ Held(s) \in Int
  BY HeldType DEF Held, StoreType
<1>4. /\ IsFills(rows.fills) /\ Net(s) \in Int /\ base[s] \in Int
      /\ Netted(s) = Net(s) - base[s] /\ Netted(s)' = NetOf(rows'.fills, s) - base[s]
  BY NetInt DEF StoreType, TablesType, Net, Netted
<1>5. CASE g.table = "fills"
  <2>1. g.key \notin DOMAIN rows.fills
    BY <1>5 DEF Saved
  <2>2. rows'.fills = Put(rows.fills, g.key, g.row)
    BY <1>1, <1>2, <1>5, <2>1, WrittenFacts
  <2>3. NetOf(rows'.fills, s) = Net(s) + (IF g.row.symbol = s THEN g.row.net ELSE 0)
    BY <1>1, <1>4, <1>5, <2>1, <2>2, NetAdded DEF Net
  <2>4. PendingFill(s)' = {}
    BY <1>1, <1>5 DEF PendingFill
  <2>5. ~Unsaves("positions", s)'
    BY <1>1, <1>5 DEF Unsaves, Saved
  <2>6. Netted(s)' = Held(s)
    <3>1. CASE g.row.symbol = s
      <4>1. g.row.net \in PendingFill(s)
        BY <1>1, <1>5, <3>1, PendingFacts
      <4>2. Netted(s) = Held(s) - g.row.net
        BY <4>1 DEF FillRowsInv
      <4> QED BY <1>1, <1>3, <1>4, <1>5, <2>3, <3>1, <4>2
    <3>2. CASE g.row.symbol # s
      <4>1. PendingFill(s) = {}
        BY <1>1, <1>5, <3>2 DEF PendingFill
      <4>2. Netted(s) = Held(s)
        BY <4>1 DEF FillRowsInv
      <4> QED BY <1>3, <1>4, <2>3, <3>2, <4>2
    <3> QED BY <3>1, <3>2
  <2> QED BY <1>3, <2>4, <2>5, <2>6
<1>6. CASE g.table # "fills"
  <2>1. Netted(s)' = Netted(s)
    BY <1>2, <1>4, <1>6 DEF Net
  <2>2. PendingFill(s)' = PendingFill(s)
    BY <1>1, <1>6 DEF PendingFill
  <2>3. ASSUME Unsaves("positions", s)' PROVE RowQuantity(s)' = Netted(s)
    <3>1. PICK f \in Unsaved : f # g /\ f.table = "positions" /\ f.key = s
      BY <1>1, <2>3 DEF Unsaves
    <3>2. RowQuantity(s) = Netted(s)
      BY <3>1 DEF Unsaves, FillRowsInv
    <3>3. CASE g.table = "positions"
      <4>1. g.key # s
        BY <1>1, <3>1, <3>3
      <4>2. /\ s \in DOMAIN rows'.positions <=> s \in DOMAIN rows.positions
            /\ s \in DOMAIN rows.positions => rows'.positions[s] = rows.positions[s]
        <5>1. CASE g.row = Gone
          <6>1. rows'.positions = [k \in DOMAIN rows.positions \ {g.key} |-> rows.positions[k]]
            BY <1>2, <3>3, <5>1, WrittenFacts
          <6> QED BY <4>1, <6>1
        <5>2. CASE g.row # Gone
          <6>1. rows'.positions = Put(rows.positions, g.key, g.row)
            BY <1>2, <3>3, <5>2, WrittenFacts
          <6> QED BY <4>1, <6>1 DEF Put
        <5> QED BY <5>1, <5>2
      <4>3. s \in ghosts' <=> s \in ghosts
        BY <3>3, <4>1 DEF Saved
      <4> QED BY <3>2, <4>2, <4>3 DEF RowQuantity
    <3>4. CASE g.table # "positions"
      <4>1. rows'.positions = rows.positions /\ ghosts' = ghosts
        BY <1>2, <3>4 DEF Saved
      <4> QED BY <3>2, <4>1 DEF RowQuantity
    <3> QED BY <3>3, <3>4
  <2> QED BY <1>3, <2>1, <2>2, <2>3 DEF FillRowsInv
<1> QED BY <1>5, <1>6

LEMMA SaveKeeps ==
  ASSUME StoreInv, Save
  PROVE  StoreInv'
<1>1. StoreType /\ ScriptType
  BY DEF StoreInv, StoreType
<1>2. ScriptType' /\ UNCHANGED <<raceVars, base, raced>> /\ \E g \in Unsaved : Saved(g)
  BY <1>1, SaveOfOne
<1> PICK g \in Unsaved : Saved(g)
  BY <1>2
<1>3. /\ UNCHANGED <<orders, positions, account, fills, closedPnl, lastMarkets, tick, resetPc,
                     now, emitted, consuming, emergencies, base, raced>>
  BY <1>2 DEF raceVars, vars, ledger, feed, env
<1>4. StoreType'
  <2>1. MemoryType'
    BY <1>1, <1>3 DEF StoreType, MemoryType, OrdersType, PositionsType, AccountType, EnvType,
                      LoopType, MarketsType
  <2> QED BY <1>1, <1>2, <1>3, <2>1, SaveTables DEF StoreType
<1>5. RowsInv'
  <2> SUFFICES ASSUME ~raced'
               PROVE  ResetInv' /\ LoopInv' /\ OrderRowsInv' /\ PositionRowsInv' /\ AccountRowsInv'
    BY DEF RowsInv
  <2>1. /\ ResetInv /\ LoopInv /\ OrderRowsInv /\ PositionRowsInv /\ AccountRowsInv
    BY <1>3 DEF StoreInv, RowsInv
  <2>2. OrderRowsInv' /\ PositionRowsInv'
    BY <1>1, <1>3, <2>1, SaveRows
  <2>3. ResetInv'
    BY <1>3, <2>1 DEF ResetInv, Returned
  <2>4. LoopInv'
    BY <1>3, <2>1 DEF LoopInv, NoMarkets
  <2>5. AccountRowsInv'
    <3>1. ASSUME NEW s \in Symbols, BalanceSaved(s) PROVE BalanceSaved(s)'
      BY <1>1, <1>3, <3>1, SaveBalance
    <3>2. NoMarkets => NoMarkets'
      BY <1>3 DEF NoMarkets
    <3> QED BY <1>3, <2>1, <3>1, <3>2 DEF AccountRowsInv, LoopFree
  <2> QED BY <2>2, <2>3, <2>4, <2>5
<1>6. ~raced' /\ ~collided' => FillRowsInv'
  <2> SUFFICES ASSUME ~raced', ~collided' PROVE FillRowsInv'
    OBVIOUS
  <2>1. ~raced /\ ~collided
    BY <1>3 DEF Saved
  <2> QED BY <1>1, <1>3, <2>1, SaveFills DEF StoreInv, RowsInv
<1> QED BY <1>4, <1>5, <1>6 DEF StoreInv

-----------------------------------------------------------------------------
(* The reset thread, the clock and the restart.                              *)

LEMMA QuietTables ==
  ASSUME TablesType, UNCHANGED <<rows, base>>
  PROVE  TablesType'
BY DEF TablesType

\* The thread's statements on the memory.
LEMMA ResetMemoryTypes ==
  ASSUME MemoryType, ResetMemory
  PROVE  MemoryType'
<1>1. UNCHANGED <<positions, now, emitted, consuming, emergencies, tick>>
  BY DEF ResetMemory, StartReset, ResetAccount, ResetOrders, ResetFills, ResetMarkets, ResetRisk,
         vars, ledger, env
<1>2. OrdersType'
  BY DEF MemoryType, OrdersType, ResetMemory, StartReset, ResetAccount, ResetOrders, ResetFills,
         ResetMarkets, ResetRisk, vars, ledger
<1>3. AccountType'
  <2>1. CASE ResetAccount
    <3>1. [cash |-> InitialBalance, realized |-> 0, fees |-> 0, funding |-> 0]
            \in [cash : Int, realized : Int, fees : Int, funding : Int]
      BY SettingsAssumption
    <3> QED BY <2>1, <3>1 DEF ResetAccount, MemoryType, AccountType
  <2>2. CASE ResetFills
    BY <2>2 DEF ResetFills, MemoryType, AccountType
  <2>3. CASE UNCHANGED <<account, fills, closedPnl>>
    BY <2>3 DEF MemoryType, AccountType
  <2> QED BY <2>1, <2>2, <2>3 DEF ResetMemory, StartReset, ResetOrders, ResetMarkets, ResetRisk,
                                  vars, ledger
<1>4. MarketsType'
  BY DEF MemoryType, MarketsType, NoMarket, None, ResetMemory, StartReset, ResetAccount,
         ResetOrders, ResetFills, ResetMarkets, ResetRisk, vars, feed
<1> QED BY <1>1, <1>2, <1>3, <1>4 DEF MemoryType, PositionsType, EnvType, LoopType

LEMMA ResetMemoryRows ==
  ASSUME ResetMemory, UNCHANGED <<rows, script, ghosts>>, Returned,
         ResetInv, LoopInv, OrderRowsInv, PositionRowsInv
  PROVE  ResetInv' /\ LoopInv' /\ OrderRowsInv' /\ PositionRowsInv' /\ AccountRowsInv'
<1>1. UNCHANGED <<positions, tick>> /\ resetPc' # "idle"
  BY DEF ResetMemory, StartReset, ResetAccount, ResetOrders, ResetFills, ResetMarkets, ResetRisk,
         vars, ledger
<1>2. Unsaved = {} /\ Unsaved' = {}
  BY DEF Returned, Unsaved
<1>3. UNCHANGED orders \/ DOMAIN orders' = {}
  BY DEF ResetMemory, StartReset, ResetAccount, ResetOrders, ResetFills, ResetMarkets, ResetRisk,
         vars, ledger
<1>4. OrderRowsInv'
  BY <1>2, <1>3 DEF OrderRowsInv, Unsaves
<1>5. PositionRowsInv'
  BY <1>1, <1>2 DEF PositionRowsInv, Unsaves
<1>6. AccountRowsInv'
  BY <1>1 DEF AccountRowsInv
<1>7. ResetInv'
  BY <1>1, <1>2 DEF ResetInv, Returned, ResetMemory, StartReset, ResetAccount, ResetOrders,
                    ResetFills, ResetMarkets, ResetRisk, vars, ledger
<1>8. LoopInv'
  <2>1. CASE StartReset
    BY <2>1 DEF StartReset, LoopInv, NoMarkets, vars, ledger, feed
  <2>2. CASE ResetAccount
    BY <2>2 DEF ResetAccount, LoopInv, NoMarkets, feed
  <2>3. CASE ResetOrders
    BY <2>3 DEF ResetOrders, LoopInv, NoMarkets, feed
  <2>4. CASE ResetFills
    BY <2>4 DEF ResetFills, LoopInv, ResetInv, NoMarkets, feed
  <2>5. CASE ResetMarkets
    <3>1. NoMarkets' /\ DOMAIN orders' = {}
      BY <2>5 DEF ResetMarkets, NoMarkets, NoMarket, ResetInv, ledger
    <3> QED BY <1>1, <3>1 DEF LoopInv
  <2>6. CASE ResetRisk
    <3>1. NoMarkets' /\ DOMAIN orders' = {}
      BY <2>6 DEF ResetRisk, LoopInv, NoMarkets, ResetInv, ledger, feed
    <3> QED BY <1>1, <3>1 DEF LoopInv
  <2> QED BY <2>1, <2>2, <2>3, <2>4, <2>5, <2>6 DEF ResetMemory
<1> QED BY <1>4, <1>5, <1>6, <1>7, <1>8

\* Without orders, positions, markets and rows there is nothing to compare.
LEMMA NothingHeld ==
  ASSUME Unsaved' = {}, DOMAIN positions' = {}, \A s \in Symbols : Netted(s)' = 0
  PROVE  FillRowsInv'
BY DEF FillRowsInv, Held, PendingFill, Unsaves

LEMMA ResetKeeps ==
  ASSUME StoreInv, ResetStep
  PROVE  StoreInv'
<1>1. /\ StoreType /\ raced' = (raced \/ ~Returned) /\ UNCHANGED <<script, crashes, collided>>
  BY DEF StoreInv, ResetStep
<1>2. ScriptType'
  BY <1>1, QuietScript DEF StoreType
<1>3. CASE ResetMemory /\ UNCHANGED <<rows, ghosts, base>>
  <2>1. StoreType'
    BY <1>1, <1>2, <1>3, ResetMemoryTypes, QuietTables DEF StoreType
  <2>2. RowsInv'
    BY <1>1, <1>3, ResetMemoryRows DEF StoreInv, RowsInv
  <2>3. ~raced' /\ ~collided' => FillRowsInv'
    <3>1. UNCHANGED positions
      BY <1>3 DEF ResetMemory, StartReset, ResetAccount, ResetOrders, ResetFills, ResetMarkets,
                  ResetRisk, vars, ledger
    <3>2. Unsaved' = Unsaved
      BY <1>1 DEF Unsaved
    <3>3. FillRowsInv => FillRowsInv'
      BY <1>3, <3>1, <3>2 DEF FillRowsInv, Held, Netted, Net, PendingFill, Unsaves, RowQuantity
    <3> QED BY <1>1, <3>3 DEF StoreInv
  <2> QED BY <2>1, <2>2, <2>3 DEF StoreInv
<1>4. CASE /\ ResetTables /\ rows' = NoRows
           /\ ghosts' = {} /\ base' = [s \in Symbols |-> 0]
  <2>1. /\ resetPc = "tables" /\ resetPc' = "idle"
        /\ UNCHANGED <<orders, positions, account, fills, closedPnl, lastMarkets, tick,
                       now, emitted, consuming, emergencies>>
    BY <1>4 DEF ResetTables, vars, ledger, feed, env
  <2>2. rows'.fills = Empty /\ DOMAIN rows'.orders = {} /\ DOMAIN rows'.positions = {}
    BY <1>4 DEF NoRows, Empty
  <2>3. StoreType'
    <3>1. MemoryType'
      BY <1>1, <2>1 DEF StoreType, MemoryType, OrdersType, PositionsType, AccountType, EnvType,
                        LoopType, MarketsType
    <3>2. TablesType'
      <4>1. rows' = [orders |-> rows'.orders, fills |-> rows'.fills,
                     positions |-> rows'.positions, account |-> rows'.account]
        BY <1>4 DEF NoRows
      <4>2. (IsFills(rows.fills))'
        BY <2>2, FS_EmptySet DEF IsFills, Empty
      <4> QED BY <1>4, <4>1, <4>2 DEF TablesType
    <3> QED BY <1>2, <3>1, <3>2 DEF StoreType
  <2>4. ~raced' => /\ ~raced /\ Unsaved' = {} /\ DOMAIN orders' = {} /\ DOMAIN positions' = {}
                   /\ ResetInv /\ LoopInv /\ NoMarkets
    BY <1>1, <2>1 DEF StoreInv, RowsInv, ResetInv, LoopInv, Returned, Unsaved
  <2>5. RowsInv'
    <3> SUFFICES ASSUME ~raced' PROVE ResetInv' /\ LoopInv' /\ OrderRowsInv' /\ PositionRowsInv'
                                      /\ AccountRowsInv'
      BY DEF RowsInv
    <3>1. ResetInv' /\ OrderRowsInv'
      BY <2>1, <2>4 DEF ResetInv, OrderRowsInv
    <3>2. NoMarkets'
      BY <2>1, <2>4 DEF NoMarkets
    <3>3. LoopInv'
      BY <2>1, <2>4, <3>2 DEF LoopInv
    <3>4. PositionRowsInv'
      BY <1>4, <2>2, <2>4 DEF PositionRowsInv
    <3>5. AccountRowsInv'
      BY <3>2 DEF AccountRowsInv
    <3> QED BY <3>1, <3>3, <3>4, <3>5
  <2>6. \A s \in Symbols : Netted(s)' = 0
    <3> TAKE s \in Symbols
    <3>1. NetOf(rows'.fills, s) = 0
      BY <2>2, NetOfNone
    <3>2. base'[s] = 0
      BY <1>4
    <3> QED BY <3>1, <3>2 DEF Netted, Net
  <2>7. ~raced' => FillRowsInv'
    BY <2>4, <2>6, NothingHeld
  <2> QED BY <2>3, <2>5, <2>7 DEF StoreInv
<1> QED BY <1>3, <1>4 DEF ResetStep

\* The next process starts with an empty memory and the rows of the former one.
LEMMA CrashKeeps ==
  ASSUME StoreInv, Crash
  PROVE  StoreInv'
<1>1. /\ StoreType /\ consuming' = TRUE /\ resetPc' = "idle"
      /\ orders' = << >> /\ positions' = << >> /\ closedPnl' = 0
      /\ account' = [cash |-> InitialBalance, realized |-> 0, fees |-> 0, funding |-> 0]
      /\ fills' = [s \in Symbols |-> [entry |-> 0, exit |-> 0]]
      /\ lastMarkets' = [s \in Symbols |-> NoMarket] /\ tick' = Idle
      /\ script' = NoScript /\ ghosts' = DOMAIN rows.positions
      /\ base' = [s \in Symbols |-> Net(s)]
      /\ UNCHANGED <<now, emitted, emergencies, rows>>
  BY DEF StoreInv, Crash
<1>2. DOMAIN orders' = {} /\ DOMAIN positions' = {}
  BY <1>1
<1>3. Unsaved' = {} /\ \A i \in Stages : script'[i] = {}
  BY <1>1 DEF Unsaved, NoScript
<1>4. \A s \in Symbols : Net(s) \in Int /\ Net(s)' = Net(s)
  BY <1>1, NetInt DEF Net, StoreType, TablesType
<1>5. StoreType'
  <2>1. AccountType'
    BY <1>1, SettingsAssumption DEF AccountType
  <2>2. MarketsType'
    BY <1>1 DEF MarketsType, NoMarket, None
  <2>3. LoopType'
    BY <1>1 DEF LoopType, Idle, NoMarket, None
  <2>4. EnvType'
    BY <1>1 DEF StoreType, MemoryType, EnvType
  <2>5. OrdersType' /\ PositionsType'
    BY <1>2 DEF OrdersType, PositionsType
  <2>6. TablesType'
    BY <1>1, <1>4 DEF StoreType, TablesType
  <2>7. ScriptType'
    BY <1>1, <1>3 DEF ScriptType, NoScript
  <2> QED BY <2>1, <2>2, <2>3, <2>4, <2>5, <2>6, <2>7 DEF StoreType, MemoryType
<1>6. RowsInv'
  <2>1. ResetInv'
    BY <1>1 DEF ResetInv
  <2>2. NoMarkets' /\ tick'.todo = {}
    BY <1>1 DEF NoMarkets, NoMarket, Idle
  <2>3. LoopInv'
    BY <1>1, <2>2 DEF LoopInv
  <2>4. OrderRowsInv'
    BY <1>2, <1>3 DEF OrderRowsInv
  <2>5. PositionRowsInv'
    BY <1>1, <1>2, <1>3 DEF PositionRowsInv
  <2>6. AccountRowsInv'
    BY <2>2 DEF AccountRowsInv
  <2> QED BY <2>1, <2>3, <2>4, <2>5, <2>6 DEF RowsInv
<1>7. FillRowsInv'
  <2>1. \A s \in Symbols : Netted(s)' = 0
    <3> TAKE s \in Symbols
    <3>1. base'[s] = Net(s)
      BY <1>1
    <3> QED BY <1>4, <3>1 DEF Netted
  <2> QED BY <1>2, <1>3, <2>1, NothingHeld
<1> QED BY <1>5, <1>6, <1>7 DEF StoreInv

\* A step that touches neither the memory nor the tables, the clock's included.
LEMMA QuietKeeps ==
  ASSUME StoreInv, now' \in Nat,
         UNCHANGED <<orders, positions, account, fills, closedPnl, lastMarkets, tick, emitted,
                     consuming, emergencies, resetPc, rows, script, ghosts, base, raced, collided>>
  PROVE  StoreInv'
<1>1. StoreType'
  <2>1. MemoryType'
    BY DEF StoreInv, StoreType, MemoryType, OrdersType, PositionsType, AccountType, EnvType,
           LoopType, MarketsType
  <2> QED BY <2>1, QuietTables, QuietScript DEF StoreInv, StoreType
<1>2. Unsaved' = Unsaved
  BY DEF Unsaved
<1>3. RowsInv'
  <2>1. (ResetInv => ResetInv') /\ (LoopInv => LoopInv')
    BY <1>2 DEF ResetInv, LoopInv, NoMarkets, Returned
  <2>2. (OrderRowsInv => OrderRowsInv') /\ (PositionRowsInv => PositionRowsInv')
    BY <1>2 DEF OrderRowsInv, PositionRowsInv, PositionRow, Unsaves
  <2>3. AccountRowsInv => AccountRowsInv'
    BY <1>2 DEF AccountRowsInv, BalanceSaved, NoMarkets, LoopFree
  <2> QED BY <2>1, <2>2, <2>3 DEF StoreInv, RowsInv
<1>4. FillRowsInv => FillRowsInv'
  BY <1>2 DEF FillRowsInv, Held, Netted, Net, PendingFill, Unsaves, RowQuantity
<1> QED BY <1>1, <1>3, <1>4 DEF StoreInv

-----------------------------------------------------------------------------
\* Whatever the handlers, the reset thread and the ends of the process have done, the
\* statements that are left and the tables make up the memory (storage.py, broker.py).
THEOREM StoreInvariant == SpecStore => []StoreInv
<1>1. InitStore => StoreInv
  <2> SUFFICES ASSUME InitStore PROVE StoreInv
    OBVIOUS
  <2>1. /\ now = 0 /\ emitted = {} /\ consuming = TRUE /\ emergencies = 0
        /\ orders = << >> /\ positions = << >> /\ closedPnl = 0
        /\ account = [cash |-> InitialBalance, realized |-> 0, fees |-> 0, funding |-> 0]
        /\ fills = [s \in Symbols |-> [entry |-> 0, exit |-> 0]]
        /\ lastMarkets = [s \in Symbols |-> NoMarket] /\ tick = Idle /\ resetPc = "idle"
        /\ rows = NoRows /\ script = NoScript /\ ghosts = {} /\ base = [s \in Symbols |-> 0]
    BY DEF InitStore, InitRace, Init
  <2>2. DOMAIN orders = {} /\ DOMAIN positions = {} /\ rows.fills = Empty
        /\ DOMAIN rows.orders = {} /\ DOMAIN rows.positions = {}
    BY <2>1 DEF NoRows, Empty
  <2>3. Unsaved = {} /\ \A i \in Stages : script[i] = {}
    BY <2>1 DEF Unsaved, NoScript
  <2>4. NoMarkets /\ tick.todo = {}
    BY <2>1 DEF NoMarkets, NoMarket, Idle
  <2>5. StoreType
    <3>1. AccountType
      BY <2>1, SettingsAssumption DEF AccountType
    <3>2. MarketsType /\ LoopType
      BY <2>1 DEF MarketsType, LoopType, Idle, NoMarket, None
    <3>3. OrdersType /\ PositionsType /\ EnvType
      BY <2>1, <2>2 DEF OrdersType, PositionsType, EnvType
    <3>4. IsFills(rows.fills)
      BY <2>2, FS_EmptySet DEF IsFills, Empty
    <3>5. TablesType
      BY <2>1, <3>4 DEF TablesType, NoRows
    <3>6. ScriptType
      BY <2>1, <2>3 DEF ScriptType, NoScript
    <3> QED BY <3>1, <3>2, <3>3, <3>5, <3>6 DEF StoreType, MemoryType
  <2>6. RowsInv
    <3>1. ResetInv /\ LoopInv /\ AccountRowsInv
      BY <2>1, <2>4 DEF ResetInv, LoopInv, AccountRowsInv
    <3>2. OrderRowsInv /\ PositionRowsInv
      BY <2>1, <2>2, <2>3 DEF OrderRowsInv, PositionRowsInv
    <3> QED BY <3>1, <3>2 DEF RowsInv
  <2>7. FillRowsInv
    <3>1. \A s \in Symbols : Netted(s) = 0
      BY <2>1, <2>2, NetOfNone DEF Netted, Net
    <3> QED BY <2>2, <2>3, <3>1 DEF FillRowsInv, Held, PendingFill, Unsaves
  <2> QED BY <2>5, <2>6, <2>7 DEF StoreInv
<1>2. StoreInv /\ [NextStore]_<<raceVars, storeVars>> => StoreInv'
  <2> SUFFICES ASSUME StoreInv, [NextStore]_<<raceVars, storeVars>> PROVE StoreInv'
    OBVIOUS
  <2>1. now \in Nat
    BY DEF StoreInv, StoreType, MemoryType, EnvType
  <2>2. CASE Clock
    BY <2>1, <2>2, QuietKeeps DEF Clock, ClockTick, storeVars, ledger, feed
  <2>3. CASE UNCHANGED <<raceVars, storeVars>>
    BY <2>1, <2>3, QuietKeeps DEF raceVars, vars, storeVars, ledger, feed, env
  <2> QED BY <2>2, <2>3, HandlerKeeps, SaveKeeps, ResetKeeps, CrashKeeps DEF NextStore
<1> QED BY <1>1, <1>2, PTL DEF SpecStore

\* _save_order, _save_position, _record_equity: between two handlers the tables show
\* every order, every position and the balance of the memory, unless a handler ran
\* into the reset.
THEOREM TablesShowMemory == SpecStore => []TablesFollowMemory
<1>1. StoreInv => TablesFollowMemory
  <2> SUFFICES ASSUME StoreInv, AtRest, ~raced PROVE TablesFollowMemory
    BY DEF TablesFollowMemory
  <2>1. OrderRowsInv /\ PositionRowsInv /\ AccountRowsInv /\ \A table, key : ~Unsaves(table, key)
    BY DEF StoreInv, RowsInv, AtRest, Returned, Unsaves
  <2>2. \A id \in DOMAIN orders : id \in DOMAIN rows.orders /\ rows.orders[id] = orders[id]
    BY <2>1 DEF OrderRowsInv
  <2>3. /\ \A s \in DOMAIN positions :
             s \in DOMAIN rows.positions /\ rows.positions[s] = positions[s]
        /\ DOMAIN rows.positions \ DOMAIN positions = ghosts
    BY <2>1 DEF PositionRowsInv
  <2>4. (\E s \in Symbols : lastMarkets[s].time # None) =>
          \E s \in Symbols : /\ lastMarkets[s].time \in DOMAIN rows.account
                             /\ rows.account[lastMarkets[s].time].cash = account.cash
    <3> SUFFICES ASSUME ~NoMarkets
                 PROVE  \E s \in Symbols : /\ lastMarkets[s].time \in DOMAIN rows.account
                                           /\ rows.account[lastMarkets[s].time].cash = account.cash
      BY DEF NoMarkets
    <3>1. PICK s \in Symbols : BalanceSaved(s)
      BY <2>1 DEF AccountRowsInv, AtRest
    <3> QED BY <3>1 DEF BalanceSaved, AtRest, Returned
  <2> QED BY <2>2, <2>3, <2>4 DEF TablesFollowMemory
<1> QED BY <1>1, StoreInvariant, PTL

\* _execute saves the position, the order and the fill one by one: wherever the process
\* ends, at most the one fill that comes next is missing from the table.
THEOREM TornByOneFill == SpecStore => []OneFillTorn
<1>1. StoreInv => OneFillTorn
  <2> SUFFICES ASSUME StoreInv, ~raced, ~collided, NEW s \in Symbols
               PROVE  RowQuantity(s) - (Net(s) - base[s]) \in {0} \cup PendingFill(s)
    BY DEF OneFillTorn
  <2>1. FillRowsInv /\ PositionRowsInv /\ MemoryType /\ ScriptType
    BY DEF StoreInv, RowsInv, StoreType
  <2>2. Held(s) \in Int /\ Netted(s) \in Int /\ Netted(s) = Net(s) - base[s]
    BY <2>1, HeldType, NetInt DEF StoreInv, StoreType, TablesType, Netted, Net
  <2>3. CASE Unsaves("positions", s)
    BY <2>1, <2>2, <2>3 DEF FillRowsInv
  <2>4. CASE ~Unsaves("positions", s) /\ PendingFill(s) = {}
    BY <2>1, <2>2, <2>4, RowIsHeld DEF FillRowsInv
  <2>5. CASE ~Unsaves("positions", s) /\ PendingFill(s) # {}
    <3>1. PICK net \in PendingFill(s) : Netted(s) = Held(s) - net
      BY <2>1, <2>5 DEF FillRowsInv
    <3>2. net \in Int
      BY <2>1, <3>1, PendingFacts DEF ScriptType
    <3>3. RowQuantity(s) = Held(s)
      BY <2>1, <2>5, RowIsHeld
    <3>4. RowQuantity(s) - Netted(s) = net
      BY <2>2, <3>1, <3>2, <3>3
    <3> QED BY <2>2, <3>1, <3>4
  <2> QED BY <2>3, <2>4, <2>5
<1> QED BY <1>1, StoreInvariant, PTL
=============================================================================
