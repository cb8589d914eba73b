----------------------------- MODULE OrderBookSync -----------------------------
(***************************************************************************)
(* The local order book of one symbol: LocalOrderBook                        *)
(* (market_data/order_book.py), the LocalOrderBookManager that synchronizes  *)
(* it with a REST snapshot (market_data/book_manager.py), its entry in       *)
(* MarketDataHealth and the deduplicator in front of it.  Books of different *)
(* symbols share nothing but the deduplicator's capacity.                    *)
(*                                                                           *)
(* The consumer of the event queue and the synchronization task run on one   *)
(* event loop.  Between two awaits each is atomic: on_depth never awaits, and *)
(* _synchronize awaits the snapshot only.  initialize's loop over the        *)
(* buffered events is one step per event here; `at' is the loop's position in *)
(* the buffer, and nothing else runs before the loop has ended.              *)
(*                                                                           *)
(* The exchange numbers its updates, each of which sets one price level to   *)
(* an absolute quantity (0 removes it).  It sends the updates since its last *)
(* event as one event [first U, final u, pu, levels], the price levels it    *)
(* touched with their quantities at u.  The connection loses events, and a   *)
(* reconnect may repeat the last ones.                                       *)
(***************************************************************************)
EXTENDS Integers, Sequences

CONSTANTS
  Prices, Quantities,
  DedupCapacity,     \* BoundedDeduplicator's capacity
  MaxUpdate,         \* bound: the exchange's last update
  MaxStream,         \* bound: events on their way to the consumer
  MaxRepeats         \* bound: connections that start with repeated events

ASSUME BookAssumption ==
  /\ Quantities \subseteq Nat /\ 0 \in Quantities
  /\ DedupCapacity \in Nat \ {0} /\ {MaxUpdate, MaxStream, MaxRepeats} \subseteq Nat

VARIABLES
  books,         \* the exchange: update id -> its book after that update
  wrote,         \* the exchange: update id -> the price level it set
  sent,          \* the exchange: the events it has sent
  connected,     \* the depth stream's connection
  repeats,       \* how many connections have started with repeated events
  stream,        \* events on their way: the socket and the market data queue
  seen,          \* BoundedDeduplicator._seen, oldest first, as final update ids
  levels,        \* LocalOrderBook.bids and asks, 0 for a price without a level
  lastUpdateId,  \* LocalOrderBook.last_update_id
  synchronized,  \* LocalOrderBook.synchronized
  buffer,        \* LocalOrderBook._buffer
  bridge, at,    \* initialize's loop: where it began in the buffer and where it
                 \* is, 0 outside the loop
  bookHealth,    \* MarketDataHealth.order_books
  fetches        \* the running _synchronize tasks, by what their request has seen

exchange == <<books, wrote, sent>>
network  == <<connected, repeats, stream>>
book     == <<levels, lastUpdateId, synchronized, buffer, bridge, at>>
vars     == <<exchange, network, seen, book, bookHealth, fetches>>

None == -1
Requested == -2          \* a snapshot request the exchange has not answered yet

EmptyBook == [p \in Prices |-> 0]
Touched(m, n) == {wrote[i] : i \in m + 1 .. n}

\* The event for the updates after `from' up to `to'.
EventOf(from, to) ==
  [first |-> from + 1, final |-> to, pu |-> from,
   levels |-> [p \in Touched(from, to) |-> books[to][p]]]

\* The last update that an event has announced.
Announced == IF sent = << >> THEN 0 ELSE sent[Len(sent)].final

\* No handler is in the middle of initialize's loop.
LoopFree == at = 0

Init ==
  /\ books = [n \in {0} |-> EmptyBook] /\ wrote = << >> /\ sent = << >>
  /\ connected = FALSE /\ repeats = 0 /\ stream = << >> /\ seen = << >>
  /\ levels = EmptyBook /\ lastUpdateId = None /\ synchronized = FALSE
  /\ buffer = << >> /\ bridge = 0 /\ at = 0
  /\ bookHealth = "unknown" /\ fetches = {}

-----------------------------------------------------------------------------
(* The exchange and the connection to it.                                    *)

Update(p, q) ==
  /\ Len(wrote) < MaxUpdate
  /\ wrote' = Append(wrote, p)
  /\ books' = [n \in DOMAIN books \cup {Len(wrote) + 1} |->
                 IF n = Len(wrote) + 1 THEN [books[Len(wrote)] EXCEPT ![p] = q] ELSE books[n]]
  /\ UNCHANGED <<sent, network, seen, book, bookHealth, fetches>>

\* Without a connection the event is lost.
Publish ==
  /\ Announced < Len(wrote) /\ Len(stream) < MaxStream
  /\ LET e == EventOf(Announced, Len(wrote))
     IN  /\ sent' = Append(sent, e)
         /\ stream' = IF connected THEN Append(stream, e) ELSE stream
  /\ UNCHANGED <<books, wrote, connected, repeats, seen, book, bookHealth, fetches>>

\* A connection that ends takes the last events on their way with it.
Disconnect ==
  /\ connected /\ connected' = FALSE
  /\ \E n \in 0 .. Len(stream) : stream' = SubSeq(stream, 1, n)
  /\ UNCHANGED <<exchange, repeats, seen, book, bookHealth, fetches>>

\* The exchange may start the new connection with events it has sent before.
Connect ==
  /\ ~connected /\ connected' = TRUE
  /\ \/ UNCHANGED <<stream, repeats>>
     \/ \E n \in 1 .. Len(sent) :
          /\ stream' = stream \o SubSeq(sent, n, Len(sent))
          /\ Len(stream') <= MaxStream
          /\ repeats < MaxRepeats /\ repeats' = repeats + 1
  /\ UNCHANGED <<exchange, seen, book, bookHealth, fetches>>

-----------------------------------------------------------------------------
(* BoundedDeduplicator.accept.                                               *)

IsDuplicate(e) == \E i \in 1 .. Len(seen) : seen[i] = e.final
MovedToEnd(u) ==
  LET k == CHOOSE i \in 1 .. Len(seen) : seen[i] = u
  IN  [i \in 1 .. Len(seen) |->
         IF i < k THEN seen[i] ELSE IF i = Len(seen) THEN u ELSE seen[i + 1]]
Remembered(u) ==
  IF Len(seen) < DedupCapacity THEN Append(seen, u) ELSE Append(Tail(seen), u)

DropDuplicate ==
  /\ LoopFree /\ stream # << >> /\ IsDuplicate(Head(stream))
  /\ stream' = Tail(stream) /\ seen' = MovedToEnd(Head(stream).final)
  /\ UNCHANGED <<exchange, connected, repeats, book, bookHealth, fetches>>

-----------------------------------------------------------------------------
(* LocalOrderBook.apply and LocalOrderBookManager.on_depth.                  *)

\* _apply_levels
WithLevels(e) == [p \in Prices |-> IF p \in DOMAIN e.levels THEN e.levels[p] ELSE levels[p]]

Old(e) == e.final < lastUpdateId

\* Mutant: an event may start anywhere after the last one.
ContinuesAfter(e) == e.pu >= lastUpdateId
Continues(e) == e.pu = lastUpdateId

\* Mutant: a second fetch is started while one is running.
StartSyncAgain == fetches' = fetches \cup {Requested}

\* Mutant: a finished fetch counts as a running one.
StartSyncFirst ==
  fetches' = IF fetches = {} /\ bookHealth = "unknown" THEN {Requested} ELSE fetches

\* _start_sync
StartSync == fetches' = IF fetches = {} THEN {Requested} ELSE fetches

Accept(e) ==
  /\ LoopFree /\ stream # << >> /\ e = Head(stream) /\ ~IsDuplicate(e)
  /\ stream' = Tail(stream) /\ seen' = Remembered(e.final)
  /\ UNCHANGED <<exchange, connected, repeats, bridge, at>>

IgnoreOld(e) ==
  /\ Accept(e) /\ synchronized /\ Old(e)
  /\ UNCHANGED <<levels, lastUpdateId, synchronized, buffer, bookHealth, fetches>>

ApplyNext(e) ==
  /\ Accept(e) /\ synchronized /\ ~Old(e) /\ Continues(e)
  /\ levels' = WithLevels(e) /\ lastUpdateId' = e.final
  /\ UNCHANGED <<synchronized, buffer, bookHealth, fetches>>

\* Mutant: the gap does not reach the health of the book.
DetectGapSilently(e) ==
  /\ Accept(e) /\ synchronized /\ ~Old(e) /\ ~Continues(e)
  /\ synchronized' = FALSE /\ buffer' = Append(buffer, e)
  /\ StartSync
  /\ UNCHANGED <<levels, lastUpdateId, bookHealth>>

DetectGap(e) ==
  /\ Accept(e) /\ synchronized /\ ~Old(e) /\ ~Continues(e)
  /\ synchronized' = FALSE /\ bookHealth' = "degraded" /\ buffer' = Append(buffer, e)
  /\ StartSync
  /\ UNCHANGED <<levels, lastUpdateId>>

BufferEvent(e) ==
  /\ Accept(e) /\ ~synchronized
  /\ buffer' = Append(buffer, e)
  /\ StartSync
  /\ UNCHANGED <<levels, lastUpdateId, synchronized, bookHealth>>

OnDepth ==
  stream # << >> /\ LET e == Head(stream)
                    IN  IgnoreOld(e) \/ ApplyNext(e) \/ DetectGap(e) \/ BufferEvent(e)

-----------------------------------------------------------------------------
(* LocalOrderBookManager._synchronize.                                       *)

\* The exchange answers the request with its book of the moment.
ServeSnapshot ==
  /\ Requested \in fetches
  /\ fetches' = (fetches \ {Requested}) \cup {Len(wrote)}
  /\ UNCHANGED <<exchange, network, seen, book, bookHealth>>

\* The request fails: the exception ends the task and nobody reads it.
SnapshotFails ==
  \E f \in fetches :
    /\ fetches' = fetches \ {f}
    /\ UNCHANGED <<exchange, network, seen, book, bookHealth>>

\* Mutant: the book stays synchronized.
ResetKeepsSync ==
  /\ levels' = EmptyBook /\ lastUpdateId' = None /\ UNCHANGED synchronized
  /\ buffer' = << >> /\ bridge' = 0 /\ at' = 0

\* reset, by the gap that initialize reports to the health of the book.
ResetBook ==
  /\ levels' = EmptyBook /\ lastUpdateId' = None /\ synchronized' = FALSE
  /\ buffer' = << >> /\ bridge' = 0 /\ at' = 0

Bridges(e, n) == e.first <= n /\ n <= e.final
FirstBridge(i, n) ==
  /\ i \in 1 .. Len(buffer) /\ Bridges(buffer[i], n)
  /\ \A j \in 1 .. i - 1 : ~Bridges(buffer[j], n)

\* The snapshot of update n arrives and initialize begins.  Its loop starts at
\* the bridging event; initialize leaves out the later events that are older than
\* the snapshot, which apply ignores all the same.
InstallSnapshot(n) ==
  /\ LoopFree /\ n \in fetches /\ n # Requested
  /\ \E i \in 1 .. Len(buffer) : FirstBridge(i, n) /\ bridge' = i /\ at' = i
  /\ levels' = books[n] /\ lastUpdateId' = n /\ synchronized' = TRUE
  /\ fetches' = fetches \ {n}
  /\ UNCHANGED <<exchange, network, seen, buffer, bookHealth>>

\* No buffered event bridges the snapshot.
RefuseSnapshot(n) ==
  /\ LoopFree /\ n \in fetches /\ n # Requested
  /\ \A i \in 1 .. Len(buffer) : ~Bridges(buffer[i], n)
  /\ ResetBook /\ bookHealth' = "degraded"
  /\ fetches' = fetches \ {n}
  /\ UNCHANGED <<exchange, network, seen>>

\* Mutant: the loop ends with the bridging event.
LoopEndsEarly == at' = 0 /\ bridge' = 0 /\ buffer' = << >> /\ bookHealth' = "healthy"

\* The loop after an iteration; at its end the buffer is cleared and
\* _synchronize reports the book.
NextIteration ==
  IF at = Len(buffer)
  THEN at' = 0 /\ bridge' = 0 /\ buffer' = << >> /\ bookHealth' = "healthy"
  ELSE at' = at + 1 /\ UNCHANGED <<bridge, buffer, bookHealth>>

\* Only the bridging event is exempt from the check of pu.
Replayable(e) == at = bridge \/ Continues(e)

ReplaySkips ==
  /\ ~LoopFree /\ Old(buffer[at])
  /\ NextIteration
  /\ UNCHANGED <<exchange, network, seen, levels, lastUpdateId, synchronized, fetches>>

ReplayApplies ==
  /\ ~LoopFree /\ ~Old(buffer[at]) /\ Replayable(buffer[at])
  /\ levels' = WithLevels(buffer[at]) /\ lastUpdateId' = buffer[at].final
  /\ NextIteration
  /\ UNCHANGED <<exchange, network, seen, synchronized, fetches>>

ReplayGap ==
  /\ ~LoopFree /\ ~Old(buffer[at]) /\ ~Replayable(buffer[at])
  /\ ResetBook /\ bookHealth' = "degraded"
  /\ UNCHANGED <<exchange, network, seen, fetches>>

Synchronize ==
  \/ \E n \in fetches : InstallSnapshot(n) \/ RefuseSnapshot(n)
  \/ ReplaySkips \/ ReplayApplies \/ ReplayGap

-----------------------------------------------------------------------------
Exchange == (\E p \in Prices, q \in Quantities : Update(p, q)) \/ Publish \/ ServeSnapshot
Network == Connect \/ Disconnect \/ SnapshotFails
Next == Exchange \/ Network \/ DropDuplicate \/ OnDepth \/ Synchronize
Spec == Init /\ [][Next]_vars

-----------------------------------------------------------------------------
(* Properties.                                                               *)

Events == [first : Nat, final : Nat, pu : Nat, levels : UNION {[S -> Quantities] : S \in SUBSET Prices}]

\* Type invariant; a synchronized book knows the update it stands at.
TypeOK ==
  /\ wrote \in Seq(Prices) /\ books \in [0 .. Len(wrote) -> [Prices -> Quantities]]
  /\ sent \in Seq(Events) /\ stream \in Seq(Events) /\ connected \in BOOLEAN /\ repeats \in Nat
  /\ seen \in Seq(Nat) /\ Len(seen) <= DedupCapacity
  /\ levels \in [Prices -> Quantities] /\ lastUpdateId \in {None} \cup 0 .. Len(wrote)
  /\ synchronized \in BOOLEAN /\ (synchronized => lastUpdateId # None)
  /\ buffer \in Seq(Events) /\ at \in 0 .. Len(buffer) /\ bridge \in 0 .. at
  /\ bookHealth \in {"unknown", "healthy", "degraded"}
  /\ fetches \subseteq {Requested} \cup 0 .. Len(wrote)

\* on_depth and _synchronize: the health of the book says healthy exactly while the
\* book is synchronized, so the two gates of an entry (risk manager) agree.
HealthTellsSync == LoopFree => (bookHealth = "healthy" <=> synchronized)

\* _start_sync: there is one fetch at a time, and none for a synchronized book, so
\* no old snapshot replaces a book that has moved on.
OneFetch ==
  /\ \A f, g \in fetches : f = g
  /\ LoopFree /\ fetches # {} => ~synchronized

\* initialize: a book that has been synchronized stands at the newest event the
\* consumer has accepted; no event that arrived during the fetch is left out.  A
\* connection that repeats events is excluded: once the deduplicator has forgotten an
\* event, its repetition may bridge a snapshot behind newer events of the buffer, and
\* the book is synchronized without those.
NoEventLeftOut ==
  LoopFree /\ synchronized /\ repeats = 0 =>
    \A i \in 1 .. Len(seen) : seen[i] <= lastUpdateId

\* on_depth: a gap, or an event before the first snapshot, leaves the book without
\* its events only while a fetch is under way that may bring it back.
GapStartsFetch == [][OnDepth => synchronized' \/ fetches' # {}]_vars
=============================================================================
