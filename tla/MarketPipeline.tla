----------------------------- MODULE MarketPipeline -----------------------------
(***************************************************************************)
(* The path of a market event from the WebSocket to the Parquet files:       *)
(* RoutedWebSocketSession (market_data/websocket.py), the queue, the consumer *)
(* and the life cycle of RealtimeMarketDataService (market_data/service.py), *)
(* the route's entry in MarketDataHealth (market_data/health.py) and         *)
(* ParquetEventWriter (market_data/parquet.py).                              *)
(*                                                                           *)
(* Sessions, consumer, writer, updates of the candidates and shutdown are    *)
(* tasks of one event loop; an action is what one of them does between two   *)
(* awaits at which another can be seen.  Closing a connection is part of the *)
(* step that decides it.                                                     *)
(*                                                                           *)
(* Abstraction.  A message is its number, its partition of the files (date and *)
(* symbol) and its kind: `fresh', `late' (out of order or stale for its       *)
(* stream) or `noise' (not a combined message, or a duplicate).  Waits are    *)
(* not measured: the rotation, the writer's flush interval and a silent route *)
(* may happen at any time.  Jitter is left out.                               *)
(***************************************************************************)
EXTENDS Integers, Sequences

CONSTANTS
  Routes,
  Partitions,     \* the pairs of a date and a symbol
  QueueSize,      \* ws_queue_maxsize
  BatchSize,      \* parquet_batch_size
  MaxAttempt,     \* the attempt whose 2**attempt no float holds: 1024 in the code
  Incoming,       \* the messages the exchange may send
  MaxMessages     \* bound: messages put into the queue

ASSUME PipelineAssumption ==
  {QueueSize, BatchSize, MaxAttempt} \subseteq Nat \ {0} /\ MaxMessages \in Nat

VARIABLES
  session,      \* route -> its session
  status,       \* MarketDataHealth._routes
  delivered,    \* how many messages the sessions have put into the queue
  queue,        \* RealtimeMarketDataService._queue
  accepted,     \* partition -> the numbers of its events ever put into it, in order
  consumer,     \* _consume: [pc, message]
  writerQueue,  \* ParquetEventWriter._queue
  writer,       \* ParquetEventWriter._run: [pc, batch, done, stopping]
  written,      \* partition -> the numbers of the events in its files, in order
  service       \* update_symbols, stop and _report_health: [pc, reporter]

routeVars == <<session, status, delivered>>
queueVars == <<queue, accepted, consumer>>
fileVars  == <<writerQueue, writer, written>>
vars      == <<routeVars, queueVars, fileVars, service>>

Nowhere == "none"
Message == [number : 1 .. MaxMessages, kind : {"fresh", "late", "noise"},
            route : Routes, partition : Partitions]
ASSUME IncomingAssumption == Incoming \subseteq Message

\* None in both queues.
Marker == [number |-> 0, kind |-> "stop", route |-> Nowhere, partition |-> Nowhere]
Nothing == [Marker EXCEPT !.kind = "noise"]
IsEvent(m) == m.kind \in {"fresh", "late"}

\* A session; `dead' is a task that an exception has ended.
Unborn == [pc |-> "ended", attempt |-> 0, held |-> Nothing]
Started == [Unborn EXCEPT !.pc = "connecting"]
Dead == [Unborn EXCEPT !.pc = "dead"]
Connected(r) == session[r].pc \in {"receiving", "putting"}

NoEvents == [p \in Partitions |-> << >>]

Init ==
  /\ session = [r \in Routes |-> Unborn] /\ status = [r \in Routes |-> "disconnected"]
  /\ delivered = 0
  /\ queue = << >> /\ accepted = NoEvents /\ consumer = [pc |-> "get", message |-> Nothing]
  /\ writerQueue = << >> /\ written = NoEvents
  /\ writer = [pc |-> "get", batch |-> << >>, done |-> {}, stopping |-> FALSE]
  /\ service = [pc |-> "running", reporter |-> "running"]

Session(r, next) == session' = [session EXCEPT ![r] = next]
Reports(r, s) == status' = [status EXCEPT ![r] = s]

-----------------------------------------------------------------------------
(* RoutedWebSocketSession._run and _receive_forever.                         *)

Connect(r) ==
  /\ session[r].pc = "connecting"
  /\ Session(r, [Started EXCEPT !.pc = "receiving"])
  /\ Reports(r, "connected")
  /\ UNCHANGED <<delivered, queueVars, fileVars, service>>

\* The connection is closed and the attempt counted; the next delay doubles.
BackOff(r) ==
  /\ session[r].attempt < MaxAttempt
  /\ Session(r, [session[r] EXCEPT !.pc = "sleeping", !.attempt = @ + 1])
  /\ Reports(r, "disconnected")
  /\ UNCHANGED <<delivered, queueVars, fileVars, service>>

ConnectFails(r) == session[r].pc = "connecting" /\ BackOff(r)
ConnectionLost(r) == session[r].pc = "receiving" /\ BackOff(r)

\* An exception inside a handler ends the task: close() raises, or the delay is
\* computed from a power of two that no float holds.
SessionDies(r) ==
  /\ Connected(r) \/ (session[r].pc = "connecting" /\ session[r].attempt = MaxAttempt)
  /\ Session(r, Dead)
  /\ Reports(r, "disconnected")
  /\ UNCHANGED <<delivered, queueVars, fileVars, service>>

\* The clause for asyncio.timeout's TimeoutError also takes the one of an opening
\* handshake that took too long.
ConnectTimesOut(r) ==
  /\ session[r].pc = "connecting"
  /\ Reports(r, "disconnected")
  /\ UNCHANGED <<session, delivered, queueVars, fileVars, service>>

\* The rotation; a message that waits for the queue is lost with it.
Rotate(r) ==
  /\ Connected(r)
  /\ Session(r, [session[r] EXCEPT !.pc = "connecting", !.held = Nothing])
  /\ Reports(r, "disconnected")
  /\ UNCHANGED <<delivered, queueVars, fileVars, service>>

Wake(r) ==
  /\ session[r].pc = "sleeping"
  /\ Session(r, [session[r] EXCEPT !.pc = "connecting"])
  /\ UNCHANGED <<status, delivered, queueVars, fileVars, service>>

Receive(r) ==
  /\ session[r].pc = "receiving"
  /\ \E m \in Incoming :
       /\ m.number = delivered + 1 /\ m.route = r
       /\ Session(r, [session[r] EXCEPT !.pc = "putting", !.held = m])
  /\ UNCHANGED <<status, delivered, queueVars, fileVars, service>>

\* A message gets its number when the queue takes it; other routes may have been first.
Put(r) ==
  /\ session[r].pc = "putting" /\ Len(queue) < QueueSize /\ delivered < MaxMessages
  /\ delivered' = delivered + 1
  /\ LET m == [session[r].held EXCEPT !.number = delivered']
     IN  /\ queue' = Append(queue, m)
         /\ accepted' = IF IsEvent(m) THEN [accepted EXCEPT ![m.partition] = Append(@, m.number)]
                        ELSE accepted
  /\ Session(r, [session[r] EXCEPT !.pc = "receiving", !.held = Nothing])
  /\ UNCHANGED <<status, consumer, fileVars, service>>

SessionStep(r) ==
  \/ Connect(r) \/ ConnectFails(r) \/ ConnectionLost(r) \/ ConnectTimesOut(r)
  \/ SessionDies(r) \/ Rotate(r) \/ Wake(r) \/ Receive(r) \/ Put(r)

-----------------------------------------------------------------------------
(* RealtimeMarketDataService._consume and _report_health.                    *)

Consumer(pc, message) == consumer' = [pc |-> pc, message |-> message]

\* MarketDataHealth.observe, whatever the status of the route was.
Observe(m) == Reports(m.route, IF m.kind = "late" THEN "degraded" ELSE "healthy")

Take ==
  /\ consumer.pc = "get" /\ queue # << >> /\ queue' = Tail(queue)
  /\ LET m == Head(queue)
     IN  CASE m.kind = "stop"  -> Consumer("ended", Nothing) /\ UNCHANGED status
           [] m.kind = "noise" -> Consumer("get", Nothing) /\ UNCHANGED status
           [] OTHER            -> Consumer("write", m) /\ Observe(m)
  /\ UNCHANGED <<session, delivered, accepted, fileVars, service>>

\* ParquetEventWriter.write
Write ==
  /\ consumer.pc = "write" /\ Len(writerQueue) < 2 * BatchSize
  /\ writerQueue' = Append(writerQueue, consumer.message)
  /\ Consumer("listen", Nothing)
  /\ UNCHANGED <<routeVars, queue, accepted, writer, written, service>>

\* The listeners; an exception of theirs ends the task.
Listen ==
  /\ consumer.pc = "listen"
  /\ Consumer("get", Nothing) \/ Consumer("dead", Nothing)
  /\ UNCHANGED <<routeVars, queue, accepted, fileVars, service>>

\* evaluate_staleness, for a route that has been silent too long.
Silence(r) ==
  /\ service.reporter = "running"
  /\ status[r] \in {"connected", "healthy"} /\ Reports(r, "degraded")
  /\ UNCHANGED <<session, delivered, queueVars, fileVars, service>>

\* record_health raises.
ReporterFails ==
  /\ service.reporter = "running" /\ service' = [service EXCEPT !.reporter = "dead"]
  /\ UNCHANGED <<routeVars, queueVars, fileVars>>

-----------------------------------------------------------------------------
(* ParquetEventWriter._run and _flush.                                       *)

EventOf(p, m) == IsEvent(m) /\ m.partition = p

\* The numbers of the events of a partition among some messages, in order.
Numbers(p, messages) ==
  LET N[i \in 0 .. Len(messages)] ==
        IF i = 0 THEN << >>
        ELSE IF EventOf(p, messages[i]) THEN Append(N[i - 1], messages[i].number)
        ELSE N[i - 1]
  IN  N[Len(messages)]

Writer(pc, batch, stopping) ==
  writer' = [pc |-> pc, batch |-> batch, done |-> {}, stopping |-> stopping]

\* Mutant: the marker is not told apart from the end of the flush interval.
TakeMarkerAsTimeout ==
  /\ writer.pc = "get" /\ writerQueue # << >> /\ writerQueue' = Tail(writerQueue)
  /\ LET m == Head(writerQueue)
         batch == Append(writer.batch, m)
     IN  IF m.kind = "stop"
         THEN Writer(IF writer.batch = << >> THEN "get" ELSE "flush", writer.batch, FALSE)
         ELSE Writer(IF Len(batch) < BatchSize THEN "get" ELSE "flush", batch, FALSE)
  /\ UNCHANGED <<routeVars, queueVars, written, service>>

\* Mutant: the batch is flushed when it is larger than its size.
TakeOneMore ==
  /\ writer.pc = "get" /\ writerQueue # << >> /\ writerQueue' = Tail(writerQueue)
  /\ LET m == Head(writerQueue)
         batch == Append(writer.batch, m)
     IN  IF m.kind = "stop"
         THEN Writer(IF writer.batch = << >> THEN "ended" ELSE "flush", writer.batch, TRUE)
         ELSE Writer(IF Len(batch) <= BatchSize THEN "get" ELSE "flush", batch, FALSE)
  /\ UNCHANGED <<routeVars, queueVars, written, service>>

TakeEvent ==
  /\ writer.pc = "get" /\ writerQueue # << >> /\ writerQueue' = Tail(writerQueue)
  /\ LET m == Head(writerQueue)
         batch == Append(writer.batch, m)
     IN  IF m.kind = "stop"
         THEN Writer(IF writer.batch = << >> THEN "ended" ELSE "flush", writer.batch, TRUE)
         ELSE Writer(IF Len(batch) < BatchSize THEN "get" ELSE "flush", batch, FALSE)
  /\ UNCHANGED <<routeVars, queueVars, written, service>>

\* Mutant: only a full batch is flushed.
FlushWhenFull ==
  /\ writer.pc = "get" /\ Len(writer.batch) = BatchSize
  /\ Writer("flush", writer.batch, FALSE)
  /\ UNCHANGED <<routeVars, queueVars, writerQueue, written, service>>

FlushDue ==
  /\ writer.pc = "get" /\ writer.batch # << >>
  /\ Writer("flush", writer.batch, FALSE)
  /\ UNCHANGED <<routeVars, queueVars, writerQueue, written, service>>

\* The partitions of a batch are written in turn, in the order of their first events,
\* each with all its events; the queues go on meanwhile.
FlushPartition ==
  /\ writer.pc = "flush"
  /\ \E i \in 1 .. Len(writer.batch) :
       LET p == writer.batch[i].partition
       IN  /\ p \notin writer.done
           /\ \A j \in 1 .. i - 1 : writer.batch[j].partition \in writer.done
           /\ written' = [written EXCEPT ![p] = @ \o Numbers(p, writer.batch)]
           /\ writer' = [writer EXCEPT !.done = @ \cup {p}]
  /\ UNCHANGED <<routeVars, queueVars, writerQueue, service>>

Flushed == \A i \in 1 .. Len(writer.batch) : writer.batch[i].partition \in writer.done

\* Mutant: the batch is kept after the flush.
FlushKeepsBatch ==
  /\ writer.pc = "flush" /\ Flushed
  /\ Writer(IF writer.stopping THEN "ended" ELSE "get", writer.batch, FALSE)
  /\ UNCHANGED <<routeVars, queueVars, writerQueue, written, service>>

EndFlush ==
  /\ writer.pc = "flush" /\ Flushed
  /\ Writer(IF writer.stopping THEN "ended" ELSE "get", << >>, FALSE)
  /\ UNCHANGED <<routeVars, queueVars, writerQueue, written, service>>

\* An exception ends the task, before the next partition's file or behind the last
\* one; a file cut short is not counted as written.
FlushFails ==
  /\ writer.pc = "flush"
  /\ writer' = [writer EXCEPT !.pc = "dead", !.stopping = FALSE]
  /\ UNCHANGED <<routeVars, queueVars, writerQueue, written, service>>

-----------------------------------------------------------------------------
(* RealtimeMarketDataService.update_symbols and stop.                        *)

Service(pc) == service' = [service EXCEPT !.pc = pc]

\* The candidates changed: update_symbols stops every session first.
BeginUpdate ==
  /\ service.pc = "running" /\ Service("updating")
  /\ UNCHANGED <<routeVars, queueVars, fileVars>>

\* RoutedWebSocketSession.stop: cancelled at the await it is at, and closed.
StopSession(r) ==
  /\ service.pc \in {"updating", "sessions"} /\ session[r].pc \notin {"ended", "dead"}
  /\ Session(r, Unborn)
  /\ UNCHANGED <<status, delivered, queueVars, fileVars, service>>

\* stop() raises the exception of a task that has died, or that of close().
StopRaises(r) == session[r].pc = "dead" \/ Connected(r)

\* gather passes the first exception on; the other sessions have been cancelled by
\* then.  The service has forgotten the old sessions and goes on without any.
UpdateFails(r) ==
  /\ service.pc = "updating" /\ StopRaises(r) /\ Service("running")
  /\ session' = [o \in Routes |-> Unborn]
  /\ UNCHANGED <<status, delivered, queueVars, fileVars>>

\* In stop() nothing that follows is done: no marker is put and no batch flushed.
StopFails(r) ==
  /\ service.pc = "sessions" /\ StopRaises(r) /\ Service("raised")
  /\ session' = [o \in Routes |-> IF o = r THEN Dead ELSE Unborn]
  /\ UNCHANGED <<status, delivered, queueVars, fileVars>>

EndSession(r) == StopSession(r) \/ UpdateFails(r) \/ StopFails(r)

SessionsEnded == \A r \in Routes : session[r].pc = "ended"

\* New sessions, unless there are no candidates, or the scanner's task that runs
\* the update has been cancelled for the shutdown.
EndUpdate ==
  /\ service.pc = "updating" /\ SessionsEnded
  /\ Service("running")
  /\ session' \in {session, [r \in Routes |-> Started]}
  /\ UNCHANGED <<status, delivered, queueVars, fileVars>>

BeginStop ==
  /\ service.pc = "running" /\ Service("sessions")
  /\ UNCHANGED <<routeVars, queueVars, fileVars>>

\* Mutant: the marker does not wait for the sessions.
PutMarkerAtOnce ==
  /\ service.pc = "sessions" /\ Len(queue) < QueueSize
  /\ queue' = Append(queue, Marker) /\ Service("consumer")
  /\ UNCHANGED <<routeVars, accepted, consumer, fileVars>>

PutMarker ==
  /\ service.pc = "sessions" /\ SessionsEnded /\ Len(queue) < QueueSize
  /\ queue' = Append(queue, Marker) /\ Service("consumer")
  /\ UNCHANGED <<routeVars, accepted, consumer, fileVars>>

\* The exception of a dead task is raised where it is awaited.
AwaitConsumer ==
  /\ service.pc = "consumer" /\ consumer.pc \in {"ended", "dead"}
  /\ Service(IF consumer.pc = "ended" THEN "reporter" ELSE "raised")
  /\ UNCHANGED <<routeVars, queueVars, fileVars>>

\* The reporter is cancelled unless it is dead.
AwaitReporter ==
  /\ service.pc = "reporter"
  /\ \/ service.reporter = "dead" /\ Service("raised")
     \/ /\ service.reporter = "running"
        /\ service' = [service EXCEPT !.pc = "writerMarker", !.reporter = "cancelled"]
  /\ UNCHANGED <<routeVars, queueVars, fileVars>>

PutWriterMarker ==
  /\ service.pc = "writerMarker" /\ Len(writerQueue) < 2 * BatchSize
  /\ writerQueue' = Append(writerQueue, Marker) /\ Service("writer")
  /\ UNCHANGED <<routeVars, queueVars, writer, written>>

\* Mutant: stop does not wait for the writer.
AwaitNoWriter ==
  /\ service.pc = "writer" /\ Service("stopped")
  /\ UNCHANGED <<routeVars, queueVars, fileVars>>

AwaitWriter ==
  /\ service.pc = "writer" /\ writer.pc \in {"ended", "dead"}
  /\ Service(IF writer.pc = "ended" THEN "stopped" ELSE "raised")
  /\ UNCHANGED <<routeVars, queueVars, fileVars>>

-----------------------------------------------------------------------------
ConsumerStep == Take \/ Write \/ Listen
WriterStep == TakeEvent \/ FlushDue \/ FlushPartition \/ EndFlush \/ FlushFails
StopStep == PutMarker \/ AwaitConsumer \/ AwaitReporter \/ PutWriterMarker \/ AwaitWriter
Next ==
  \/ \E r \in Routes : SessionStep(r) \/ Silence(r) \/ EndSession(r)
  \/ ReporterFails \/ ConsumerStep \/ WriterStep \/ StopStep
  \/ BeginUpdate \/ EndUpdate \/ BeginStop
Spec == Init /\ [][Next]_vars

\* The event loop runs every task that is ready.
LiveSpec ==
  /\ Spec
  /\ WF_vars(ConsumerStep) /\ WF_vars(WriterStep) /\ WF_vars(StopStep)
  /\ \A r \in Routes : WF_vars(EndSession(r))

-----------------------------------------------------------------------------
(* Properties.                                                               *)

\* Type invariant, with the limits of both queues and of the batch.
TypeOK ==
  /\ session \in [Routes -> [pc : {"ended", "dead", "connecting", "receiving", "putting",
                                   "sleeping"},
                             attempt : 0 .. MaxAttempt, held : Message \cup {Nothing}]]
  /\ status \in [Routes -> {"disconnected", "connected", "healthy", "degraded"}]
  /\ delivered \in 0 .. MaxMessages /\ accepted \in [Partitions -> Seq(1 .. MaxMessages)]
  /\ queue \in Seq(Message \cup {Marker}) /\ Len(queue) <= QueueSize
  /\ consumer \in [pc : {"get", "write", "listen", "ended", "dead"},
                   message : Message \cup {Nothing}]
  /\ writerQueue \in Seq(Message \cup {Marker}) /\ Len(writerQueue) <= 2 * BatchSize
  /\ writer \in [pc : {"get", "flush", "ended", "dead"}, batch : Seq(Message),
                 done : SUBSET Partitions, stopping : BOOLEAN]
  /\ Len(writer.batch) <= BatchSize /\ written \in [Partitions -> Seq(1 .. MaxMessages)]
  /\ service \in [pc : {"running", "updating", "sessions", "consumer", "reporter",
                        "writerMarker", "writer", "stopped", "raised"},
                  reporter : {"running", "cancelled", "dead"}]

\* What a flush under way, or one that has failed, has not written of a partition.
Unflushed(p) == IF p \in writer.done THEN << >> ELSE Numbers(p, writer.batch)

\* _consume, _run and _flush: whatever fails or stops, also between two partitions of a
\* batch, each event that the queue accepted is in one place, none is written twice,
\* and the files of each date and symbol keep the order of their events.
EventsInOrder ==
  \A p \in Partitions :
    written[p] \o Unflushed(p) \o Numbers(p, writerQueue)
      \o Numbers(p, <<consumer.message>>) \o Numbers(p, queue) = accepted[p]

\* RealtimeMarketDataService.stop: nothing enters a queue behind its marker, from
\* sessions that still run, an update of the candidates or the consumer, and no session
\* is at work once the marker is put or the stop has raised.
NothingBehindMarker ==
  /\ \A i \in 1 .. Len(queue) : queue[i] = Marker => i = Len(queue)
  /\ \A i \in 1 .. Len(writerQueue) : writerQueue[i] = Marker => i = Len(writerQueue)
  /\ service.pc \notin {"running", "updating", "sessions"} =>
       \A r \in Routes : session[r].pc \in {"ended", "dead"}

\* RealtimeMarketDataService.stop: whatever the queues hold when it begins, a shutdown
\* returns, or it raises what ended a session (or its close) or the reporter; only the
\* death of the consumer or the writer can make it raise later or wait for ever.
StopEnds ==
  service.pc = "sessions" ~>
    \/ service.pc = "stopped"
    \/ /\ service.pc = "raised"
       /\ service.reporter = "dead" \/ \E r \in Routes : session[r].pc = "dead"
    \/ consumer.pc = "dead" \/ writer.pc = "dead"

\* _consume and _run: as long as an accepted event is not in a file the files keep
\* growing, whether it fills a batch, waits for the flush interval or is in a queue
\* when the service stops; only the death of the consumer or the writer, or a stop that
\* raises, ends that.
FilesNeverStall ==
  \/ []<>(\/ written = accepted \/ service.pc = "raised"
         \/ consumer.pc = "dead" \/ writer.pc = "dead")
  \/ []<><<written' # written>>_vars

Log == INSTANCE EventLog WITH
  Events <- 1 .. MaxMessages, log <- accepted, stored <- written,
  closed <- service.pc = "stopped"

\* The pipeline implements the event log: accepted events are stored once and in the
\* order of their partition, also by a flush that fails between two partitions, and a
\* normal stop comes after the last of them and before no other.
ImplementsLog == Log!Spec

=============================================================================
