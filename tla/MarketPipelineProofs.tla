-------------------------- MODULE MarketPipelineProofs --------------------------
(***************************************************************************)
(* Proofs about MarketPipeline, for any routes, sizes of the queues and the   *)
(* batch, and any number of messages.                                         *)
(***************************************************************************)
EXTENDS MarketPipeline, SequenceTheorems, Induction

-----------------------------------------------------------------------------
(* Numbers: what it does to a queue that grows or shrinks by a message.       *)

Messages == Message \cup {Marker, Nothing}

\* N counts the events of partition p in s up to each position.
Counts(N, p, s) ==
  /\ N[0] = << >>
  /\ \A i \in 1 .. Len(s) :
       N[i] = IF EventOf(p, s[i]) THEN Append(N[i - 1], s[i].number) ELSE N[i - 1]

LEMMA MessageTypes ==
  \A m \in Messages : m.number \in Nat /\ (m \in Message => m.number \in 1 .. MaxMessages)
BY PipelineAssumption DEF Messages, Message, Marker, Nothing

LEMMA CountsUnique ==
  ASSUME NEW p, NEW s \in Seq(Messages), NEW F, NEW G, Counts(F, p, s), Counts(G, p, s)
  PROVE  \A i \in 0 .. Len(s) : F[i] = G[i]
<1> DEFINE S == {i \in 0 .. Len(s) : F[i] = G[i]}
<1>1. 0 \in S
  BY DEF Counts
<1>2. ASSUME NEW i \in 1 .. Len(s), i - 1 \in S PROVE i \in S
  BY <1>2 DEF Counts
<1>3. \A i \in 0 .. Len(s) : i \in S
  <2>1. Len(s) \in Nat
    OBVIOUS
  <2> HIDE DEF S
  <2> QED BY <1>1, <1>2, <2>1, IntervalInduction
<1> QED BY <1>3

LEMMA NumbersCounted ==
  ASSUME NEW p, NEW s \in Seq(Messages)
  PROVE  \E N : /\ Counts(N, p, s) /\ N[Len(s)] = Numbers(p, s)
                /\ \A i \in 0 .. Len(s) : N[i] \in Seq(Nat)
<1> DEFINE n == Len(s)
           step == [i \in 1 .. n |-> [v \in Seq(Nat) |->
                      IF EventOf(p, s[i]) THEN Append(v, s[i].number) ELSE v]]
           Is(N) == N = [i \in 0 .. Len(s) |->
                           IF i = 0 THEN << >>
                           ELSE IF EventOf(p, s[i]) THEN Append(N[i - 1], s[i].number)
                           ELSE N[i - 1]]
<1>1. n \in Nat /\ << >> \in Seq(Nat) /\ \A i \in 1 .. n : s[i] \in Messages
  OBVIOUS
<1>2. step \in [1 .. n -> [Seq(Nat) -> Seq(Nat)]]
  <2>1. ASSUME NEW i \in 1 .. n, NEW v \in Seq(Nat)
        PROVE  (IF EventOf(p, s[i]) THEN Append(v, s[i].number) ELSE v) \in Seq(Nat)
    <3>1. s[i].number \in Nat
      BY <1>1, MessageTypes
    <3> QED BY <3>1
  <2> QED BY <2>1
<1>3. \E F : Is(F)
  <2>1. PICK F \in [0 .. n -> Seq(Nat)] : Iterates(F, n, << >>, step)
    <3> HIDE DEF step, n
    <3> QED BY <1>1, <1>2, IterationExists
  <2>2. ASSUME NEW i \in 0 .. n
        PROVE  F[i] = IF i = 0 THEN << >>
                      ELSE IF EventOf(p, s[i]) THEN Append(F[i - 1], s[i].number)
                      ELSE F[i - 1]
    <3>1. i # 0 => i - 1 \in 0 .. n /\ i \in 1 .. n /\ F[i - 1] \in Seq(Nat)
      OBVIOUS
    <3>2. F[i] = IF i = 0 THEN << >> ELSE step[i][F[i - 1]]
      BY <2>1 DEF Iterates
    <3> QED BY <3>1, <3>2
  <2>3. Is(F)
    BY <2>1, <2>2
  <2> QED BY <2>3
<1> DEFINE N == CHOOSE F : Is(F)
<1>4. Is(N)
  <2> HIDE DEF Is
  <2> QED BY <1>3
<1> HIDE DEF N, step
<1>5. Counts(N, p, s)
  <2>1. N[0] = << >>
    BY <1>1, <1>4
  <2>2. ASSUME NEW i \in 1 .. Len(s)
        PROVE  N[i] = IF EventOf(p, s[i]) THEN Append(N[i - 1], s[i].number) ELSE N[i - 1]
    <3>1. i \in 0 .. Len(s) /\ i # 0
      BY <1>1
    <3> QED BY <1>4, <3>1, Zenon
  <2> QED BY <2>1, <2>2 DEF Counts
<1>6. Numbers(p, s) = N[Len(s)]
  BY DEF Numbers, N
<1>7. \A i \in 0 .. Len(s) : N[i] \in Seq(Nat)
  <2> HIDE DEF Is, n
  <2> DEFINE S == {i \in 0 .. Len(s) : N[i] \in Seq(Nat)}
  <2>1. 0 \in S
    <3>1. 0 \in 0 .. Len(s) /\ << >> \in Seq(Nat)
      OBVIOUS
    <3> QED BY <3>1, <1>5 DEF Counts
  <2>2. ASSUME NEW i \in 1 .. Len(s), i - 1 \in S PROVE i \in S
    <3>1. s[i].number \in Nat /\ i \in 0 .. Len(s)
      BY MessageTypes
    <3>2. N[i] = IF EventOf(p, s[i]) THEN Append(N[i - 1], s[i].number) ELSE N[i - 1]
      BY <1>5 DEF Counts
    <3>3. N[i - 1] \in Seq(Nat)
      BY <2>2
    <3>4. N[i] \in Seq(Nat)
      BY <3>1, <3>2, <3>3
    <3> QED BY <3>1, <3>4
  <2>3. \A i \in 0 .. Len(s) : i \in S
    <3>1. Len(s) \in Nat
      OBVIOUS
    <3> HIDE DEF S
    <3> QED BY <2>1, <2>2, <3>1, IntervalInduction
  <2> QED BY <2>3
<1> QED BY <1>5, <1>6, <1>7

LEMMA NumbersType ==
  ASSUME NEW p, NEW s \in Seq(Messages)
  PROVE  Numbers(p, s) \in Seq(Nat)
BY NumbersCounted

\* Nothing of a partition is in a queue without its messages.
LEMMA NumbersNone ==
  ASSUME NEW p, NEW s \in Seq(Messages), \A i \in 1 .. Len(s) : s[i].partition # p
  PROVE  Numbers(p, s) = << >>
<1>1. PICK N : Counts(N, p, s) /\ N[Len(s)] = Numbers(p, s)
  BY NumbersCounted
<1> DEFINE S == {i \in 0 .. Len(s) : N[i] = << >>}
<1>2. 0 \in S /\ Len(s) \in Nat
  BY <1>1 DEF Counts
<1>3. ASSUME NEW i \in 1 .. Len(s), i - 1 \in S PROVE i \in S
  BY <1>1, <1>3 DEF Counts, EventOf
<1>4. \A i \in 0 .. Len(s) : i \in S
  <2> HIDE DEF S
  <2> QED BY <1>2, <1>3, IntervalInduction
<1> QED BY <1>1, <1>2, <1>4

LEMMA NumbersOfEvents ==
  ASSUME NEW p, NEW s \in Seq(Message)
  PROVE  Numbers(p, s) \in Seq(1 .. MaxMessages)
<1> DEFINE Numbered == Seq(1 .. MaxMessages)
<1>1. /\ s \in Seq(Messages) /\ << >> \in Numbered
      /\ \A v \in Numbered, n \in 1 .. MaxMessages : Append(v, n) \in Numbered
  BY DEF Messages
<1>2. PICK N : Counts(N, p, s) /\ N[Len(s)] = Numbers(p, s)
  BY <1>1, NumbersCounted
<1> HIDE DEF Numbered
<1> DEFINE S == {i \in 0 .. Len(s) : N[i] \in Numbered}
<1>3. 0 \in S /\ Len(s) \in Nat
  BY <1>1, <1>2 DEF Counts
<1>4. ASSUME NEW i \in 1 .. Len(s), i - 1 \in S PROVE i \in S
  <2>1. s[i] \in Message /\ N[i - 1] \in Numbered /\ i \in 0 .. Len(s)
    BY <1>4
  <2>2. s[i].number \in 1 .. MaxMessages
    BY <2>1 DEF Message
  <2>3. N[i] = IF EventOf(p, s[i]) THEN Append(N[i - 1], s[i].number) ELSE N[i - 1]
    BY <1>2 DEF Counts
  <2>4. N[i] \in Numbered
    BY <1>1, <2>1, <2>2, <2>3
  <2> QED BY <2>1, <2>4
<1>5. \A i \in 0 .. Len(s) : i \in S
  <2> HIDE DEF S
  <2> QED BY <1>3, <1>4, IntervalInduction
<1> QED BY <1>2, <1>3, <1>5 DEF Numbered

LEMMA NumbersEmpty == ASSUME NEW p PROVE Numbers(p, << >>) = << >>
<1>1. << >> \in Seq(Messages) /\ \A i \in 1 .. Len(<< >>) : << >>[i].partition # p
  OBVIOUS
<1> QED BY <1>1, NumbersNone

LEMMA NumbersAppend ==
  ASSUME NEW p, NEW s \in Seq(Messages), NEW m \in Messages
  PROVE  Numbers(p, Append(s, m)) =
           IF EventOf(p, m) THEN Append(Numbers(p, s), m.number) ELSE Numbers(p, s)
<1> DEFINE t == Append(s, m)
<1>1. t \in Seq(Messages) /\ Len(t) = Len(s) + 1 /\ t[Len(s) + 1] = m /\ Len(s) \in Nat
      /\ \A i \in 1 .. Len(s) : t[i] = s[i]
  OBVIOUS
<1> HIDE DEF t
<1>2. PICK N : Counts(N, p, t) /\ N[Len(t)] = Numbers(p, t)
  BY <1>1, NumbersCounted
<1>3. PICK O : Counts(O, p, s) /\ O[Len(s)] = Numbers(p, s)
  BY NumbersCounted
<1>4. Counts(N, p, s)
  <2>1. ASSUME NEW i \in 1 .. Len(s)
        PROVE  N[i] = IF EventOf(p, s[i]) THEN Append(N[i - 1], s[i].number) ELSE N[i - 1]
    <3>1. i \in 1 .. Len(t) /\ t[i] = s[i]
      BY <1>1
    <3> QED BY <1>2, <3>1 DEF Counts
  <2> QED BY <1>2, <2>1 DEF Counts
<1>5. N[Len(s)] = Numbers(p, s)
  <2>1. \A i \in 0 .. Len(s) : N[i] = O[i]
    BY <1>3, <1>4, CountsUnique
  <2> QED BY <1>1, <1>3, <2>1
<1>6. N[Len(s) + 1] = IF EventOf(p, m) THEN Append(N[Len(s)], m.number) ELSE N[Len(s)]
  <2>1. Len(s) + 1 \in 1 .. Len(t) /\ (Len(s) + 1) - 1 = Len(s)
    BY <1>1
  <2> QED BY <1>1, <1>2, <2>1 DEF Counts
<1> QED BY <1>1, <1>2, <1>5, <1>6 DEF t

LEMMA NumbersOne ==
  ASSUME NEW p, NEW m \in Messages
  PROVE  Numbers(p, <<m>>) = IF EventOf(p, m) THEN <<m.number>> ELSE << >>
<1>1. << >> \in Seq(Messages) /\ Append(<< >>, m) = <<m>>
  OBVIOUS
<1>2. Append(<< >>, m.number) = <<m.number>>
  OBVIOUS
<1> QED BY <1>1, <1>2, NumbersAppend, NumbersEmpty

LEMMA ConcatAppend ==
  \A s, t \in Seq(Nat), d \in Nat : s \o Append(t, d) = Append(s \o t, d)
<1> TAKE s, t \in Seq(Nat), d \in Nat
<1>1. s \o t \in Seq(Nat) /\ <<d>> \in Seq(Nat)
  BY ConcatProperties
<1>2. Append(s \o t, d) = (s \o t) \o <<d>> /\ Append(t, d) = t \o <<d>>
  BY <1>1, AppendIsConcat
<1>3. (s \o t) \o <<d>> = s \o (t \o <<d>>)
  BY <1>1, ConcatAssociative
<1> QED BY <1>2, <1>3

LEMMA NumbersTail ==
  ASSUME NEW p, NEW s \in Seq(Messages), s # << >>
  PROVE  Numbers(p, s) = Numbers(p, <<Head(s)>>) \o Numbers(p, Tail(s))
<1> DEFINE t == Tail(s)
           h == Numbers(p, <<Head(s)>>)
<1>1. t \in Seq(Messages) /\ Len(s) = Len(t) + 1 /\ s[1] = Head(s) /\ Len(t) \in Nat
      /\ Head(s) \in Messages /\ \A i \in 1 .. Len(t) : t[i] = s[i + 1]
  OBVIOUS
<1>2. h = (IF EventOf(p, Head(s)) THEN <<Head(s).number>> ELSE << >>) /\ h \in Seq(Nat)
  <2>1. Head(s).number \in Nat
    BY <1>1, MessageTypes
  <2>2. h = IF EventOf(p, Head(s)) THEN <<Head(s).number>> ELSE << >>
    BY <1>1, NumbersOne
  <2> HIDE DEF h
  <2>3. << >> \in Seq(Nat) /\ <<Head(s).number>> \in Seq(Nat)
    BY <2>1
  <2> QED BY <2>2, <2>3
<1> HIDE DEF t, h
<1>3. PICK N : Counts(N, p, s) /\ N[Len(s)] = Numbers(p, s)
  BY NumbersCounted
<1>4. PICK O : /\ Counts(O, p, t) /\ O[Len(t)] = Numbers(p, t)
               /\ \A i \in 0 .. Len(t) : O[i] \in Seq(Nat)
  BY <1>1, NumbersCounted
<1> DEFINE S == {i \in 0 .. Len(t) : N[i + 1] = h \o O[i]}
<1>5. 0 \in S
  <2>1. N[1] = IF EventOf(p, s[1]) THEN Append(N[0], s[1].number) ELSE N[0]
    <3>1. 1 \in 1 .. Len(s) /\ 1 - 1 = 0
      BY <1>1
    <3> QED BY <1>3, <3>1 DEF Counts
  <2>2. N[1] = h
    BY <2>1, <1>1, <1>2, <1>3 DEF Counts
  <2>3. h \o O[0] = h
    BY <1>2, <1>4 DEF Counts
  <2> QED BY <1>1, <2>2, <2>3
<1>6. ASSUME NEW i \in 1 .. Len(t), i - 1 \in S PROVE i \in S
  <2>1. i + 1 \in 1 .. Len(s) /\ t[i] = s[i + 1] /\ (i + 1) - 1 = i /\ t[i] \in Messages
    BY <1>1
  <2>2. N[i + 1] = IF EventOf(p, t[i]) THEN Append(N[i], t[i].number) ELSE N[i]
    BY <2>1, <1>3 DEF Counts
  <2>3. N[i] = h \o O[i - 1]
    BY <1>6
  <2>4. O[i] = IF EventOf(p, t[i]) THEN Append(O[i - 1], t[i].number) ELSE O[i - 1]
    BY <1>4 DEF Counts
  <2>5. O[i - 1] \in Seq(Nat) /\ t[i].number \in Nat
    BY <1>1, <1>4, <2>1, MessageTypes
  <2>6. h \o Append(O[i - 1], t[i].number) = Append(h \o O[i - 1], t[i].number)
    BY <1>2, <2>5, ConcatAppend
  <2>7. N[i + 1] = h \o O[i]
    BY <2>2, <2>3, <2>4, <2>6
  <2> QED BY <1>1, <2>7
<1>7. \A i \in 0 .. Len(t) : i \in S
  <2> HIDE DEF S
  <2> QED BY <1>1, <1>5, <1>6, IntervalInduction
<1>8. N[Len(t) + 1] = h \o O[Len(t)]
  BY <1>1, <1>7
<1> QED BY <1>1, <1>3, <1>4, <1>8 DEF h, t
-----------------------------------------------------------------------------
(* The inductive invariants.                                                  *)

\* What sessions, consumer and the writer's queue hold: a message only between its
\* receipt and the put and between _queue.get and the write, nothing but events and the
\* marker goes to the writer, and a full batch is flushed before the next event, to none
\* of whose partitions a file has been written.
HandsInv ==
  /\ \A r \in Routes : session[r].pc = "putting" => session[r].held \in Message
  /\ consumer.pc = "write" => consumer.message \in Message /\ IsEvent(consumer.message)
  /\ consumer.pc # "write" => consumer.message = Nothing
  /\ \A i \in 1 .. Len(writerQueue) : writerQueue[i] = Marker \/ IsEvent(writerQueue[i])
  /\ writer.pc = "get" => Len(writer.batch) < BatchSize /\ writer.done = {}

\* A shutdown, from the sessions to the files: what has ended has nothing behind it.
BeforeMarker == service.pc \in {"running", "updating", "sessions"}

AtRest(r) == session[r].pc \in {"ended", "dead"}

SessionsInv == BeforeMarker \/ \A r \in Routes : AtRest(r)
QueueInv ==
  /\ \A i \in 1 .. Len(queue) : queue[i] = Marker => i = Len(queue) /\ ~BeforeMarker
  /\ consumer.pc = "ended" => queue = << >> /\ ~BeforeMarker
  /\ service.pc \in {"reporter", "writerMarker", "writer", "stopped"} => consumer.pc = "ended"
WriterInv ==
  /\ \A i \in 1 .. Len(writerQueue) :
       writerQueue[i] = Marker =>
         i = Len(writerQueue) /\ consumer.pc = "ended" /\ service.pc \in {"writer", "raised"}
  /\ writer.stopping \/ writer.pc = "ended" =>
       writerQueue = << >> /\ consumer.pc = "ended" /\ service.pc \in {"writer", "stopped", "raised"}
  /\ writer.pc = "ended" => writer.batch = << >>
  /\ service.pc = "stopped" => writer.pc = "ended"
StopInv == SessionsInv /\ QueueInv /\ WriterInv

\* The events are told apart by their numbers: the next one is none of theirs.
Accepted == UNION {{accepted[p][i] : i \in 1 .. Len(accepted[p])} : p \in Partitions}
NumberInv == \A n \in Accepted : n <= delivered

-----------------------------------------------------------------------------
(* The type invariant, by the parts that an action changes together.          *)

SessionPcs == {"ended", "dead", "connecting", "receiving", "putting", "sleeping"}
Sessions == [pc : SessionPcs, attempt : 0 .. MaxAttempt, held : Message \cup {Nothing}]
Statuses == {"disconnected", "connected", "healthy", "degraded"}
ServicePcs == {"running", "updating", "sessions", "consumer", "reporter", "writerMarker",
               "writer", "stopped", "raised"}

RouteTypes ==
  /\ session \in [Routes -> Sessions]
  /\ status \in [Routes -> Statuses] /\ delivered \in 0 .. MaxMessages
QueueTypes ==
  /\ accepted \in [Partitions -> Seq(1 .. MaxMessages)]
  /\ queue \in Seq(Message \cup {Marker}) /\ Len(queue) <= QueueSize
  /\ consumer \in [pc : {"get", "write", "listen", "ended", "dead"},
                   message : Message \cup {Nothing}]
FileTypes ==
  /\ writerQueue \in Seq(Message \cup {Marker}) /\ Len(writerQueue) <= 2 * BatchSize
  /\ writer \in [pc : {"get", "flush", "ended", "dead"}, batch : Seq(Message),
                 done : SUBSET Partitions, stopping : BOOLEAN]
  /\ Len(writer.batch) <= BatchSize /\ written \in [Partitions -> Seq(1 .. MaxMessages)]
ServiceType == service \in [pc : ServicePcs,
                            reporter : {"running", "cancelled", "dead"}]

LEMMA TypeParts ==
  /\ TypeOK <=> RouteTypes /\ QueueTypes /\ FileTypes /\ ServiceType
  /\ TypeOK' <=> RouteTypes' /\ QueueTypes' /\ FileTypes' /\ ServiceType'
BY DEF TypeOK, RouteTypes, QueueTypes, FileTypes, ServiceType, Sessions, SessionPcs,
  Statuses, ServicePcs

LEMMA QuietTypes ==
  /\ RouteTypes /\ UNCHANGED routeVars => RouteTypes'
  /\ QueueTypes /\ UNCHANGED queueVars => QueueTypes'
  /\ FileTypes /\ UNCHANGED fileVars => FileTypes'
  /\ ServiceType /\ UNCHANGED service => ServiceType'
BY DEF RouteTypes, QueueTypes, FileTypes, ServiceType, routeVars, queueVars, fileVars

LEMMA Constants ==
  /\ QueueSize \in Nat /\ QueueSize > 0 /\ BatchSize \in Nat /\ BatchSize > 0
  /\ MaxAttempt \in Nat /\ MaxMessages \in Nat
BY PipelineAssumption

\* Messages and markers are told apart by their kind.
LEMMA Kinds ==
  /\ Marker \notin Message /\ Nothing \notin Message /\ Marker # Nothing
  /\ ~IsEvent(Marker) /\ ~IsEvent(Nothing)
  /\ \A m \in Message : m.kind \in {"fresh", "late", "noise"} /\ m # Marker /\ m # Nothing
  /\ \A m \in Messages : m.kind = "stop" <=> m = Marker
BY DEF Messages, Message, Marker, Nothing, IsEvent

\* The steps that leave both queues alone.
UpdateStep ==
  \/ \E r \in Routes : Silence(r) \/ EndSession(r)
  \/ ReporterFails \/ BeginUpdate \/ EndUpdate \/ BeginStop

LEMMA Steps ==
  Next <=> \/ \E r \in Routes : SessionStep(r)
           \/ ConsumerStep \/ WriterStep \/ StopStep \/ UpdateStep
BY DEF Next, UpdateStep

\* What the steps leave alone.
LEMMA SessionFrame ==
  ASSUME NEW r, SessionStep(r)
  PROVE  UNCHANGED <<consumer, fileVars, service>> /\ (Put(r) \/ UNCHANGED queueVars)
BY DEF SessionStep, Connect, ConnectFails, ConnectionLost, ConnectTimesOut, BackOff, SessionDies,
  Rotate, Wake, Receive, Put, queueVars

LEMMA Frames ==
  /\ ConsumerStep => UNCHANGED <<session, delivered, accepted, writer, written, service>>
  /\ WriterStep => UNCHANGED <<routeVars, queueVars, service>>
  /\ StopStep => UNCHANGED <<routeVars, accepted, consumer, writer, written>>
  /\ UpdateStep => UNCHANGED <<delivered, queueVars, fileVars>>
<1>1. ConsumerStep => UNCHANGED <<session, delivered, accepted, writer, written, service>>
  BY DEF ConsumerStep, Take, Write, Listen, routeVars, fileVars
<1>2. WriterStep => UNCHANGED <<routeVars, queueVars, service>>
  BY DEF WriterStep, TakeEvent, FlushDue, FlushPartition, EndFlush, FlushFails
<1>3. StopStep => UNCHANGED <<routeVars, accepted, consumer, writer, written>>
  BY DEF StopStep, PutMarker, AwaitConsumer, AwaitReporter, PutWriterMarker, AwaitWriter,
    queueVars, fileVars
<1>4. UpdateStep => UNCHANGED <<delivered, queueVars, fileVars>>
  BY DEF UpdateStep, Silence, EndSession, StopSession, UpdateFails, StopFails, ReporterFails,
    BeginUpdate, EndUpdate, BeginStop, routeVars
<1> QED BY <1>1, <1>2, <1>3, <1>4

LEMMA SessionTypes ==
  ASSUME RouteTypes, NEW r \in Routes, NEW s \in Sessions, Session(r, s),
         UNCHANGED delivered, status' \in [Routes -> Statuses]
  PROVE  RouteTypes'
BY DEF RouteTypes, Session

LEMMA NewSessions ==
  /\ Unborn \in Sessions /\ Unborn.pc = "ended"
  /\ Started \in Sessions /\ Started.pc = "connecting"
  /\ Dead \in Sessions /\ Dead.pc = "dead"
<1>1. 0 \in 0 .. MaxAttempt
  BY Constants
<1>2. Unborn \in Sessions /\ Unborn.pc = "ended"
  BY <1>1 DEF Unborn, Sessions, SessionPcs
<1> QED BY <1>2 DEF Started, Dead, Sessions, SessionPcs

\* A step of a session leaves it without a message, unless it has received one.
LEMMA SessionBecomes ==
  ASSUME session \in [Routes -> Sessions], NEW r \in Routes, SessionStep(r)
  PROVE  \/ UNCHANGED session
         \/ \E s : Session(r, s) /\ s.pc # "putting"
         \/ \E m \in Message : \E s : Session(r, s) /\ s.pc = "putting" /\ s.held = m
<1>1. session[r] \in Sessions /\ Started \in Sessions
  BY NewSessions
<1>2. CASE Receive(r)
  <2>1. PICK m \in Message : Session(r, [session[r] EXCEPT !.pc = "putting", !.held = m])
    BY <1>2, IncomingAssumption DEF Receive
  <2> DEFINE s == [session[r] EXCEPT !.pc = "putting", !.held = m]
  <2>2. s.pc = "putting" /\ s.held = m
    BY <1>1 DEF Sessions
  <2> QED BY <1>2, <2>1, <2>2
<1>3. CASE ConnectFails(r) \/ ConnectionLost(r)
  <2> DEFINE s == [session[r] EXCEPT !.pc = "sleeping", !.attempt = @ + 1]
  <2>1. s.pc # "putting" /\ Session(r, s)
    BY <1>1, <1>3 DEF ConnectFails, ConnectionLost, BackOff, Sessions
  <2> QED BY <2>1
<1>4. CASE Connect(r)
  <2> DEFINE s == [Started EXCEPT !.pc = "receiving"]
  <2>1. s.pc # "putting" /\ Session(r, s)
    BY <1>1, <1>4 DEF Connect, Sessions
  <2> QED BY <2>1
<1>5. CASE Rotate(r) \/ Put(r)
  <2>1. PICK pc \in {"connecting", "receiving"} :
           Session(r, [session[r] EXCEPT !.pc = pc, !.held = Nothing])
    BY <1>5 DEF Rotate, Put
  <2> DEFINE s == [session[r] EXCEPT !.pc = pc, !.held = Nothing]
  <2>2. s.pc # "putting"
    BY <1>1 DEF Sessions
  <2> QED BY <2>1, <2>2
<1>6. CASE Wake(r)
  <2> DEFINE s == [session[r] EXCEPT !.pc = "connecting"]
  <2>1. s.pc # "putting" /\ Session(r, s)
    BY <1>1, <1>6 DEF Wake, Sessions
  <2> QED BY <2>1
<1>7. CASE SessionDies(r)
  BY <1>7, NewSessions DEF SessionDies
<1> QED BY <1>2, <1>3, <1>4, <1>5, <1>6, <1>7 DEF SessionStep, ConnectTimesOut

\* An update or a stop leaves a session as it is, or without a message.
LEMMA SessionsEnd ==
  ASSUME session \in [Routes -> Sessions], UpdateStep
  PROVE  \A r \in Routes : session'[r] = session[r] \/ session'[r].pc # "putting"
<1>1. Unborn.pc # "putting" /\ Started.pc # "putting" /\ Dead.pc # "putting"
  BY NewSessions
<1>2. ASSUME NEW r \in Routes, EndSession(r)
      PROVE  \A o \in Routes : session'[o] = session[o] \/ session'[o].pc # "putting"
  BY <1>1, <1>2 DEF EndSession, StopSession, UpdateFails, StopFails, Session
<1>3. CASE EndUpdate
  BY <1>1, <1>3 DEF EndUpdate
<1> QED BY <1>2, <1>3 DEF UpdateStep, Silence, ReporterFails, BeginUpdate, BeginStop, routeVars

\* What a put appends is the message the session holds, with the next number.
LEMMA PutMessage ==
  ASSUME RouteTypes, HandsInv, NEW r \in Routes, Put(r)
  PROVE  \E h \in Message :
           /\ h.number = delivered + 1 /\ h.kind = session[r].held.kind
           /\ queue' = Append(queue, h)
           /\ accepted' = IF IsEvent(h) THEN [accepted EXCEPT ![h.partition] = Append(@, h.number)]
                          ELSE accepted
<1> DEFINE h == [session[r].held EXCEPT !.number = delivered + 1]
<1>1. session[r].held \in Message /\ delivered + 1 \in 1 .. MaxMessages
  BY Constants DEF Put, HandsInv, RouteTypes
<1>2. h \in Message /\ h.number = delivered + 1 /\ h.kind = session[r].held.kind
  BY <1>1 DEF Message
<1>3. /\ queue' = Append(queue, h)
      /\ accepted' = IF IsEvent(h) THEN [accepted EXCEPT ![h.partition] = Append(@, h.number)]
                     ELSE accepted
  BY DEF Put
<1> QED BY <1>2, <1>3

LEMMA SessionStepTypes ==
  ASSUME RouteTypes, QueueTypes, HandsInv, NEW r \in Routes, SessionStep(r)
  PROVE  RouteTypes' /\ QueueTypes'
<1> USE Constants
<1>1. session[r] \in Sessions /\ status \in [Routes -> Statuses]
  BY DEF RouteTypes
<1>2. Started \in Sessions
  BY NewSessions
<1>3. \A s \in Statuses : Reports(r, s) => status' \in [Routes -> Statuses]
  BY <1>1 DEF Reports
<1>4. CASE ConnectFails(r) \/ ConnectionLost(r)
  <2>1. BackOff(r)
    BY <1>4 DEF ConnectFails, ConnectionLost
  <2> DEFINE s == [session[r] EXCEPT !.pc = "sleeping", !.attempt = @ + 1]
  <2>2. s \in Sessions
    <3> DEFINE n == session[r].attempt + 1
    <3>1. n \in 0 .. MaxAttempt
      BY <1>1, <2>1 DEF Sessions, BackOff
    <3>2. s = [session[r] EXCEPT !.pc = "sleeping", !.attempt = n]
      OBVIOUS
    <3> HIDE DEF n, s
    <3> QED BY <1>1, <3>1, <3>2 DEF Sessions, SessionPcs
  <2>3. Session(r, s) /\ Reports(r, "disconnected") /\ UNCHANGED <<delivered, queueVars>>
    BY <2>1 DEF BackOff
  <2> QED BY <2>2, <2>3, <1>3, SessionTypes, QuietTypes DEF Statuses
<1>5. CASE Connect(r)
  <2> DEFINE s == [Started EXCEPT !.pc = "receiving"]
  <2>1. s \in Sessions
    BY <1>2 DEF Sessions, SessionPcs
  <2> QED BY <2>1, <1>3, <1>5, SessionTypes, QuietTypes DEF Connect, Statuses
<1>6. CASE ConnectTimesOut(r)
  BY <1>3, <1>6, QuietTypes DEF ConnectTimesOut, RouteTypes, Statuses
<1>7. CASE Rotate(r) \/ SessionDies(r)
  <2>1. PICK s \in {[session[r] EXCEPT !.pc = "connecting", !.held = Nothing], Dead} : Session(r, s)
    BY <1>7 DEF Rotate, SessionDies
  <2>2. s \in Sessions
    BY <1>1, <2>1, NewSessions DEF Sessions, SessionPcs
  <2>3. Reports(r, "disconnected") /\ UNCHANGED <<delivered, queueVars>>
    BY <1>7 DEF Rotate, SessionDies
  <2> QED BY <2>1, <2>2, <2>3, <1>3, SessionTypes, QuietTypes DEF Statuses
<1>8. CASE Wake(r)
  <2> DEFINE s == [session[r] EXCEPT !.pc = "connecting"]
  <2>1. s \in Sessions
    BY <1>1 DEF Sessions, SessionPcs
  <2> QED BY <2>1, <1>1, <1>8, SessionTypes, QuietTypes DEF Wake
<1>9. CASE Receive(r)
  <2>1. PICK m \in Message : Session(r, [session[r] EXCEPT !.pc = "putting", !.held = m])
    BY <1>9, IncomingAssumption DEF Receive
  <2> DEFINE s == [session[r] EXCEPT !.pc = "putting", !.held = m]
  <2>2. s \in Sessions
    BY <1>1 DEF Sessions, SessionPcs
  <2> HIDE DEF s
  <2> QED BY <1>1, <1>9, <2>1, <2>2, SessionTypes, QuietTypes DEF Receive, s
<1>10. CASE Put(r)
  <2> DEFINE s == [session[r] EXCEPT !.pc = "receiving", !.held = Nothing]
  <2>1. s \in Sessions
    BY <1>1 DEF Sessions, SessionPcs
  <2>2. delivered' \in 0 .. MaxMessages
    BY <1>10 DEF Put, RouteTypes
  <2> HIDE DEF s
  <2>3. RouteTypes'
    BY <2>1, <2>2, <1>10 DEF Put, RouteTypes, Session, s
  <2>4. PICK h \in Message :
          /\ queue' = Append(queue, h)
          /\ accepted' = IF IsEvent(h) THEN [accepted EXCEPT ![h.partition] = Append(@, h.number)]
                         ELSE accepted
    BY <1>10, PutMessage
  <2>5. queue' \in Seq(Message \cup {Marker}) /\ Len(queue') <= QueueSize
    BY <1>10, <2>4 DEF Put, QueueTypes
  <2>6. accepted' \in [Partitions -> Seq(1 .. MaxMessages)]
    <3>1. h.number \in 1 .. MaxMessages /\ h.partition \in Partitions
      BY DEF Message
    <3>2. Append(accepted[h.partition], h.number) \in Seq(1 .. MaxMessages)
      BY <3>1 DEF QueueTypes
    <3> QED BY <2>4, <3>2 DEF QueueTypes
  <2> QED BY <1>10, <2>3, <2>5, <2>6 DEF QueueTypes, Put
<1> QED BY <1>4, <1>5, <1>6, <1>7, <1>8, <1>9, <1>10 DEF SessionStep

LEMMA HeadOfMessages ==
  \A s \in Seq(Message \cup {Marker}) : s # << >> =>
    /\ Head(s) \in Message \cup {Marker} /\ Head(s) = s[1]
    /\ Tail(s) \in Seq(Message \cup {Marker}) /\ Len(Tail(s)) = Len(s) - 1
    /\ Len(s) >= 1 /\ \A i \in 1 .. Len(Tail(s)) : Tail(s)[i] = s[i + 1]
OBVIOUS

LEMMA AppendMessages ==
  \A s \in Seq(Message \cup {Marker}), m \in Message \cup {Marker} :
    /\ Append(s, m) \in Seq(Message \cup {Marker}) /\ Len(Append(s, m)) = Len(s) + 1
    /\ Append(s, m)[Len(s) + 1] = m
    /\ \A i \in 1 .. Len(s) + 1 : Append(s, m)[i] = IF i = Len(s) + 1 THEN m ELSE s[i]
OBVIOUS

LEMMA ConsumerStepTypes ==
  ASSUME TypeOK, HandsInv, ConsumerStep
  PROVE  TypeOK'
<1> USE TypeParts, Constants
<1>1. CASE Take
  <2>1. /\ queue # << >> /\ queue' = Tail(queue)
        /\ UNCHANGED <<session, delivered, accepted, fileVars, service>>
    BY <1>1 DEF Take
  <2>2. Head(queue) \in Message \cup {Marker} /\ queue' \in Seq(Message \cup {Marker})
        /\ Len(queue') <= QueueSize
    BY <2>1, HeadOfMessages DEF QueueTypes
  <2>3. /\ consumer' \in [pc : {"get", "write", "listen", "ended", "dead"},
                          message : Message \cup {Nothing}]
        /\ status' \in [Routes -> Statuses]
    <3>1. \/ Consumer("ended", Nothing) /\ UNCHANGED status
          \/ Consumer("get", Nothing) /\ UNCHANGED status
          \/ Head(queue).kind # "stop" /\ Consumer("write", Head(queue)) /\ Observe(Head(queue))
      BY <1>1 DEF Take
    <3>2. Head(queue).kind # "stop" => Head(queue) \in Message
      BY <2>2, Kinds DEF Messages
    <3>3. Head(queue) \in Message /\ Observe(Head(queue)) => status' \in [Routes -> Statuses]
      BY DEF Observe, Reports, Message, RouteTypes, Statuses
    <3> QED BY <3>1, <3>2, <3>3 DEF Consumer, RouteTypes
  <2>4. RouteTypes' /\ QueueTypes'
    BY <2>1, <2>2, <2>3 DEF RouteTypes, QueueTypes
  <2> QED BY <2>1, <2>4, QuietTypes
<1>2. CASE Write
  <2>1. consumer.message \in Message
    BY <1>2 DEF Write, HandsInv
  <2>2. FileTypes'
    <3>1. writerQueue' \in Seq(Message \cup {Marker}) /\ Len(writerQueue') <= 2 * BatchSize
      BY <1>2, <2>1 DEF Write, FileTypes
    <3> QED BY <1>2, <3>1 DEF Write, FileTypes
  <2>3. QueueTypes'
    BY <1>2 DEF Write, QueueTypes, Consumer
  <2> QED BY <1>2, <2>2, <2>3, QuietTypes DEF Write
<1>3. CASE Listen
  <2>1. QueueTypes'
    BY <1>3 DEF Listen, QueueTypes, Consumer
  <2> QED BY <1>3, <2>1, QuietTypes DEF Listen
<1> QED BY <1>1, <1>2, <1>3 DEF ConsumerStep

LEMMA WriterStepTypes ==
  ASSUME TypeOK, HandsInv, WriterStep
  PROVE  TypeOK'
<1> USE TypeParts, Constants
<1> DEFINE Batches == {b \in Seq(Message) : Len(b) <= BatchSize}
<1>0. writer.batch \in Batches /\ written \in [Partitions -> Seq(1 .. MaxMessages)]
  BY DEF FileTypes
<1>1. UNCHANGED <<routeVars, queueVars, service>>
  BY Frames
<1>2. ASSUME NEW pc \in {"get", "flush", "ended", "dead"}, NEW b \in Batches,
             NEW stopping \in BOOLEAN, Writer(pc, b, stopping), UNCHANGED written,
             writerQueue' \in Seq(Message \cup {Marker}), Len(writerQueue') <= 2 * BatchSize
      PROVE  TypeOK'
  <2>1. FileTypes'
    BY <1>2 DEF FileTypes, Writer
  <2> QED BY <1>1, <2>1, QuietTypes
<1>3. CASE TakeEvent
  <2>1. /\ writerQueue # << >> /\ writerQueue' = Tail(writerQueue) /\ written' = written
        /\ writer.pc = "get"
    BY <1>3 DEF TakeEvent
  <2>2. Head(writerQueue) \in Message \cup {Marker} /\ writerQueue' \in Seq(Message \cup {Marker})
        /\ Len(writerQueue') <= 2 * BatchSize
    BY <2>1, HeadOfMessages DEF FileTypes
  <2> DEFINE b == Append(writer.batch, Head(writerQueue))
  <2>3. \/ \E pc \in {"ended", "flush"} : Writer(pc, writer.batch, TRUE)
        \/ Head(writerQueue).kind # "stop" /\ Len(b) < BatchSize /\ Writer("get", b, FALSE)
        \/ Head(writerQueue).kind # "stop" /\ ~(Len(b) < BatchSize) /\ Writer("flush", b, FALSE)
    BY <1>3 DEF TakeEvent
  <2>4. Head(writerQueue).kind # "stop" => Head(writerQueue) \in Message
    BY <2>2, Kinds DEF Messages
  <2>5. Head(writerQueue).kind # "stop" => b \in Seq(Message) /\ Len(b) = Len(writer.batch) + 1
    BY <2>4, <1>0
  <2>6. Head(writerQueue).kind # "stop" => b \in Batches
    BY <1>0, <2>1, <2>5 DEF HandsInv
  <2> HIDE DEF b, Batches
  <2> QED BY <1>0, <1>2, <2>1, <2>2, <2>3, <2>6
<1>4. CASE FlushDue
  <2>1. Writer("flush", writer.batch, FALSE) /\ UNCHANGED <<writerQueue, written>>
    BY <1>4 DEF FlushDue
  <2> QED BY <1>0, <1>2, <2>1 DEF FileTypes
<1>5. CASE FlushPartition
  <2>1. PICK i \in 1 .. Len(writer.batch) :
          /\ written' = [written EXCEPT ![writer.batch[i].partition] =
                            @ \o Numbers(writer.batch[i].partition, writer.batch)]
          /\ writer' = [writer EXCEPT !.done = @ \cup {writer.batch[i].partition}]
          /\ UNCHANGED writerQueue
    BY <1>5 DEF FlushPartition
  <2> DEFINE p == writer.batch[i].partition
             n == Numbers(p, writer.batch)
  <2>2. p \in Partitions
    <3>1. writer.batch[i] \in Message
      BY <1>0
    <3> QED BY <3>1 DEF Message
  <2>3. n \in Seq(1 .. MaxMessages)
    BY <1>0, NumbersOfEvents
  <2> HIDE DEF p, n
  <2>4. written[p] \o n \in Seq(1 .. MaxMessages)
    BY <1>0, <2>2, <2>3
  <2>5. written' \in [Partitions -> Seq(1 .. MaxMessages)]
    BY <1>0, <2>1, <2>4 DEF p, n
  <2>6. FileTypes'
    BY <2>1, <2>2, <2>5 DEF FileTypes, p
  <2> QED BY <1>1, <2>6, QuietTypes
<1>6. CASE EndFlush
  <2>1. PICK pc \in {"ended", "get"} : Writer(pc, << >>, FALSE)
    BY <1>6 DEF EndFlush
  <2>2. << >> \in Batches /\ UNCHANGED <<writerQueue, written>>
    BY <1>6 DEF EndFlush
  <2> QED BY <1>2, <2>1, <2>2 DEF FileTypes
<1>7. CASE FlushFails
  <2>1. FileTypes'
    BY <1>7 DEF FlushFails, FileTypes
  <2> QED BY <1>1, <2>1, QuietTypes
<1> QED BY <1>3, <1>4, <1>5, <1>6, <1>7 DEF WriterStep

LEMMA StopStepTypes ==
  ASSUME TypeOK, StopStep
  PROVE  TypeOK'
<1> USE TypeParts, Constants
<1>1. ServiceType'
  BY DEF StopStep, PutMarker, AwaitConsumer, AwaitReporter, PutWriterMarker, AwaitWriter,
    Service, ServiceType, ServicePcs
<1>2. UNCHANGED routeVars
  BY Frames
<1>3. CASE PutMarker
  <2>1. QueueTypes'
    BY <1>3 DEF PutMarker, QueueTypes
  <2> QED BY <1>1, <1>2, <1>3, <2>1, QuietTypes DEF PutMarker
<1>4. CASE PutWriterMarker
  <2>1. FileTypes'
    BY <1>4 DEF PutWriterMarker, FileTypes
  <2> QED BY <1>1, <1>2, <1>4, <2>1, QuietTypes DEF PutWriterMarker
<1>5. CASE AwaitConsumer \/ AwaitReporter \/ AwaitWriter
  BY <1>1, <1>2, <1>5, QuietTypes DEF AwaitConsumer, AwaitReporter, AwaitWriter
<1> QED BY <1>3, <1>4, <1>5 DEF StopStep

LEMMA UpdateTypes ==
  ASSUME TypeOK, UpdateStep
  PROVE  TypeOK'
<1> USE TypeParts, Constants
<1>1. UNCHANGED <<delivered, queueVars, fileVars>>
  BY Frames
<1>2. /\ Started \in Sessions /\ Unborn \in Sessions /\ Dead \in Sessions
  BY NewSessions
<1>3. ASSUME NEW r \in Routes, Silence(r) PROVE TypeOK'
  BY <1>1, <1>3, QuietTypes DEF Silence, Reports, RouteTypes, Statuses
<1>4. ASSUME NEW r \in Routes, EndSession(r) PROVE TypeOK'
  <2>1. session' \in [Routes -> Sessions] /\ UNCHANGED status
    BY <1>2, <1>4 DEF EndSession, StopSession, UpdateFails, StopFails, Session, RouteTypes
  <2>2. ServiceType'
    BY <1>4 DEF EndSession, StopSession, UpdateFails, StopFails, Service, ServiceType, ServicePcs
  <2> QED BY <1>1, <2>1, <2>2, QuietTypes DEF RouteTypes
<1>5. CASE BeginUpdate \/ BeginStop \/ ReporterFails
  <2>1. ServiceType'
    BY <1>5 DEF BeginUpdate, BeginStop, ReporterFails, Service, ServiceType, ServicePcs
  <2> QED BY <1>1, <1>5, <2>1, QuietTypes DEF BeginUpdate, BeginStop, ReporterFails
<1>6. CASE EndUpdate
  <2>1. ServiceType'
    BY <1>6 DEF EndUpdate, Service, ServiceType, ServicePcs
  <2>2. RouteTypes'
    BY <1>2, <1>6 DEF EndUpdate, RouteTypes
  <2> QED BY <1>1, <2>1, <2>2, QuietTypes
<1> QED BY <1>3, <1>4, <1>5, <1>6 DEF UpdateStep

LEMMA InitTypes ==
  ASSUME Init
  PROVE  TypeOK /\ HandsInv
<1> USE Constants
<1>1. RouteTypes
  <2>1. 0 \in 0 .. MaxAttempt /\ 0 \in 0 .. MaxMessages
    OBVIOUS
  <2> QED BY <2>1, NewSessions DEF Init, RouteTypes, Statuses
<1>2. QueueTypes
  BY DEF Init, QueueTypes, NoEvents
<1>3. FileTypes
  <2>1. writer = [pc |-> "get", batch |-> << >>, done |-> {}, stopping |-> FALSE]
    BY DEF Init
  <2> QED BY <2>1 DEF Init, FileTypes, NoEvents
<1>4. ServiceType
  BY DEF Init, ServiceType, ServicePcs
<1>5. HandsInv
  <2>1. \A r \in Routes : session[r].pc # "putting"
    BY DEF Init, Unborn
  <2> QED BY <2>1 DEF Init, HandsInv
<1> QED BY <1>1, <1>2, <1>3, <1>4, <1>5, TypeParts

LEMMA HandsKept ==
  ASSUME TypeOK, HandsInv, Next
  PROVE  HandsInv'
<1> USE TypeParts, Constants
<1> DEFINE Sess == \A r \in Routes : session[r].pc = "putting" => session[r].held \in Message
           Cons == /\ consumer.pc = "write" => consumer.message \in Message /\ IsEvent(consumer.message)
                   /\ consumer.pc # "write" => consumer.message = Nothing
           Files == /\ \A i \in 1 .. Len(writerQueue) :
                         writerQueue[i] = Marker \/ IsEvent(writerQueue[i])
                    /\ writer.pc = "get" => Len(writer.batch) < BatchSize /\ writer.done = {}
<1>0. Sess /\ Cons /\ Files /\ (Sess' /\ Cons' /\ Files' => HandsInv')
  BY DEF HandsInv
<1>1. /\ UNCHANGED session => Sess'
      /\ UNCHANGED consumer => Cons'
      /\ UNCHANGED <<writerQueue, writer>> => Files'
  BY <1>0
<1>2. ASSUME NEW r \in Routes, SessionStep(r) PROVE HandsInv'
  <2>1. UNCHANGED <<consumer, writerQueue, writer>>
    BY <1>2, SessionFrame DEF fileVars
  <2>2. \A s : Session(r, s) /\ (s.pc = "putting" => s.held \in Message) => Sess'
    BY <1>0 DEF Session, RouteTypes
  <2>3. Sess'
    BY <1>1, <1>2, <2>2, SessionBecomes DEF RouteTypes
  <2> QED BY <1>0, <1>1, <2>1, <2>3
<1>3. CASE ConsumerStep
  <2>1. UNCHANGED <<session, writer>>
    BY <1>3, Frames
  <2>2. CASE Take
    <3>1. Head(queue) \in Message \cup {Marker}
      BY <2>2, HeadOfMessages DEF Take, QueueTypes
    <3>2. \/ Consumer("ended", Nothing) \/ Consumer("get", Nothing)
          \/ Head(queue).kind \notin {"stop", "noise"} /\ Consumer("write", Head(queue))
      BY <2>2 DEF Take
    <3>3. Head(queue).kind \notin {"stop", "noise"} => Head(queue) \in Message /\ IsEvent(Head(queue))
      BY <3>1, Kinds DEF Messages, IsEvent
    <3>4. Cons'
      BY <3>2, <3>3 DEF Consumer
    <3> QED BY <1>0, <1>1, <2>1, <2>2, <3>4 DEF Take, fileVars
  <2>3. CASE Write
    <3>1. IsEvent(consumer.message) /\ consumer.message \in Message
          /\ writerQueue' = Append(writerQueue, consumer.message)
      BY <2>3, <1>0 DEF Write
    <3>2. \A i \in 1 .. Len(writerQueue') : writerQueue'[i] = Marker \/ IsEvent(writerQueue'[i])
      BY <1>0, <3>1 DEF FileTypes
    <3>3. Cons'
      BY <2>3 DEF Write, Consumer
    <3> QED BY <1>0, <2>1, <1>1, <3>2, <3>3
  <2>4. CASE Listen
    <3>1. Cons'
      BY <2>4 DEF Listen, Consumer
    <3> QED BY <1>0, <1>1, <2>1, <2>4, <3>1 DEF Listen, fileVars
  <2> QED BY <1>3, <2>2, <2>3, <2>4 DEF ConsumerStep
<1>4. CASE WriterStep
  <2>1. UNCHANGED <<session, consumer>>
    BY <1>4, Frames DEF routeVars, queueVars
  <2>2. \A i \in 1 .. Len(writerQueue') : writerQueue'[i] = Marker \/ IsEvent(writerQueue'[i])
    <3>1. CASE TakeEvent
      <4>1. /\ writerQueue' = Tail(writerQueue)
            /\ \A i \in 1 .. Len(Tail(writerQueue)) : Tail(writerQueue)[i] = writerQueue[i + 1]
            /\ Len(Tail(writerQueue)) = Len(writerQueue) - 1
        BY <3>1, HeadOfMessages DEF TakeEvent, FileTypes
      <4> QED BY <4>1, <1>0 DEF FileTypes
    <3>2. CASE ~TakeEvent
      BY <1>0, <1>4, <3>2 DEF WriterStep, FlushDue, FlushPartition, EndFlush, FlushFails
    <3> QED BY <3>1, <3>2
  <2>3. writer'.pc = "get" => Len(writer'.batch) < BatchSize /\ writer'.done = {}
    <3>1. CASE TakeEvent \/ FlushDue \/ EndFlush
      BY <3>1 DEF TakeEvent, FlushDue, EndFlush, Writer
    <3>2. CASE FlushPartition \/ FlushFails
      <4>1. writer'.pc # "get"
        BY <3>2 DEF FlushPartition, FlushFails, FileTypes
      <4> QED BY <4>1
    <3> QED BY <1>4, <3>1, <3>2 DEF WriterStep
  <2> QED BY <1>0, <1>1, <2>1, <2>2, <2>3
<1>5. CASE StopStep
  <2>1. UNCHANGED <<session, consumer, writer>>
    BY <1>5, Frames DEF routeVars
  <2>2. \A i \in 1 .. Len(writerQueue') : writerQueue'[i] = Marker \/ IsEvent(writerQueue'[i])
    <3>1. writerQueue' = writerQueue \/ writerQueue' = Append(writerQueue, Marker)
      BY <1>5 DEF StopStep, PutMarker, AwaitConsumer, AwaitReporter, PutWriterMarker, AwaitWriter,
        fileVars
    <3>2. writerQueue \in Seq(Message \cup {Marker})
      BY DEF FileTypes
    <3> QED BY <1>0, <3>1, <3>2, AppendMessages
  <2> QED BY <1>0, <1>1, <2>1, <2>2
<1>6. CASE UpdateStep
  <2>1. UNCHANGED <<queueVars, fileVars>>
    BY <1>6, Frames
  <2>2. \A r \in Routes : session'[r] = session[r] \/ session'[r].pc # "putting"
    BY <1>6, SessionsEnd DEF RouteTypes
  <2> QED BY <1>0, <1>1, <2>1, <2>2 DEF queueVars, fileVars
<1> QED BY <1>2, <1>3, <1>4, <1>5, <1>6, Steps

LEMMA TypeStep ==
  ASSUME TypeOK, HandsInv, [Next]_vars
  PROVE  TypeOK' /\ HandsInv'
<1>1. CASE Next
  <2>1. ASSUME NEW r \in Routes, SessionStep(r) PROVE TypeOK'
    <3>1. UNCHANGED <<fileVars, service>>
      BY <2>1, SessionFrame
    <3> QED BY <2>1, <3>1, SessionStepTypes, QuietTypes, TypeParts
  <2> QED BY <1>1, <2>1, ConsumerStepTypes, WriterStepTypes, StopStepTypes, UpdateTypes,
        HandsKept, Steps
<1>2. CASE UNCHANGED vars
  <2>1. TypeOK'
    BY <1>2, TypeParts, QuietTypes DEF vars
  <2> QED BY <1>2, <2>1 DEF vars, routeVars, queueVars, fileVars, HandsInv
<1> QED BY <1>1, <1>2

\* The pipeline's variables keep their types, and both queues and the batch their limits:
\* asyncio.Queue(maxsize), _run's batch.
THEOREM PipelineTypeCorrect == Spec => []TypeOK
<1>1. Spec => [](TypeOK /\ HandsInv)
  BY InitTypes, TypeStep, PTL DEF Spec
<1> QED BY <1>1, PTL

-----------------------------------------------------------------------------
(* The order of the events.                                                   *)

\* A name that keeps the provers from looking into the sequences.
NumberSeq == Seq(Nat)

LEMMA ConcatType == \A s, t \in NumberSeq : s \o t \in NumberSeq
BY ConcatProperties DEF NumberSeq

LEMMA ConcatNothing == \A s \in NumberSeq : s \o << >> = s /\ << >> \o s = s
BY ConcatEmptySeq DEF NumberSeq

LEMMA ConcatAssoc == \A s, t, u \in NumberSeq : (s \o t) \o u = s \o (t \o u)
BY ConcatAssociative DEF NumberSeq

\* The events in the files, in the batch, in the writer's queue, in the consumer's hand
\* and in the queue.
Joined(a, b, c, h, q) == a \o b \o c \o h \o q

\* The ways in which an event moves on: to the consumer, to the writer's queue and to
\* the batch.
LEMMA TakeMoves ==
  ASSUME NEW a \in NumberSeq, NEW b \in NumberSeq, NEW c \in NumberSeq, NEW h \in NumberSeq,
         NEW q \in NumberSeq
  PROVE  Joined(a, b, c, << >>, h \o q) = Joined(a, b, c, h, q)
<1> DEFINE f == a \o b \o c
<1>1. f \in NumberSeq
  BY ConcatType
<1> HIDE DEF f
<1>2. f \o << >> = f
  BY <1>1, ConcatNothing
<1>3. (f \o h) \o q = f \o (h \o q)
  BY <1>1, ConcatAssoc
<1> QED BY <1>2, <1>3 DEF f, Joined

LEMMA WriteMoves ==
  ASSUME NEW a \in NumberSeq, NEW b \in NumberSeq, NEW c \in NumberSeq, NEW h \in NumberSeq,
         NEW q \in NumberSeq
  PROVE  Joined(a, b, c \o h, << >>, q) = Joined(a, b, c, h, q)
<1> DEFINE d == a \o b
<1>1. d \in NumberSeq
  BY ConcatType
<1> HIDE DEF d
<1>2. (d \o c) \o h = d \o (c \o h)
  BY <1>1, ConcatAssoc
<1>3. d \o (c \o h) \in NumberSeq
  BY <1>1, ConcatType
<1>4. (d \o (c \o h)) \o << >> = d \o (c \o h)
  BY <1>3, ConcatNothing
<1> QED BY <1>2, <1>4 DEF d, Joined

LEMMA BatchMoves ==
  ASSUME NEW a \in NumberSeq, NEW b \in NumberSeq, NEW c \in NumberSeq, NEW h \in NumberSeq,
         NEW m, NEW q
  PROVE  Joined(a, b \o h, c, m, q) = Joined(a, b, h \o c, m, q)
<1> DEFINE d == a \o b
<1>1. d \in NumberSeq
  BY ConcatType
<1>2. (a \o b) \o h = a \o (b \o h)
  BY ConcatAssoc
<1> HIDE DEF d
<1>3. (d \o h) \o c = d \o (h \o c)
  BY <1>1, ConcatAssoc
<1> QED BY <1>2, <1>3 DEF d, Joined

\* A partition's part of EventsInOrder.
Order(p) ==
  Joined(written[p], Unflushed(p), Numbers(p, writerQueue), Numbers(p, <<consumer.message>>),
         Numbers(p, queue)) = accepted[p]

LEMMA OrderParts ==
  /\ EventsInOrder <=> \A p \in Partitions : Order(p)
  /\ EventsInOrder' <=> \A p \in Partitions : Order(p)'
BY DEF EventsInOrder, Order, Joined

\* Where the events of a partition are.
Places(p) ==
  /\ written[p] \in NumberSeq /\ Unflushed(p) \in NumberSeq /\ accepted[p] \in NumberSeq
  /\ Numbers(p, writer.batch) \in NumberSeq
  /\ Numbers(p, writerQueue) \in NumberSeq /\ Numbers(p, <<consumer.message>>) \in NumberSeq
  /\ Numbers(p, queue) \in NumberSeq

LEMMA QueuesTyped ==
  ASSUME TypeOK
  PROVE  /\ writerQueue \in Seq(Messages) /\ queue \in Seq(Messages)
         /\ writer.batch \in Seq(Messages)
         /\ consumer.message \in Messages /\ <<consumer.message>> \in Seq(Messages)
<1>1. writerQueue \in Seq(Messages) /\ queue \in Seq(Messages) /\ writer.batch \in Seq(Messages)
  BY TypeParts DEF FileTypes, QueueTypes, Messages
<1>2. consumer.message \in Messages
  BY TypeParts DEF QueueTypes, Messages
<1> QED BY <1>1, <1>2

LEMMA PlacesTyped ==
  ASSUME TypeOK, NEW p \in Partitions
  PROVE  Places(p)
<1>1. written[p] \in NumberSeq /\ accepted[p] \in NumberSeq
  <2>1. written[p] \in Seq(1 .. MaxMessages) /\ accepted[p] \in Seq(1 .. MaxMessages)
    BY TypeParts DEF FileTypes, QueueTypes
  <2> QED BY <2>1, Constants DEF NumberSeq
<1>2. << >> \in NumberSeq
  BY DEF NumberSeq
<1> QED BY <1>1, <1>2, QueuesTyped, NumbersType DEF Places, NumberSeq, Unflushed

\* A message in nobody's hands is none.
LEMMA NoMessages ==
  ASSUME NEW p
  PROVE  /\ Marker \in Messages /\ Nothing \in Messages
         /\ ~EventOf(p, Marker) /\ ~EventOf(p, Nothing) /\ Numbers(p, <<Nothing>>) = << >>
<1>1. Marker \in Messages /\ Nothing \in Messages /\ ~EventOf(p, Marker) /\ ~EventOf(p, Nothing)
  BY Kinds DEF Messages, EventOf
<1> QED BY <1>1, NumbersOne

\* A put appends an event to the log of its partition and to no other.
LEMMA PutKeepsOrder ==
  ASSUME TypeOK, HandsInv, NEW r \in Routes, Put(r), NEW p \in Partitions, Order(p)
  PROVE  Order(p)'
<1> DEFINE a == written[p]  b == Unflushed(p)  c == Numbers(p, writerQueue)
           m == Numbers(p, <<consumer.message>>)  q == Numbers(p, queue)
<1>1. Places(p) /\ Joined(a, b, c, m, q) = accepted[p]
  BY PlacesTyped DEF Order
<1>2. /\ UNCHANGED <<consumer, fileVars>>
      /\ \E h \in Message :
           /\ queue' = Append(queue, h)
           /\ accepted' = IF IsEvent(h) THEN [accepted EXCEPT ![h.partition] = Append(@, h.number)]
                          ELSE accepted
  BY PutMessage, TypeParts DEF Put
<1>h. PICK h \in Message :
        /\ queue' = Append(queue, h)
        /\ accepted' = IF IsEvent(h) THEN [accepted EXCEPT ![h.partition] = Append(@, h.number)]
                       ELSE accepted
  BY <1>2
<1>3. h \in Messages /\ h.number \in Nat /\ h.partition \in Partitions
  BY MessageTypes DEF Messages, Message
<1>4. accepted'[p] = IF EventOf(p, h) THEN Append(accepted[p], h.number) ELSE accepted[p]
  BY <1>h, <1>3, TypeParts DEF QueueTypes, EventOf
<1>5. Numbers(p, queue') = IF EventOf(p, h) THEN Append(q, h.number) ELSE q
  BY <1>h, <1>3, QueuesTyped, NumbersAppend
<1>6. Joined(a, b, c, m, Append(q, h.number)) = Append(accepted[p], h.number)
  <2> DEFINE d == a \o b \o c \o m
  <2>1. a \in NumberSeq /\ b \in NumberSeq /\ c \in NumberSeq /\ m \in NumberSeq /\ q \in NumberSeq
    BY <1>1 DEF Places
  <2> HIDE DEF a, b, c, m, q
  <2>2. d \in NumberSeq
    BY <2>1, ConcatType
  <2>3. d \o q = accepted[p]
    BY <1>1 DEF Joined
  <2> HIDE DEF d
  <2>4. d \o Append(q, h.number) = Append(d \o q, h.number)
    BY <2>1, <2>2, <1>3, ConcatAppend DEF NumberSeq
  <2> QED BY <2>3, <2>4 DEF d, Joined
<1>7. Joined(a, b, c, m, Numbers(p, queue')) = accepted'[p]
  BY <1>1, <1>4, <1>5, <1>6
<1> QED BY <1>2, <1>7 DEF Order, Unflushed, fileVars

LEMMA ConsumerKeepsOrder ==
  ASSUME TypeOK, HandsInv, ConsumerStep, NEW p \in Partitions, Order(p)
  PROVE  Order(p)'
<1> DEFINE a == written[p]  b == Unflushed(p)  c == Numbers(p, writerQueue)
           m == Numbers(p, <<consumer.message>>)  q == Numbers(p, queue)
<1>1. Places(p) /\ Joined(a, b, c, m, q) = accepted[p]
  BY PlacesTyped DEF Order
<1>2. a \in NumberSeq /\ b \in NumberSeq /\ c \in NumberSeq /\ m \in NumberSeq /\ q \in NumberSeq
  BY <1>1 DEF Places
<1>3. UNCHANGED <<accepted, writer, written>>
  BY Frames
<1>4. CASE Take
  <2>1. queue # << >> /\ queue' = Tail(queue) /\ UNCHANGED writerQueue /\ m = << >>
    BY <1>4, NoMessages DEF Take, HandsInv, fileVars
  <2>2. Head(queue) \in Message \cup {Marker} /\ Head(queue) \in Messages
    BY <2>1, HeadOfMessages, TypeParts DEF QueueTypes, Messages
  <2>3. consumer'.message = IF IsEvent(Head(queue)) THEN Head(queue) ELSE Nothing
    <3>1. Head(queue).kind = "stop" <=> Head(queue) = Marker
      BY <2>2, Kinds
    <3>2. Head(queue).kind \notin {"stop", "noise"} <=> IsEvent(Head(queue))
      BY <2>2, <3>1, Kinds DEF IsEvent
    <3> QED BY <1>4, <3>2 DEF Take, Consumer
  <2> DEFINE h == Numbers(p, <<Head(queue)>>)
             o == Numbers(p, queue')
  <2>4. Numbers(p, <<consumer'.message>>) = h
    <3>1. CASE IsEvent(Head(queue))
      BY <2>3, <3>1
    <3>2. CASE ~IsEvent(Head(queue))
      <4>1. h = << >>
        BY <2>2, <3>2, NumbersOne DEF EventOf
      <4> QED BY <2>3, <3>2, <4>1, NoMessages
    <3> QED BY <3>1, <3>2
  <2>5. q = h \o o
    BY <2>1, QueuesTyped, NumbersTail
  <2>6. h \in NumberSeq /\ o \in NumberSeq
    <3>1. <<Head(queue)>> \in Seq(Messages) /\ queue' \in Seq(Messages)
      BY <2>1, <2>2, QueuesTyped
    <3> QED BY <3>1, NumbersType DEF NumberSeq
  <2>7. Joined(a, b, c, h, o) = accepted[p]
    <3> HIDE DEF a, b, c, m, q, h, o
    <3>1. Joined(a, b, c, << >>, h \o o) = Joined(a, b, c, h, o)
      BY <1>2, <2>6, TakeMoves
    <3> QED BY <1>1, <2>1, <2>5, <3>1
  <2> QED BY <1>3, <2>1, <2>4, <2>7 DEF Order, Unflushed
<1>5. CASE Write
  <2>1. /\ writerQueue' = Append(writerQueue, consumer.message)
        /\ consumer'.message = Nothing /\ UNCHANGED queue
    BY <1>5 DEF Write, Consumer
  <2>2. /\ Numbers(p, writerQueue') =
             IF EventOf(p, consumer.message) THEN Append(c, consumer.message.number) ELSE c
        /\ m = IF EventOf(p, consumer.message) THEN <<consumer.message.number>> ELSE << >>
        /\ consumer.message.number \in Nat
    BY <2>1, QueuesTyped, NumbersAppend, NumbersOne, MessageTypes
  <2>3. Numbers(p, writerQueue') = c \o m
    <3>1. CASE EventOf(p, consumer.message)
      BY <1>2, <2>2, <3>1, AppendIsConcat DEF NumberSeq
    <3>2. CASE ~EventOf(p, consumer.message)
      BY <1>2, <2>2, <3>2, ConcatNothing
    <3> QED BY <3>1, <3>2
  <2>4. Joined(a, b, c \o m, << >>, q) = accepted[p]
    <3> HIDE DEF a, b, c, m, q
    <3> QED BY <1>1, <1>2, WriteMoves
  <2> QED BY <1>3, <2>1, <2>3, <2>4, NoMessages DEF Order, Unflushed
<1>6. CASE Listen
  <2>1. consumer'.message = consumer.message /\ UNCHANGED <<queue, writerQueue>>
    BY <1>6 DEF Listen, Consumer, HandsInv, fileVars
  <2> QED BY <1>3, <2>1 DEF Order, Unflushed
<1> QED BY <1>4, <1>5, <1>6 DEF ConsumerStep

\* The writer takes an event into its batch, or writes what the batch has of a partition.
LEMMA WriterKeepsOrder ==
  ASSUME TypeOK, HandsInv, WriterStep, NEW p \in Partitions, Order(p)
  PROVE  Order(p)'
<1> DEFINE a == written[p]  b == Unflushed(p)  c == Numbers(p, writerQueue)
           m == Numbers(p, <<consumer.message>>)  q == Numbers(p, queue)
<1>1. Places(p) /\ Joined(a, b, c, m, q) = accepted[p]
  BY PlacesTyped DEF Order
<1>2. a \in NumberSeq /\ b \in NumberSeq /\ c \in NumberSeq /\ m \in NumberSeq /\ q \in NumberSeq
  BY <1>1 DEF Places
<1>3. UNCHANGED queueVars
  BY Frames
<1>4. writer.pc = "get" => b = Numbers(p, writer.batch)
  BY DEF HandsInv, Unflushed
<1>5. CASE TakeEvent
  <2> DEFINE w == Head(writerQueue)
             h == Numbers(p, <<w>>)
             o == Numbers(p, writerQueue')
  <2>1. writerQueue # << >> /\ writerQueue' = Tail(writerQueue) /\ UNCHANGED written
        /\ writer.pc = "get"
    BY <1>5 DEF TakeEvent
  <2>2. writer'.batch = (IF w.kind = "stop" THEN writer.batch ELSE Append(writer.batch, w))
        /\ writer'.done = {}
    <3>1. CASE w.kind = "stop"
      BY <1>5, <3>1 DEF TakeEvent, Writer
    <3>2. CASE w.kind # "stop"
      BY <1>5, <3>2 DEF TakeEvent, Writer
    <3> QED BY <3>1, <3>2
  <2>3. w \in Messages /\ w.number \in Nat /\ (w.kind = "stop" => ~EventOf(p, w))
    <3>1. w \in Messages
      BY <2>1, HeadOfMessages, TypeParts DEF FileTypes, Messages
    <3> QED BY <3>1, MessageTypes DEF EventOf, IsEvent
  <2> HIDE DEF w
  <2>4. c = h \o o
    BY <2>1, QueuesTyped, NumbersTail DEF w
  <2>5. h \in NumberSeq /\ o \in NumberSeq
    <3>1. <<w>> \in Seq(Messages) /\ writerQueue' \in Seq(Messages)
      BY <2>1, <2>3, QueuesTyped
    <3> QED BY <3>1, NumbersType DEF NumberSeq
  <2>6. h = IF EventOf(p, w) THEN <<w.number>> ELSE << >>
    BY <2>3, NumbersOne
  <2>7. Numbers(p, writer'.batch) = b \o h
    <3>1. CASE EventOf(p, w)
      <4>1. Numbers(p, writer'.batch) = Append(b, w.number)
        BY <1>4, <2>1, <2>2, <2>3, <3>1, QueuesTyped, NumbersAppend
      <4> QED BY <1>2, <2>3, <2>6, <3>1, <4>1, AppendIsConcat DEF NumberSeq
    <3>2. CASE ~EventOf(p, w)
      <4>1. Numbers(p, writer'.batch) = b
        BY <1>4, <2>1, <2>2, <2>3, <3>2, QueuesTyped, NumbersAppend
      <4> QED BY <1>2, <2>6, <3>2, <4>1, ConcatNothing
    <3> QED BY <3>1, <3>2
  <2>8. Unflushed(p)' = b \o h
    BY <2>2, <2>7 DEF Unflushed
  <2>9. Joined(a, b \o h, o, m, q) = accepted[p]
    <3> HIDE DEF a, b, c, m, q, h, o
    <3> QED BY <1>1, <1>2, <2>4, <2>5, BatchMoves
  <2> QED BY <1>3, <2>1, <2>8, <2>9 DEF Order, queueVars
<1>6. CASE FlushDue
  <2>1. Unflushed(p)' = b /\ UNCHANGED <<writerQueue, written>>
    BY <1>4, <1>6 DEF FlushDue, Writer, Unflushed
  <2> QED BY <1>1, <1>3, <2>1 DEF Order, queueVars
<1>7. CASE FlushPartition
  <2>1. PICK i \in 1 .. Len(writer.batch) :
          /\ writer.batch[i].partition \notin writer.done
          /\ written' = [written EXCEPT ![writer.batch[i].partition] =
                            @ \o Numbers(writer.batch[i].partition, writer.batch)]
          /\ writer' = [writer EXCEPT !.done = @ \cup {writer.batch[i].partition}]
          /\ UNCHANGED writerQueue
    BY <1>7 DEF FlushPartition
  <2> DEFINE x == writer.batch[i].partition
  <2> HIDE DEF x
  <2>2. writer'.batch = writer.batch /\ writer'.done = writer.done \cup {x}
    BY <2>1, TypeParts DEF FileTypes, x
  <2>3. CASE p = x
    <3>1. b = Numbers(p, writer.batch) /\ Unflushed(p)' = << >>
      BY <2>1, <2>2, <2>3 DEF Unflushed, x
    <3>2. written'[p] = a \o b
      BY <2>1, <2>3, <3>1, TypeParts DEF FileTypes, x
    <3>3. Joined(a \o b, << >>, c, m, q) = Joined(a, b, c, m, q)
      <4> HIDE DEF a, b, c, m, q
      <4>1. a \o b \in NumberSeq
        BY <1>2, ConcatType
      <4>2. (a \o b) \o << >> = a \o b
        BY <4>1, ConcatNothing
      <4> QED BY <4>2 DEF Joined
    <3> QED BY <1>1, <1>3, <2>1, <3>1, <3>2, <3>3 DEF Order, queueVars
  <2>4. CASE p # x
    <3>1. Unflushed(p)' = b
      BY <2>2, <2>4 DEF Unflushed
    <3>2. written'[p] = a
      BY <2>1, <2>4, TypeParts DEF FileTypes, x
    <3> QED BY <1>1, <1>3, <2>1, <3>1, <3>2 DEF Order, queueVars
  <2> QED BY <2>3, <2>4
<1>8. CASE EndFlush
  <2>1. b = << >>
    <3>1. CASE p \in writer.done
      BY <3>1 DEF Unflushed
    <3>2. CASE p \notin writer.done
      <4>1. \A i \in 1 .. Len(writer.batch) : writer.batch[i].partition # p
        BY <1>8, <3>2 DEF EndFlush, Flushed
      <4> QED BY <3>2, <4>1, QueuesTyped, NumbersNone DEF Unflushed
    <3> QED BY <3>1, <3>2
  <2>2. writer'.batch = << >> /\ UNCHANGED <<writerQueue, written>>
    BY <1>8 DEF EndFlush, Writer
  <2>3. Unflushed(p)' = << >>
    BY <2>2, NumbersEmpty DEF Unflushed
  <2> QED BY <1>1, <1>3, <2>1, <2>2, <2>3 DEF Order, queueVars
<1>9. CASE FlushFails
  <2>1. Unflushed(p)' = b /\ UNCHANGED <<writerQueue, written>>
    BY <1>9, TypeParts DEF FlushFails, Unflushed, FileTypes
  <2> QED BY <1>1, <1>3, <2>1 DEF Order, queueVars
<1> QED BY <1>5, <1>6, <1>7, <1>8, <1>9 DEF WriterStep

LEMMA OrderQuiet ==
  ASSUME EventsInOrder, UNCHANGED <<queueVars, fileVars>>
  PROVE  EventsInOrder'
BY DEF EventsInOrder, Unflushed, queueVars, fileVars

LEMMA OrderStep ==
  ASSUME TypeOK, HandsInv, EventsInOrder, Next
  PROVE  EventsInOrder'
<1>1. ASSUME NEW r \in Routes, SessionStep(r) PROVE EventsInOrder'
  BY <1>1, SessionFrame, PutKeepsOrder, OrderParts, OrderQuiet
<1>2. CASE ConsumerStep
  BY <1>2, ConsumerKeepsOrder, OrderParts
<1>3. CASE WriterStep
  BY <1>3, WriterKeepsOrder, OrderParts
<1>4. CASE StopStep
  <2>1. /\ queue' = queue \/ queue' = Append(queue, Marker)
        /\ writerQueue' = writerQueue \/ writerQueue' = Append(writerQueue, Marker)
    BY <1>4 DEF StopStep, PutMarker, AwaitConsumer, AwaitReporter, PutWriterMarker, AwaitWriter,
      queueVars, fileVars
  <2>2. ASSUME NEW p \in Partitions
        PROVE  Numbers(p, queue') = Numbers(p, queue)
               /\ Numbers(p, writerQueue') = Numbers(p, writerQueue)
    BY <2>1, QueuesTyped, NoMessages, NumbersAppend
  <2>3. UNCHANGED <<accepted, consumer, writer, written>>
    BY <1>4, Frames
  <2> QED BY <2>2, <2>3 DEF EventsInOrder, Unflushed
<1>5. CASE UpdateStep
  BY <1>5, Frames, OrderQuiet
<1> QED BY <1>1, <1>2, <1>3, <1>4, <1>5, Steps

\* Each accepted event is in one place, none is written twice and the files of a date and
\* symbol keep its order, also behind a flush that failed between two partitions:
\* RealtimeMarketDataService._consume, ParquetEventWriter.write, _run and _flush.
THEOREM EventsKeepOrder == Spec => []EventsInOrder
<1>1. Init => EventsInOrder
  <2> SUFFICES ASSUME Init, NEW p \in Partitions PROVE Order(p)
    BY OrderParts
  <2>1. Numbers(p, << >>) = << >> /\ Numbers(p, <<Nothing>>) = << >>
    BY NumbersEmpty, NoMessages
  <2>2. /\ written[p] = << >> /\ accepted[p] = << >> /\ Unflushed(p) = << >>
        /\ writerQueue = << >> /\ queue = << >> /\ consumer.message = Nothing
    BY <2>1 DEF Init, NoEvents, Unflushed
  <2>3. << >> \o << >> \o << >> \o << >> \o << >> = << >>
    BY ConcatNothing
  <2> QED BY <2>1, <2>2, <2>3 DEF Order, Joined
<1>2. TypeOK /\ HandsInv /\ EventsInOrder /\ [Next]_vars => EventsInOrder'
  BY OrderStep, OrderQuiet DEF vars
<1> QED BY <1>1, <1>2, InitTypes, TypeStep, PTL DEF Spec

-----------------------------------------------------------------------------
(* The shutdown.                                                              *)

LEMMA StopInit == Init => StopInv
<1> SUFFICES ASSUME Init PROVE StopInv
  OBVIOUS
<1>1. /\ service.pc = "running" /\ queue = << >> /\ writerQueue = << >>
      /\ consumer.pc = "get" /\ writer.pc = "get" /\ ~writer.stopping
  BY DEF Init
<1> QED BY <1>1 DEF StopInv, SessionsInv, QueueInv, WriterInv, BeforeMarker

LEMMA StopQuiet ==
  /\ SessionsInv /\ UNCHANGED <<session, service>> => SessionsInv'
  /\ QueueInv /\ UNCHANGED <<queue, consumer, service>> => QueueInv'
  /\ WriterInv /\ UNCHANGED <<writerQueue, consumer, writer, service>> => WriterInv'
BY DEF SessionsInv, AtRest, QueueInv, WriterInv, BeforeMarker

LEMMA StopStepKept ==
  ASSUME TypeOK, HandsInv, StopInv, Next
  PROVE  StopInv'
<1> USE TypeParts, Constants
<1>0. SessionsInv /\ QueueInv /\ WriterInv
  BY DEF StopInv
<1>q. queue \in Seq(Message \cup {Marker}) /\ writerQueue \in Seq(Message \cup {Marker})
  BY DEF QueueTypes, FileTypes
<1>k. \A m \in Message \cup {Marker} : m = Marker <=> m.kind = "stop"
  BY Kinds DEF Messages
<1>1. ASSUME NEW r \in Routes, SessionStep(r) PROVE StopInv'
  <2>1. UNCHANGED <<consumer, fileVars, service>>
    BY <1>1, SessionFrame
  <2>2. CASE ConnectTimesOut(r)
    BY <1>0, <2>1, <2>2, StopQuiet DEF ConnectTimesOut, StopInv, fileVars, queueVars
  <2>3. CASE ~ConnectTimesOut(r)
    <3>1. ~AtRest(r)
      BY <1>1, <2>3 DEF SessionStep, Connect, ConnectFails, ConnectionLost, BackOff, SessionDies,
        Connected, Rotate, Wake, Receive, Put, AtRest
    <3>2. BeforeMarker
      BY <1>0, <3>1 DEF SessionsInv
    <3>3. SessionsInv'
      BY <2>1, <3>2 DEF SessionsInv, BeforeMarker
    <3>4. QueueInv'
      <4>1. queue' = queue \/ \E m \in Message : queue' = Append(queue, m)
        <5>1. CASE Put(r)
          BY <5>1, PutMessage
        <5>2. CASE ~Put(r)
          BY <1>1, <5>2, SessionFrame DEF queueVars
        <5> QED BY <5>1, <5>2
      <4>2. \A i \in 1 .. Len(queue') : queue'[i] # Marker
        BY <1>0, <1>q, <3>2, <4>1, AppendMessages, Kinds DEF QueueInv
      <4>3. /\ consumer'.pc # "ended"
            /\ service'.pc \notin {"reporter", "writerMarker", "writer", "stopped"}
        BY <1>0, <2>1, <3>2 DEF QueueInv, BeforeMarker
      <4> QED BY <4>2, <4>3 DEF QueueInv
    <3> QED BY <1>0, <2>1, <3>3, <3>4, StopQuiet DEF StopInv, fileVars
  <2> QED BY <2>2, <2>3
<1>2. CASE ConsumerStep
  <2>0. UNCHANGED <<session, service, writer>>
    BY <1>2, Frames
  <2>1. consumer.pc \in {"get", "write", "listen"} /\ consumer.pc # "ended"
    BY <1>2 DEF ConsumerStep, Take, Write, Listen
  <2>2. /\ service.pc \notin {"reporter", "writerMarker", "writer", "stopped"}
        /\ ~writer.stopping /\ writer.pc # "ended"
        /\ \A i \in 1 .. Len(writerQueue) : writerQueue[i] # Marker
    BY <1>0, <2>1 DEF QueueInv, WriterInv
  <2>3. CASE Take
    <3>1. queue # << >> /\ queue' = Tail(queue) /\ UNCHANGED fileVars
      BY <2>3 DEF Take
    <3>2. consumer'.pc = "ended" => queue[1] = Marker
      <4>1. consumer'.pc = "ended" => Head(queue).kind = "stop"
        BY <2>3 DEF Take, Consumer
      <4> QED BY <1>q, <1>k, <3>1, <4>1, HeadOfMessages
    <3>3. queue[1] = Marker => queue' = << >> /\ ~BeforeMarker
      <4>1. /\ 1 \in 1 .. Len(queue) /\ Len(queue') = Len(queue) - 1
            /\ queue' \in Seq(Message \cup {Marker})
        BY <1>q, <3>1, HeadOfMessages
      <4>2. queue[1] = Marker => 1 = Len(queue) /\ ~BeforeMarker
        BY <1>0, <4>1 DEF QueueInv
      <4>3. Len(queue') = 0 => queue' = << >>
        BY <4>1
      <4> QED BY <4>1, <4>2, <4>3
    <3>4. \A i \in 1 .. Len(queue') : queue'[i] = Marker => i = Len(queue') /\ ~BeforeMarker
      <4>1. Len(queue') = Len(queue) - 1 /\ \A i \in 1 .. Len(queue') : queue'[i] = queue[i + 1]
        BY <1>q, <3>1, HeadOfMessages
      <4> QED BY <1>0, <1>q, <4>1 DEF QueueInv
    <3>5. QueueInv'
      BY <2>0, <2>2, <3>2, <3>3, <3>4 DEF QueueInv, BeforeMarker
    <3>6. WriterInv'
      BY <1>0, <2>0, <2>2, <3>1 DEF WriterInv, fileVars
    <3> QED BY <1>0, <2>0, <3>5, <3>6, StopQuiet DEF StopInv
  <2>4. CASE Write \/ Listen
    <3>1. UNCHANGED queue /\ consumer'.pc \in {"listen", "get", "dead"}
      BY <2>4 DEF Write, Listen, Consumer
    <3>2. \A i \in 1 .. Len(writerQueue') : writerQueue'[i] # Marker
      <4>1. writerQueue' = writerQueue \/ \E m \in Message : writerQueue' = Append(writerQueue, m)
        BY <2>4 DEF Write, Listen, HandsInv, fileVars
      <4> QED BY <1>q, <2>2, <4>1, AppendMessages, Kinds
    <3>3. QueueInv'
      BY <1>0, <2>0, <2>2, <3>1 DEF QueueInv, BeforeMarker
    <3>4. WriterInv'
      BY <1>0, <2>0, <2>2, <3>2 DEF WriterInv
    <3> QED BY <1>0, <2>0, <3>3, <3>4, StopQuiet DEF StopInv
  <2> QED BY <1>2, <2>3, <2>4 DEF ConsumerStep
<1>3. CASE WriterStep
  <2>1. UNCHANGED <<routeVars, queueVars, service>>
    BY <1>3, Frames
  <2>2. writer.pc \in {"get", "flush"}
    BY <1>3 DEF WriterStep, TakeEvent, FlushDue, FlushPartition, EndFlush, FlushFails
  <2>3. service.pc # "stopped"
    BY <1>0, <2>2 DEF WriterInv
  <2>4. CASE TakeEvent
    <3>1. writerQueue # << >> /\ writerQueue' = Tail(writerQueue)
      BY <2>4 DEF TakeEvent
    <3>2. /\ 1 \in 1 .. Len(writerQueue) /\ Head(writerQueue) = writerQueue[1]
          /\ writerQueue' \in Seq(Message \cup {Marker})
          /\ Len(writerQueue') = Len(writerQueue) - 1
          /\ \A i \in 1 .. Len(writerQueue') : writerQueue'[i] = writerQueue[i + 1]
      BY <1>q, <3>1, HeadOfMessages
    <3>3. CASE Head(writerQueue).kind = "stop"
      <4>1. writerQueue[1] = Marker
        BY <1>k, <1>q, <3>1, <3>2, <3>3, HeadOfMessages
      <4>2. Len(writerQueue) = 1 /\ consumer.pc = "ended" /\ service.pc \in {"writer", "raised"}
        BY <1>0, <3>2, <4>1 DEF WriterInv
      <4>3. writerQueue' = << >>
        BY <3>2, <4>2
      <4>4. /\ writer'.pc = (IF writer.batch = << >> THEN "ended" ELSE "flush")
            /\ writer'.batch = writer.batch
        BY <2>4, <3>3 DEF TakeEvent, Writer
      <4> QED BY <1>0, <2>1, <4>2, <4>3, <4>4, StopQuiet DEF StopInv, WriterInv, routeVars, queueVars
    <3>4. CASE Head(writerQueue).kind # "stop"
      <4>1. ~writer'.stopping /\ writer'.pc # "ended"
        BY <2>4, <3>4 DEF TakeEvent, Writer
      <4>2. \A i \in 1 .. Len(writerQueue') : writerQueue'[i] = Marker =>
              i = Len(writerQueue') /\ consumer.pc = "ended" /\ service.pc \in {"writer", "raised"}
        BY <1>0, <1>q, <3>2 DEF WriterInv
      <4> QED BY <1>0, <2>1, <2>3, <4>1, <4>2, StopQuiet DEF StopInv, WriterInv, routeVars, queueVars
    <3> QED BY <3>3, <3>4
  <2>5. CASE EndFlush
    <3>1. /\ writer'.pc = (IF writer.stopping THEN "ended" ELSE "get")
          /\ writer'.batch = << >> /\ ~writer'.stopping /\ UNCHANGED writerQueue
      BY <2>5 DEF EndFlush, Writer
    <3> QED BY <1>0, <2>1, <2>3, <3>1, StopQuiet DEF StopInv, WriterInv, routeVars, queueVars
  <2>6. CASE FlushDue \/ FlushFails
    <3>1. writer'.pc \in {"flush", "dead"} /\ ~writer'.stopping /\ UNCHANGED writerQueue
      <4>1. FlushDue => writer'.pc = "flush" /\ ~writer'.stopping /\ UNCHANGED writerQueue
        BY DEF FlushDue, Writer
      <4>2. FlushFails => writer'.pc = "dead" /\ ~writer'.stopping /\ UNCHANGED writerQueue
        BY DEF FlushFails, FileTypes
      <4> QED BY <2>6, <4>1, <4>2
    <3> QED BY <1>0, <2>1, <2>3, <3>1, StopQuiet DEF StopInv, WriterInv, routeVars, queueVars
  <2>7. CASE FlushPartition
    <3>1. /\ writer'.pc = writer.pc /\ writer'.stopping = writer.stopping
          /\ writer'.batch = writer.batch /\ UNCHANGED writerQueue
      BY <2>7 DEF FlushPartition, FileTypes
    <3> QED BY <1>0, <2>1, <3>1, StopQuiet DEF StopInv, WriterInv, routeVars, queueVars
  <2> QED BY <1>3, <2>4, <2>5, <2>6, <2>7 DEF WriterStep
<1>4. CASE StopStep
  <2>1. UNCHANGED <<session, consumer, writer>> /\ service.pc # "stopped"
    BY <1>4, Frames DEF StopStep, PutMarker, AwaitConsumer, AwaitReporter, PutWriterMarker,
      AwaitWriter, routeVars
  <2>2. CASE PutMarker
    <3>1. /\ service.pc = "sessions" /\ SessionsEnded /\ queue' = Append(queue, Marker)
          /\ service'.pc = "consumer" /\ UNCHANGED fileVars
      BY <2>2 DEF PutMarker, Service, ServiceType
    <3>2. consumer.pc # "ended" /\ \A i \in 1 .. Len(queue) : queue[i] # Marker
      BY <1>0, <3>1 DEF QueueInv, BeforeMarker
    <3>3. \A i \in 1 .. Len(queue') : queue'[i] = Marker => i = Len(queue')
      BY <1>q, <3>1, <3>2, AppendMessages
    <3>4. SessionsInv' /\ QueueInv'
      BY <2>1, <3>1, <3>2, <3>3 DEF SessionsInv, SessionsEnded, AtRest, QueueInv, BeforeMarker
    <3>5. WriterInv'
      BY <1>0, <2>1, <3>1, <3>2 DEF WriterInv, fileVars
    <3> QED BY <3>4, <3>5 DEF StopInv
  <2>3. CASE AwaitConsumer \/ AwaitReporter
    <3>1. /\ service.pc \in {"consumer", "reporter"} /\ UNCHANGED <<routeVars, queueVars, fileVars>>
          /\ service'.pc \in {"reporter", "writerMarker", "raised"}
          /\ service'.pc # "raised" => consumer.pc = "ended"
      <4>1. CASE AwaitConsumer
        BY <4>1 DEF AwaitConsumer, Service, ServiceType
      <4>2. CASE AwaitReporter
        BY <1>0, <4>2 DEF AwaitReporter, Service, ServiceType, QueueInv
      <4> QED BY <2>3, <4>1, <4>2
    <3> QED BY <1>0, <2>1, <3>1 DEF StopInv, SessionsInv, AtRest, QueueInv, WriterInv,
          BeforeMarker, routeVars, queueVars, fileVars
  <2>4. CASE PutWriterMarker
    <3>1. /\ service.pc = "writerMarker" /\ writerQueue' = Append(writerQueue, Marker)
          /\ service'.pc = "writer" /\ UNCHANGED <<routeVars, queueVars>>
      BY <2>4 DEF PutWriterMarker, Service, ServiceType
    <3>2. /\ consumer.pc = "ended" /\ ~writer.stopping /\ writer.pc # "ended"
          /\ \A i \in 1 .. Len(writerQueue) : writerQueue[i] # Marker
      BY <1>0, <3>1 DEF QueueInv, WriterInv
    <3>3. \A i \in 1 .. Len(writerQueue') : writerQueue'[i] = Marker => i = Len(writerQueue')
      BY <1>q, <3>1, <3>2, AppendMessages
    <3>4. WriterInv'
      BY <2>1, <3>1, <3>2, <3>3 DEF WriterInv
    <3> QED BY <1>0, <2>1, <3>1, <3>4 DEF StopInv, SessionsInv, AtRest, QueueInv,
          BeforeMarker, routeVars, queueVars
  <2>5. CASE AwaitWriter
    <3>1. /\ service.pc = "writer" /\ UNCHANGED <<routeVars, queueVars, fileVars>>
          /\ \/ writer.pc = "ended" /\ service'.pc = "stopped"
             \/ writer.pc = "dead" /\ service'.pc = "raised"
      <4>1. service'.pc = IF writer.pc = "ended" THEN "stopped" ELSE "raised"
        BY <2>5 DEF AwaitWriter, Service, ServiceType
      <4>2. writer.pc \in {"ended", "dead"}
        BY <2>5 DEF AwaitWriter
      <4> QED BY <2>5, <4>1, <4>2 DEF AwaitWriter
    <3>2. SessionsInv' /\ QueueInv'
      BY <1>0, <2>1, <3>1 DEF SessionsInv, AtRest, QueueInv, BeforeMarker, routeVars, queueVars
    <3>3. writer.pc = "ended" => writerQueue = << >>
      BY <1>0 DEF WriterInv
    <3>4. WriterInv'
      BY <1>0, <2>1, <3>1, <3>3 DEF WriterInv, fileVars, queueVars
    <3> QED BY <3>2, <3>4 DEF StopInv
  <2> QED BY <1>4, <2>2, <2>3, <2>4, <2>5 DEF StopStep
<1>5. CASE UpdateStep
  <2>1. UNCHANGED <<queueVars, fileVars>>
    BY <1>5, Frames
  <2>2. CASE \E r \in Routes : Silence(r)
    BY <1>0, <2>1, <2>2, StopQuiet DEF Silence, StopInv, queueVars, fileVars
  <2>3. CASE ReporterFails
    <3>1. service'.pc = service.pc /\ UNCHANGED session
      BY <2>3 DEF ReporterFails, ServiceType, routeVars
    <3> QED BY <1>0, <2>1, <3>1 DEF StopInv, SessionsInv, AtRest, QueueInv, WriterInv,
          BeforeMarker, queueVars, fileVars
  <2>4. ASSUME NEW r \in Routes, EndSession(r) PROVE StopInv'
    <3>1. /\ service.pc \in {"updating", "sessions"}
          /\ \/ service'.pc \in {"running", "updating", "sessions"}
             \/ service'.pc = "raised" /\ \A o \in Routes : AtRest(o)'
      <4>1. CASE StopSession(r)
        BY <4>1 DEF StopSession
      <4>2. CASE UpdateFails(r)
        BY <4>2 DEF UpdateFails, Service, ServiceType
      <4>3. CASE StopFails(r)
        BY <4>3, NewSessions DEF StopFails, Service, ServiceType, AtRest
      <4> QED BY <2>4, <4>1, <4>2, <4>3 DEF EndSession
    <3>2. BeforeMarker /\ SessionsInv'
      BY <3>1 DEF SessionsInv, BeforeMarker
    <3>3. /\ \A i \in 1 .. Len(queue) : queue[i] # Marker
          /\ \A i \in 1 .. Len(writerQueue) : writerQueue[i] # Marker
          /\ consumer.pc # "ended" /\ ~writer.stopping /\ writer.pc # "ended"
      BY <1>0, <3>2 DEF QueueInv, WriterInv
    <3>4. service'.pc \notin {"reporter", "writerMarker", "writer", "stopped"}
      BY <3>1
    <3> QED BY <2>1, <3>2, <3>3, <3>4 DEF StopInv, QueueInv, WriterInv, queueVars, fileVars
  <2>5. CASE BeginUpdate \/ EndUpdate \/ BeginStop
    <3>1. BeforeMarker /\ BeforeMarker' /\ service'.pc \in {"running", "updating", "sessions"}
          /\ service.pc \in {"running", "updating", "sessions"}
      BY <2>5 DEF BeginUpdate, EndUpdate, BeginStop, Service, ServiceType, BeforeMarker
    <3> QED BY <1>0, <2>1, <3>1 DEF StopInv, SessionsInv, QueueInv, WriterInv, queueVars, fileVars
  <2> QED BY <1>5, <2>2, <2>3, <2>4, <2>5 DEF UpdateStep
<1> QED BY <1>1, <1>2, <1>3, <1>4, <1>5, Steps

\* The invariant of the shutdown holds.
LEMMA StopKept == Spec => [](TypeOK /\ HandsInv /\ StopInv)
<1>1. TypeOK /\ HandsInv /\ StopInv /\ [Next]_vars => StopInv'
  <2>1. UNCHANGED vars /\ StopInv => StopInv'
    BY StopQuiet DEF StopInv, vars, routeVars, queueVars, fileVars
  <2> QED BY <2>1, StopStepKept
<1> QED BY <1>1, InitTypes, StopInit, TypeStep, PTL DEF Spec

\* Nothing enters the queue or the writer's queue behind its marker, and no session is
\* at work any more: RealtimeMarketDataService.stop, ParquetEventWriter.stop.
THEOREM MarkerIsLast == Spec => []NothingBehindMarker
<1>1. StopInv => NothingBehindMarker
  BY DEF StopInv, SessionsInv, AtRest, BeforeMarker, QueueInv, WriterInv, NothingBehindMarker
<1> QED BY <1>1, StopKept, PTL

-----------------------------------------------------------------------------
(* The event log.                                                             *)

LEMMA NumberQuiet ==
  NumberInv /\ UNCHANGED <<accepted, delivered>> => NumberInv'
BY DEF NumberInv, Accepted

LEMMA AcceptedNumbers ==
  ASSUME TypeOK
  PROVE  Accepted \subseteq Nat
<1> SUFFICES ASSUME NEW p \in Partitions, NEW i \in 1 .. Len(accepted[p])
             PROVE  accepted[p][i] \in Nat
  BY DEF Accepted
<1>1. accepted[p] \in Seq(1 .. MaxMessages)
  BY TypeParts DEF QueueTypes
<1> QED BY <1>1, Constants

\* A put accepts the next number, or none.
LEMMA PutNumbers ==
  ASSUME TypeOK, HandsInv, NumberInv, NEW r \in Routes, Put(r)
  PROVE  NumberInv'
<1>1. PICK h \in Message :
        /\ h.number = delivered + 1
        /\ accepted' = IF IsEvent(h) THEN [accepted EXCEPT ![h.partition] = Append(@, h.number)]
                       ELSE accepted
  BY PutMessage, TypeParts
<1>2. /\ accepted \in [Partitions -> Seq(1 .. MaxMessages)] /\ delivered \in Nat
      /\ delivered' = delivered + 1
  BY TypeParts DEF QueueTypes, RouteTypes, Put
<1>3. Accepted' \subseteq Accepted \cup {h.number}
  <2>1. h.number \in 1 .. MaxMessages /\ h.partition \in Partitions
    BY DEF Message
  <2> SUFFICES ASSUME NEW p \in Partitions, NEW i \in 1 .. Len(accepted'[p])
               PROVE  accepted'[p][i] \in Accepted \cup {h.number}
    BY DEF Accepted
  <2>2. accepted[p] \in Seq(1 .. MaxMessages)
    BY <1>2
  <2>3. accepted'[p] = accepted[p] \/ accepted'[p] = Append(accepted[p], h.number)
    BY <1>1, <1>2, <2>1
  <2>4. accepted'[p][i] = h.number
        \/ (i \in 1 .. Len(accepted[p]) /\ accepted'[p][i] = accepted[p][i])
    <3>1. CASE accepted'[p] = accepted[p]
      BY <3>1
    <3>2. CASE accepted'[p] = Append(accepted[p], h.number)
      <4>1. i \in 1 .. Len(accepted[p]) + 1
        BY <2>1, <2>2, <3>2
      <4> QED BY <2>1, <2>2, <3>2, <4>1, AppendProperties
    <3> QED BY <2>3, <3>1, <3>2
  <2> QED BY <2>4 DEF Accepted
<1>4. \A n \in Accepted : n \in Nat /\ n <= delivered
  BY AcceptedNumbers DEF NumberInv
<1> QED BY <1>1, <1>2, <1>3, <1>4 DEF NumberInv

LEMMA NumberKept ==
  ASSUME TypeOK, HandsInv, NumberInv, Next
  PROVE  NumberInv'
<1>1. ASSUME NEW r \in Routes, SessionStep(r) PROVE NumberInv'
  <2>1. CASE ~Put(r)
    <3>1. UNCHANGED <<accepted, delivered>>
      BY <1>1, <2>1 DEF SessionStep, Connect, ConnectFails, ConnectionLost, ConnectTimesOut,
        BackOff, SessionDies, Rotate, Wake, Receive, queueVars
    <3> QED BY <3>1, NumberQuiet
  <2> QED BY <2>1, PutNumbers
<1>2. CASE ConsumerStep \/ WriterStep \/ StopStep
  <2>1. UNCHANGED <<accepted, delivered>>
    BY <1>2, Frames DEF routeVars, queueVars
  <2> QED BY <2>1, NumberQuiet
<1>3. CASE UpdateStep
  BY <1>3, Frames, NumberQuiet DEF queueVars
<1> QED BY <1>1, <1>2, <1>3, Steps

LogStep == Log!Next \/ UNCHANGED Log!vars

\* A put of an event accepts it; every other step of a session leaves the log alone.
LEMMA SessionStepsAreLogged ==
  ASSUME TypeOK, HandsInv, StopInv, NumberInv, NEW r \in Routes, SessionStep(r)
  PROVE  LogStep
<1>1. CASE Put(r) /\ IsEvent(session[r].held)
  <2>1. PICK h \in Message :
          /\ h.number = delivered + 1 /\ h.kind = session[r].held.kind
          /\ accepted' = IF IsEvent(h) THEN [accepted EXCEPT ![h.partition] = Append(@, h.number)]
                         ELSE accepted
    BY <1>1, PutMessage, TypeParts
  <2>2. /\ accepted' = [accepted EXCEPT ![h.partition] = Append(@, h.number)]
        /\ UNCHANGED <<written, service>>
    BY <1>1, <2>1 DEF Put, fileVars, IsEvent
  <2>3. h.number \in 1 .. MaxMessages /\ h.partition \in Partitions
    BY DEF Message
  <2>4. \A p \in Partitions : \A i \in 1 .. Len(accepted[p]) : accepted[p][i] # h.number
    <3>1. delivered \in Nat /\ \A n \in Accepted : n \in Nat /\ n <= delivered
      BY AcceptedNumbers, TypeParts DEF NumberInv, RouteTypes
    <3>2. h.number \notin Accepted
      BY <2>1, <3>1
    <3> QED BY <3>2 DEF Accepted
  <2>5. service.pc # "stopped"
    BY <1>1 DEF StopInv, SessionsInv, AtRest, BeforeMarker, Put
  <2>6. Log!Accept
    BY <2>2, <2>3, <2>4, <2>5 DEF Log!Accept, Log!Contains
  <2> QED BY <2>6 DEF LogStep, Log!Next
<1>2. CASE ~(Put(r) /\ IsEvent(session[r].held))
  <2>1. UNCHANGED accepted
    <3>1. CASE Put(r)
      BY <1>2, <3>1, PutMessage, TypeParts DEF IsEvent
    <3>2. CASE ~Put(r)
      BY <3>2, SessionFrame DEF queueVars
    <3> QED BY <3>1, <3>2
  <2>2. UNCHANGED <<written, service>>
    BY SessionFrame DEF fileVars
  <2> QED BY <2>1, <2>2 DEF LogStep, Log!vars
<1> QED BY <1>1, <1>2

\* The beginning of a sequence that has been put together.
LEMMA SubSeqOfConcat ==
  ASSUME NEW s \in NumberSeq, NEW t \in NumberSeq
  PROVE  SubSeq(s \o t, 1, Len(s)) = s
<1>1. SubSeq(s \o t, 1, Len(s)) \in Seq(Nat) /\ Len(SubSeq(s \o t, 1, Len(s))) = Len(s)
  BY DEF NumberSeq
<1>2. \A i \in 1 .. Len(s) : SubSeq(s \o t, 1, Len(s))[i] = s[i]
  BY DEF NumberSeq
<1> DEFINE u == SubSeq(s \o t, 1, Len(s))
<1> HIDE DEF u
<1>3. u \in Seq(Nat) /\ s \in Seq(Nat) /\ Len(u) = Len(s) /\ \A i \in 1 .. Len(u) : u[i] = s[i]
  BY <1>1, <1>2 DEF u, NumberSeq
<1>4. u = s
  BY <1>3, SeqEqual
<1> QED BY <1>4 DEF u

\* One sequence begins another; what begins a beginning begins the whole.
Begins(s, v) == \E t \in NumberSeq : v = s \o t

LEMMA BeginsConcat ==
  ASSUME NEW s \in NumberSeq, NEW t \in NumberSeq
  PROVE  Begins(s, s \o t)
BY DEF Begins

LEMMA BeginsConcatOfBeginning ==
  ASSUME NEW s \in NumberSeq, NEW u \in NumberSeq, NEW t \in NumberSeq, Begins(s, u)
  PROVE  Begins(s, u \o t)
<1>1. PICK m \in NumberSeq : u = s \o m
  BY DEF Begins
<1>2. m \o t \in NumberSeq
  BY ConcatType
<1>3. u \o t = s \o (m \o t)
  BY <1>1, ConcatAssoc
<1> QED BY <1>2, <1>3 DEF Begins

LEMMA BeginningOf ==
  ASSUME NEW s \in NumberSeq, NEW v \in NumberSeq, Begins(s, v)
  PROVE  Len(s) <= Len(v) /\ SubSeq(v, 1, Len(s)) = s
<1>1. PICK rest \in NumberSeq : v = s \o rest
  BY DEF Begins
<1>2. SubSeq(s \o rest, 1, Len(s)) = s
  BY SubSeqOfConcat
<1>3. Len(s \o rest) = Len(s) + Len(rest) /\ Len(rest) \in Nat /\ Len(s) \in Nat
  BY DEF NumberSeq
<1> QED BY <1>1, <1>2, <1>3

\* A flush makes the files a longer part of the log.
LEMMA FlushStores ==
  \A a, b, c, h, q, v \in NumberSeq :
    Joined(a, b, c, h, q) = v /\ b # << >> =>
      Len(a \o b) \in Len(a) + 1 .. Len(v) /\ SubSeq(v, 1, Len(a \o b)) = a \o b
<1> SUFFICES ASSUME NEW a \in NumberSeq, NEW b \in NumberSeq, NEW c \in NumberSeq,
                    NEW h \in NumberSeq, NEW q \in NumberSeq, NEW v \in NumberSeq,
                    Joined(a, b, c, h, q) = v, b # << >>
             PROVE  /\ Len(a \o b) \in Len(a) + 1 .. Len(v)
                    /\ SubSeq(v, 1, Len(a \o b)) = a \o b
  OBVIOUS
<1> DEFINE s == a \o b
           e == s \o c
           f == e \o h
<1>1. s \in NumberSeq
  BY ConcatType
<1>2. v = f \o q
  BY DEF Joined
<1> HIDE DEF s
<1>3. e \in NumberSeq /\ Begins(s, e)
  BY <1>1, ConcatType, BeginsConcat
<1> HIDE DEF e
<1>4. f \in NumberSeq /\ Begins(s, f)
  BY <1>1, <1>3, ConcatType, BeginsConcatOfBeginning
<1> HIDE DEF f
<1>5. Begins(s, v)
  BY <1>1, <1>2, <1>4, BeginsConcatOfBeginning
<1>6. Len(s) <= Len(v) /\ SubSeq(v, 1, Len(s)) = s
  BY <1>1, <1>5, BeginningOf
<1>7. /\ Len(s) = Len(a) + Len(b) /\ Len(a) \in Nat /\ Len(b) \in Nat /\ Len(b) > 0
      /\ Len(v) \in Nat
  BY DEF NumberSeq, s
<1>8. Len(s) \in Len(a) + 1 .. Len(v)
  BY <1>6, <1>7
<1> QED BY <1>6, <1>8 DEF s

\* A partition's part of a batch stores the next events of the partition.
LEMMA WriterStepsAreLogged ==
  ASSUME TypeOK, StopInv, EventsInOrder, WriterStep
  PROVE  LogStep
<1>1. UNCHANGED <<accepted, service>>
  BY Frames DEF queueVars
<1>2. service.pc # "stopped"
  BY DEF WriterStep, TakeEvent, FlushDue, FlushPartition, EndFlush, FlushFails, StopInv, WriterInv
<1>3. CASE FlushPartition
  <2>1. PICK i \in 1 .. Len(writer.batch) :
          /\ writer.batch[i].partition \notin writer.done
          /\ written' = [written EXCEPT ![writer.batch[i].partition] =
                            @ \o Numbers(writer.batch[i].partition, writer.batch)]
    BY <1>3 DEF FlushPartition
  <2> DEFINE p == writer.batch[i].partition
  <2>2. p \in Partitions
    <3>1. writer.batch[i] \in Message
      BY TypeParts DEF FileTypes
    <3> QED BY <3>1 DEF Message
  <2>3. p \notin writer.done
    BY <2>1
  <2> DEFINE a == written[p]
             b == Numbers(p, writer.batch)
  <2>4. written' = [written EXCEPT ![p] = a \o b]
    BY <2>1
  <2> HIDE DEF p
  <2>5. /\ a \in NumberSeq /\ b \in NumberSeq /\ accepted[p] \in NumberSeq
        /\ Numbers(p, writerQueue) \in NumberSeq
        /\ Numbers(p, <<consumer.message>>) \in NumberSeq /\ Numbers(p, queue) \in NumberSeq
    BY <2>2, PlacesTyped DEF Places
  <2>6. Joined(a, b, Numbers(p, writerQueue), Numbers(p, <<consumer.message>>),
               Numbers(p, queue)) = accepted[p]
    BY <2>2, <2>3, OrderParts DEF Order, Unflushed
  <2>7. CASE b = << >>
    <3>1. a \o b = a
      BY <2>5, <2>7, ConcatNothing
    <3>2. written' = written
      BY <2>4, <3>1, TypeParts DEF FileTypes
    <3> QED BY <1>1, <3>2 DEF LogStep, Log!vars
  <2>8. CASE b # << >>
    <3>1. /\ Len(a \o b) \in Len(a) + 1 .. Len(accepted[p])
          /\ SubSeq(accepted[p], 1, Len(a \o b)) = a \o b
      <4> HIDE DEF a, b
      <4> QED BY <2>5, <2>6, <2>8, FlushStores
    <3>2. Log!Store
      BY <1>1, <1>2, <2>2, <2>4, <3>1 DEF Log!Store
    <3> QED BY <3>2 DEF LogStep, Log!Next
  <2> QED BY <2>7, <2>8
<1>4. CASE ~FlushPartition
  <2>1. UNCHANGED written
    BY <1>4 DEF WriterStep, TakeEvent, FlushDue, EndFlush, FlushFails
  <2> QED BY <1>1, <2>1 DEF LogStep, Log!vars
<1> QED BY <1>3, <1>4

\* A normal stop closes the log.
LEMMA StopStepsAreLogged ==
  ASSUME TypeOK, HandsInv, StopInv, EventsInOrder, StopStep
  PROVE  LogStep
<1>1. UNCHANGED <<accepted, written>> /\ service.pc # "stopped"
  BY Frames DEF StopStep, PutMarker, AwaitConsumer, AwaitReporter, PutWriterMarker, AwaitWriter
<1>2. CASE service'.pc # "stopped"
  BY <1>1, <1>2 DEF LogStep, Log!vars
<1>3. CASE service'.pc = "stopped"
  <2>1. service.pc = "writer" /\ writer.pc = "ended"
    BY <1>3, TypeParts DEF StopStep, PutMarker, AwaitConsumer, AwaitReporter, PutWriterMarker,
      AwaitWriter, Service, ServiceType
  <2>2. /\ consumer.pc = "ended" /\ queue = << >> /\ writerQueue = << >> /\ writer.batch = << >>
        /\ consumer.message = Nothing
    BY <2>1 DEF StopInv, QueueInv, WriterInv, HandsInv
  <2>3. ASSUME NEW p \in Partitions PROVE written[p] = accepted[p]
    <3>1. Numbers(p, <<Nothing>>) = << >> /\ Numbers(p, << >>) = << >>
      BY NoMessages, NumbersEmpty
    <3>2. Unflushed(p) = << >>
      BY <2>2, <3>1 DEF Unflushed
    <3>3. Joined(written[p], << >>, << >>, << >>, << >>) = written[p]
      BY PlacesTyped, ConcatNothing DEF Places, Joined
    <3> QED BY <2>2, <3>1, <3>2, <3>3, OrderParts DEF Order
  <2>4. written = accepted
    BY <2>3, TypeParts DEF FileTypes, QueueTypes
  <2>5. Log!Close
    BY <1>1, <1>3, <2>4 DEF Log!Close
  <2> QED BY <2>5 DEF LogStep, Log!Next
<1> QED BY <1>2, <1>3

LEMMA StepsAreLogged ==
  ASSUME TypeOK, HandsInv, StopInv, NumberInv, EventsInOrder, [Next]_vars
  PROVE  LogStep
<1>1. CASE UNCHANGED vars
  BY <1>1 DEF LogStep, Log!vars, vars, queueVars, fileVars
<1>2. CASE ConsumerStep
  BY <1>2, Frames DEF LogStep, Log!vars
<1>3. CASE UpdateStep
  <2>1. UNCHANGED <<accepted, written>>
    BY <1>3, Frames DEF queueVars, fileVars
  <2>2. service.pc = "stopped" <=> service'.pc = "stopped"
    BY <1>3, TypeParts DEF UpdateStep, Silence, EndSession, StopSession, UpdateFails, StopFails,
      ReporterFails, BeginUpdate, EndUpdate, BeginStop, Service, ServiceType
  <2> QED BY <2>1, <2>2 DEF LogStep, Log!vars
<1> QED BY <1>1, <1>2, <1>3, Steps, SessionStepsAreLogged, WriterStepsAreLogged, StopStepsAreLogged

\* The pipeline implements the event log: accepted events are stored once and in the order
\* of their partition, also by a flush that fails between two partitions, and a normal stop
\* comes after the last of them and before no other.
THEOREM PipelineIsALog == Spec => ImplementsLog
<1>1. Init => Log!Init
  BY DEF Init, NoEvents, Log!Init
<1>2. Init => NumberInv
  <2> SUFFICES ASSUME Init PROVE NumberInv
    OBVIOUS
  <2>1. \A p \in Partitions : accepted[p] = << >>
    BY DEF Init, NoEvents
  <2>2. Accepted = {}
    BY <2>1 DEF Accepted
  <2> QED BY <2>2 DEF NumberInv
<1>3. TypeOK /\ HandsInv /\ NumberInv /\ [Next]_vars => NumberInv'
  <2>1. UNCHANGED vars => UNCHANGED <<accepted, delivered>>
    BY DEF vars, routeVars, queueVars
  <2> QED BY <2>1, NumberQuiet, NumberKept
<1>4. TypeOK /\ HandsInv /\ StopInv /\ NumberInv /\ EventsInOrder /\ [Next]_vars => [Log!Next]_Log!vars
  BY StepsAreLogged DEF LogStep
<1> QED BY <1>1, <1>2, <1>3, <1>4, StopKept, EventsKeepOrder, PTL DEF Spec, ImplementsLog, Log!Spec
=============================================================================
