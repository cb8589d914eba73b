-------------------------- MODULE OrderBookSyncProofs --------------------------
(***************************************************************************)
(* Proofs about OrderBookSync and its refinement of BookMirror, for every set *)
(* of prices and quantities, every number of updates and events and every     *)
(* capacity of the deduplicator.                                              *)
(***************************************************************************)
EXTENDS BookMirrored, SequenceTheorems, TLAPS

-----------------------------------------------------------------------------
(* The inductive invariant.                                                  *)

\* The events the exchange may have sent: what EventOf makes of two of its updates,
\* at whatever time it did.
GoodEvents ==
  {e \in Events :
     /\ e.pu < e.final /\ e.first = e.pu + 1 /\ e.final \in 0 .. Len(wrote)
     /\ DOMAIN e.levels = Touched(e.pu, e.final)
     /\ \A p \in DOMAIN e.levels : e.levels[p] = books[e.final][p]}

\* Between two updates the book changes at the prices that were written only.
BooksAgree ==
  \A m, n \in 0 .. Len(wrote) :
    m <= n => \A p \in Prices : p \notin Touched(m, n) => books[n][p] = books[m][p]

ExchangeInv ==
  /\ wrote \in Seq(Prices) /\ books \in [0 .. Len(wrote) -> [Prices -> Quantities]]
  /\ BooksAgree /\ sent \in Seq(GoodEvents)

NetworkInv ==
  /\ stream \in Seq(GoodEvents) /\ connected \in BOOLEAN /\ repeats \in Nat
  /\ seen \in Seq(Nat) /\ Len(seen) <= DedupCapacity

\* A synchronized book is the exchange's book after the update it names.
LevelsInv ==
  /\ levels \in [Prices -> Quantities] /\ lastUpdateId \in {None} \cup 0 .. Len(wrote)
  /\ synchronized \in BOOLEAN
  /\ synchronized => lastUpdateId # None /\ levels = books[lastUpdateId]

\* The loop runs over a synchronized book, and begins at an event that bridges it.
LoopInv ==
  /\ buffer \in Seq(GoodEvents) /\ at \in 0 .. Len(buffer) /\ bridge \in 0 .. at
  /\ at # 0 => synchronized /\ fetches = {}
  /\ at # 0 /\ at = bridge => Bridges(buffer[at], lastUpdateId)

FetchInv ==
  /\ bookHealth \in {"unknown", "healthy", "degraded"}
  /\ fetches \subseteq {Requested} \cup 0 .. Len(wrote)
  /\ HealthTellsSync /\ OneFetch

BookInv == ExchangeInv /\ NetworkInv /\ LevelsInv /\ LoopInv /\ FetchInv

LEMMA SeqWider ==
  ASSUME NEW S, NEW T, S \subseteq T
  PROVE  Seq(S) \subseteq Seq(T)
<1> SUFFICES ASSUME NEW s \in Seq(S) PROVE s \in Seq(T)
  OBVIOUS
<1>1. s \in [1 .. Len(s) -> S] /\ Len(s) \in Nat
  OBVIOUS
<1>2. s \in [1 .. Len(s) -> T]
  BY <1>1
<1> QED BY <1>1, <1>2, SeqDef

LEMMA BookInvImplies == BookInv => TypeOK /\ HealthTellsSync /\ OneFetch
<1> SUFFICES ASSUME BookInv PROVE TypeOK
  BY DEF BookInv, FetchInv
<1>1. Seq(GoodEvents) \subseteq Seq(Events)
  BY SeqWider DEF GoodEvents
<1> QED BY <1>1 DEF BookInv, ExchangeInv, NetworkInv, LevelsInv, LoopInv, FetchInv, TypeOK

LEMMA BookInvInit == Init => BookInv
<1> SUFFICES ASSUME Init PROVE BookInv
  OBVIOUS
<1>1. /\ wrote = << >> /\ sent = << >> /\ stream = << >> /\ seen = << >> /\ buffer = << >>
      /\ books = [n \in {0} |-> EmptyBook] /\ levels = EmptyBook
      /\ lastUpdateId = None /\ synchronized = FALSE /\ bridge = 0 /\ at = 0
      /\ bookHealth = "unknown" /\ fetches = {} /\ connected = FALSE /\ repeats = 0
  BY DEF Init
<1>2. EmptyBook \in [Prices -> Quantities]
  BY BookAssumption DEF EmptyBook
<1>3. 0 .. Len(wrote) = {0}
  BY <1>1
<1>4. ExchangeInv
  <2>1. books \in [0 .. Len(wrote) -> [Prices -> Quantities]]
    BY <1>1, <1>2, <1>3
  <2>2. BooksAgree
    BY <1>3 DEF BooksAgree
  <2> QED BY <1>1, <2>1, <2>2 DEF ExchangeInv
<1>5. NetworkInv
  <2>1. /\ << >> \in Seq(GoodEvents) /\ << >> \in Seq(Nat)
        /\ Len(<< >>) = 0 /\ 0 <= DedupCapacity
    BY BookAssumption
  <2> QED BY <1>1, <2>1 DEF NetworkInv
<1>6. LevelsInv
  BY <1>1, <1>2 DEF LevelsInv
<1>7. LoopInv
  <2>1. << >> \in Seq(GoodEvents) /\ Len(<< >>) = 0 /\ 0 \in 0 .. 0
    OBVIOUS
  <2> QED BY <1>1, <2>1 DEF LoopInv
<1>8. FetchInv
  BY <1>1 DEF FetchInv, HealthTellsSync, OneFetch
<1> QED BY <1>4, <1>5, <1>6, <1>7, <1>8 DEF BookInv

-----------------------------------------------------------------------------
(* The exchange and the network.                                             *)

\* What the events depend on is left alone.
LEMMA SameEvents ==
  ASSUME UNCHANGED <<books, wrote>>
  PROVE  GoodEvents' = GoodEvents
BY DEF GoodEvents, Touched

\* An update adds a book, and leaves every earlier one and every event as they are.
LEMMA UpdateKeeps ==
  ASSUME ExchangeInv, NEW p \in Prices, NEW q \in Quantities, Update(p, q)
  PROVE  /\ ExchangeInv' /\ GoodEvents \subseteq GoodEvents'
         /\ 0 .. Len(wrote) \subseteq 0 .. Len(wrote')
         /\ \A n \in 0 .. Len(wrote) : books'[n] = books[n]
<1> PICK k : k = Len(wrote)
  OBVIOUS
<1>1. /\ k \in Nat /\ wrote \in Seq(Prices) /\ wrote' = Append(wrote, p)
      /\ books \in [0 .. k -> [Prices -> Quantities]]
      /\ books' = [n \in DOMAIN books \cup {k + 1} |->
                     IF n = k + 1 THEN [books[k] EXCEPT ![p] = q] ELSE books[n]]
      /\ sent' = sent
  BY DEF Update, ExchangeInv
<1>2. /\ wrote' \in Seq(Prices) /\ Len(wrote') = k + 1
      /\ wrote'[k + 1] = p /\ \A i \in 1 .. k : wrote'[i] = wrote[i]
  BY <1>1
<1>3. 0 .. k + 1 = 0 .. k \cup {k + 1} /\ k \in 0 .. k /\ k + 1 \notin 0 .. k
  BY <1>1
<1>4. /\ books' \in [0 .. k + 1 -> [Prices -> Quantities]]
      /\ books'[k + 1] = [books[k] EXCEPT ![p] = q]
      /\ \A n \in 0 .. k : books'[n] = books[n]
  BY <1>1, <1>3
<1>5. ASSUME NEW m \in 0 .. k, NEW n \in 0 .. k
      PROVE  Touched(m, n)' = Touched(m, n)
  BY <1>1, <1>2, <1>5 DEF Touched
<1>6. ASSUME NEW m \in 0 .. k PROVE Touched(m, k + 1)' = Touched(m, k) \cup {p}
  <2>1. m + 1 .. k + 1 = (m + 1 .. k) \cup {k + 1}
    BY <1>1, <1>6
  <2>2. \A i \in m + 1 .. k : wrote'[i] = wrote[i]
    BY <1>1, <1>2, <1>6
  <2>3. Touched(m, k + 1)' = {wrote'[i] : i \in m + 1 .. k + 1}
    BY DEF Touched
  <2>4. Touched(m, k) = {wrote'[i] : i \in m + 1 .. k}
    BY <2>2 DEF Touched
  <2>5. {wrote'[i] : i \in (m + 1 .. k) \cup {k + 1}} = {wrote'[i] : i \in m + 1 .. k} \cup {wrote'[k + 1]}
    BY Zenon
  <2> QED BY <1>2, <2>1, <2>3, <2>4, <2>5
<1>7. BooksAgree'
  <2> SUFFICES ASSUME NEW m \in 0 .. k + 1, NEW n \in 0 .. k + 1, m <= n, NEW r \in Prices,
                      r \notin Touched(m, n)'
               PROVE  books'[n][r] = books'[m][r]
    BY <1>2 DEF BooksAgree
  <2>1. \A i, j \in 0 .. k : i <= j /\ r \notin Touched(i, j) => books[j][r] = books[i][r]
    BY DEF ExchangeInv, BooksAgree
  <2>2. CASE n \in 0 .. k
    <3>1. m \in 0 .. k
      BY <1>1, <2>2
    <3> QED BY <1>4, <1>5, <2>1, <2>2, <3>1
  <2>3. CASE n = k + 1 /\ m \in 0 .. k
    <3>1. r # p /\ r \notin Touched(m, k) /\ m <= k /\ k \in 0 .. k
      BY <1>1, <1>6, <2>3
    <3>2. books'[n][r] = books[k][r]
      BY <1>1, <1>3, <1>4, <2>3, <3>1
    <3> QED BY <1>4, <2>1, <2>3, <3>1, <3>2
  <2>4. CASE n = m
    BY <2>4
  <2> QED BY <1>1, <1>3, <2>2, <2>3, <2>4
<1>8. GoodEvents \subseteq GoodEvents'
  <2> SUFFICES ASSUME NEW e \in GoodEvents PROVE e \in GoodEvents'
    OBVIOUS
  <2>1. /\ e \in Events /\ e.pu < e.final /\ e.first = e.pu + 1 /\ e.final \in 0 .. k
        /\ DOMAIN e.levels = Touched(e.pu, e.final)
        /\ \A r \in DOMAIN e.levels : e.levels[r] = books[e.final][r]
    BY DEF GoodEvents
  <2>2. e.pu \in 0 .. k /\ e.final \in 0 .. Len(wrote')
    BY <1>1, <1>2, <2>1 DEF Events
  <2>3. Touched(e.pu, e.final)' = Touched(e.pu, e.final) /\ books'[e.final] = books[e.final]
    BY <1>4, <1>5, <2>1, <2>2
  <2> QED BY <2>1, <2>2, <2>3 DEF GoodEvents, Touched
<1>9. sent' \in Seq(GoodEvents')
  BY <1>1, <1>8, SeqWider DEF ExchangeInv
<1>10. ExchangeInv'
  BY <1>2, <1>4, <1>7, <1>9 DEF ExchangeInv
<1> QED BY <1>2, <1>3, <1>4, <1>8, <1>10

\* An event that covers the update of the book brings the book to its final update.
LEMMA ApplyLevels ==
  ASSUME ExchangeInv, LevelsInv, synchronized, NEW e \in GoodEvents,
         e.pu <= lastUpdateId, lastUpdateId <= e.final
  PROVE  WithLevels(e) = books[e.final]
<1> PICK k : k = Len(wrote)
  OBVIOUS
<1> PICK n : n = lastUpdateId
  OBVIOUS
<1>1. /\ k \in Nat /\ n \in 0 .. k /\ levels = books[n]
      /\ e.pu <= n /\ n <= e.final
      /\ books \in [0 .. k -> [Prices -> Quantities]]
  BY DEF ExchangeInv, LevelsInv
<1>2. /\ e.final \in 0 .. k /\ e.pu \in Nat
      /\ DOMAIN e.levels = Touched(e.pu, e.final)
      /\ \A r \in DOMAIN e.levels : e.levels[r] = books[e.final][r]
  BY DEF GoodEvents, Events
<1>3. Touched(n, e.final) \subseteq Touched(e.pu, e.final)
  <2>1. n + 1 .. e.final \subseteq e.pu + 1 .. e.final
    BY <1>1, <1>2
  <2> QED BY <2>1 DEF Touched
<1>4. books[e.final] \in [Prices -> Quantities]
  BY <1>1, <1>2
<1>5. ASSUME NEW p \in Prices
      PROVE  (IF p \in DOMAIN e.levels THEN e.levels[p] ELSE levels[p]) = books[e.final][p]
  <2>1. CASE p \in DOMAIN e.levels
    BY <1>2, <2>1
  <2>2. CASE p \notin DOMAIN e.levels
    <3>1. p \notin Touched(n, e.final)
      BY <1>2, <1>3, <2>2
    <3>2. books[e.final][p] = books[n][p]
      BY <1>1, <1>2, <3>1 DEF ExchangeInv, BooksAgree
    <3> QED BY <1>1, <2>2, <3>2
  <2> QED BY <2>1, <2>2
<1> QED BY <1>4, <1>5 DEF WithLevels

\* What the exchange sends is an event.
LEMMA PublishGood ==
  ASSUME ExchangeInv, Announced < Len(wrote)
  PROVE  /\ Announced \in 0 .. Len(wrote)
         /\ EventOf(Announced, Len(wrote)) \in GoodEvents
<1> DEFINE a == Announced
           k == Len(wrote)
           T == Touched(a, k)
           e == EventOf(a, k)
<1>1. k \in Nat /\ wrote \in Seq(Prices) /\ books \in [0 .. k -> [Prices -> Quantities]]
  BY DEF ExchangeInv
<1>2. a \in 0 .. k
  <2>1. CASE sent = << >>
    BY <1>1, <2>1 DEF Announced
  <2>2. CASE sent # << >>
    <3>1. sent[Len(sent)] \in GoodEvents
      BY <2>2 DEF ExchangeInv
    <3> QED BY <2>2, <3>1 DEF Announced, GoodEvents
  <2> QED BY <2>1, <2>2
<1>3. T \subseteq Prices
  BY <1>1, <1>2 DEF Touched
<1>4. books[k] \in [Prices -> Quantities]
  BY <1>1
<1>5. e = [first |-> a + 1, final |-> k, pu |-> a, levels |-> [p \in T |-> books[k][p]]]
  BY DEF EventOf
<1> HIDE DEF a, k, T, e
<1>6. [p \in T |-> books[k][p]] \in [T -> Quantities]
  BY <1>3, <1>4
<1>7. e \in Events
  BY <1>1, <1>2, <1>3, <1>5, <1>6 DEF Events
<1>8. e.pu = a /\ e.final = k /\ e.first = a + 1 /\ e.levels = [p \in T |-> books[k][p]]
  BY <1>5
<1>9. e \in GoodEvents
  <2>1. e.pu < e.final /\ e.first = e.pu + 1 /\ e.final \in 0 .. Len(wrote)
    BY <1>1, <1>2, <1>8 DEF a, k
  <2>2. DOMAIN e.levels = Touched(e.pu, e.final)
    BY <1>8 DEF T
  <2>3. \A p \in DOMAIN e.levels : e.levels[p] = books[e.final][p]
    BY <1>8
  <2> QED BY <1>7, <2>1, <2>2, <2>3 DEF GoodEvents
<1> QED BY <1>2, <1>9 DEF a, k, e

\* What leaves a part of the state alone leaves its invariant alone.
LEMMA QuietExchange ==
  ASSUME ExchangeInv, UNCHANGED exchange
  PROVE  ExchangeInv' /\ GoodEvents' = GoodEvents /\ Len(wrote)' = Len(wrote)
<1>1. books' = books /\ wrote' = wrote /\ sent' = sent
  BY DEF exchange
<1>2. GoodEvents' = GoodEvents
  BY <1>1, SameEvents
<1>3. BooksAgree'
  BY <1>1 DEF ExchangeInv, BooksAgree, Touched
<1> QED BY <1>1, <1>2, <1>3 DEF ExchangeInv

LEMMA QuietNetwork ==
  ASSUME NetworkInv, UNCHANGED <<network, seen>>, GoodEvents \subseteq GoodEvents'
  PROVE  NetworkInv'
<1>1. Seq(GoodEvents) \subseteq Seq(GoodEvents')
  BY SeqWider
<1> QED BY <1>1 DEF NetworkInv, network

LEMMA QuietBook ==
  ASSUME ExchangeInv, LevelsInv, LoopInv, FetchInv, UNCHANGED <<book, bookHealth, fetches>>,
         GoodEvents \subseteq GoodEvents', 0 .. Len(wrote) \subseteq 0 .. Len(wrote'),
         \A n \in 0 .. Len(wrote) : books'[n] = books[n]
  PROVE  LevelsInv' /\ LoopInv' /\ FetchInv'
<1>1. /\ levels' = levels /\ lastUpdateId' = lastUpdateId /\ synchronized' = synchronized
      /\ buffer' = buffer /\ bridge' = bridge /\ at' = at
      /\ bookHealth' = bookHealth /\ fetches' = fetches
  BY DEF book
<1>2. LevelsInv'
  BY <1>1 DEF LevelsInv, None
<1>3. LoopInv'
  <2>1. Seq(GoodEvents) \subseteq Seq(GoodEvents')
    BY SeqWider
  <2> QED BY <1>1, <2>1 DEF LoopInv, Bridges
<1>4. FetchInv'
  BY <1>1 DEF FetchInv, HealthTellsSync, OneFetch, LoopFree
<1> QED BY <1>2, <1>3, <1>4

LEMMA UpdateStep ==
  ASSUME BookInv, NEW p \in Prices, NEW q \in Quantities, Update(p, q)
  PROVE  BookInv'
<1>1. /\ ExchangeInv' /\ GoodEvents \subseteq GoodEvents'
      /\ 0 .. Len(wrote) \subseteq 0 .. Len(wrote')
      /\ \A n \in 0 .. Len(wrote) : books'[n] = books[n]
  BY UpdateKeeps DEF BookInv
<1>2. NetworkInv'
  BY <1>1, QuietNetwork DEF BookInv, Update
<1>3. LevelsInv' /\ LoopInv' /\ FetchInv'
  BY <1>1, QuietBook DEF BookInv, Update
<1> QED BY <1>1, <1>2, <1>3 DEF BookInv

LEMMA PublishStep ==
  ASSUME BookInv, Publish
  PROVE  BookInv'
<1> DEFINE e == EventOf(Announced, Len(wrote))
<1>1. e \in GoodEvents
  BY PublishGood DEF BookInv, Publish
<1>2. /\ UNCHANGED <<books, wrote, connected, repeats, seen, book, bookHealth, fetches>>
      /\ sent' = Append(sent, e) /\ stream' \in {stream, Append(stream, e)}
  BY DEF Publish
<1> HIDE DEF e
<1>3. GoodEvents' = GoodEvents
  BY <1>2, SameEvents
<1>4. BooksAgree'
  BY <1>2 DEF BookInv, ExchangeInv, BooksAgree, Touched
<1>5. ExchangeInv'
  BY <1>1, <1>2, <1>3, <1>4 DEF BookInv, ExchangeInv
<1>6. NetworkInv'
  <2>1. stream' \in Seq(GoodEvents)
    <3>1. stream \in Seq(GoodEvents)
      BY DEF BookInv, NetworkInv
    <3>2. Append(stream, e) \in Seq(GoodEvents)
      BY <1>1, <3>1
    <3> QED BY <1>2, <3>1, <3>2
  <2>2. seen' = seen /\ connected' = connected /\ repeats' = repeats
    BY DEF Publish
  <2> QED BY <1>3, <2>1, <2>2 DEF BookInv, NetworkInv
<1>7. LevelsInv' /\ LoopInv' /\ FetchInv'
  BY <1>2, <1>3, QuietBook DEF BookInv
<1> QED BY <1>5, <1>6, <1>7 DEF BookInv

LEMMA DisconnectStep ==
  ASSUME BookInv, Disconnect
  PROVE  BookInv'
<1>1. ExchangeInv' /\ GoodEvents' = GoodEvents /\ Len(wrote)' = Len(wrote)
  BY QuietExchange DEF BookInv, Disconnect
<1>2. NetworkInv'
  <2>1. PICK n \in 0 .. Len(stream) : stream' = SubSeq(stream, 1, n)
    BY DEF Disconnect
  <2>2. stream \in Seq(GoodEvents)
    BY DEF BookInv, NetworkInv
  <2>3. stream' \in Seq(GoodEvents)
    BY <2>1, <2>2, SubSeqProperties
  <2> QED BY <1>1, <2>3 DEF BookInv, NetworkInv, Disconnect
<1>3. LevelsInv' /\ LoopInv' /\ FetchInv'
  BY <1>1, QuietBook DEF BookInv, Disconnect, exchange
<1> QED BY <1>1, <1>2, <1>3 DEF BookInv

LEMMA ConnectStep ==
  ASSUME BookInv, Connect
  PROVE  BookInv'
<1>1. ExchangeInv' /\ GoodEvents' = GoodEvents /\ Len(wrote)' = Len(wrote)
  BY QuietExchange DEF BookInv, Connect
<1>2. NetworkInv'
  <2>1. stream \in Seq(GoodEvents) /\ sent \in Seq(GoodEvents) /\ repeats \in Nat
    BY DEF BookInv, NetworkInv, ExchangeInv
  <2>2. stream' \in Seq(GoodEvents) /\ repeats' \in Nat
    <3>1. CASE UNCHANGED <<stream, repeats>>
      BY <2>1, <3>1
    <3>2. ASSUME NEW n \in 1 .. Len(sent), stream' = stream \o SubSeq(sent, n, Len(sent)),
                 repeats' = repeats + 1
          PROVE  stream' \in Seq(GoodEvents) /\ repeats' \in Nat
      <4>1. SubSeq(sent, n, Len(sent)) \in Seq(GoodEvents)
        BY <2>1, SubSeqProperties
      <4> QED BY <2>1, <3>2, <4>1
    <3> QED BY <3>1, <3>2 DEF Connect
  <2>3. connected' \in BOOLEAN /\ seen' = seen
    BY DEF Connect
  <2> QED BY <1>1, <2>2, <2>3 DEF BookInv, NetworkInv
<1>3. LevelsInv' /\ LoopInv' /\ FetchInv'
  BY <1>1, QuietBook DEF BookInv, Connect, exchange
<1> QED BY <1>1, <1>2, <1>3 DEF BookInv

LEMMA AnswerStep ==
  ASSUME BookInv, ServeSnapshot \/ SnapshotFails
  PROVE  BookInv'
<1>1. UNCHANGED <<exchange, network, seen, book, bookHealth>>
  BY DEF ServeSnapshot, SnapshotFails
<1>2. ExchangeInv' /\ GoodEvents' = GoodEvents /\ Len(wrote)' = Len(wrote)
  BY <1>1, QuietExchange DEF BookInv
<1>3. NetworkInv'
  BY <1>1, <1>2, QuietNetwork DEF BookInv
<1>4. /\ levels' = levels /\ lastUpdateId' = lastUpdateId /\ synchronized' = synchronized
      /\ buffer' = buffer /\ bridge' = bridge /\ at' = at
      /\ bookHealth' = bookHealth /\ books' = books /\ wrote' = wrote
  BY <1>1 DEF book, exchange
<1>5. Len(wrote) \in 0 .. Len(wrote)
  BY DEF BookInv, ExchangeInv
<1>6. /\ fetches # {} /\ \A f, g \in fetches' : f = g
      /\ fetches' \subseteq {Requested} \cup 0 .. Len(wrote)
  BY <1>5 DEF BookInv, FetchInv, OneFetch, ServeSnapshot, SnapshotFails
<1>7. LevelsInv'
  BY <1>4 DEF BookInv, LevelsInv
<1>8. LoopInv'
  BY <1>2, <1>4, <1>6 DEF BookInv, LoopInv
<1>9. FetchInv'
  BY <1>4, <1>6 DEF BookInv, FetchInv, HealthTellsSync, OneFetch, LoopFree
<1> QED BY <1>2, <1>3, <1>7, <1>8, <1>9 DEF BookInv

-----------------------------------------------------------------------------
(* The deduplicator and on_depth.                                            *)

\* The deduplicator remembers no more events than its capacity.
LEMMA MovedKeepsWindow ==
  ASSUME NetworkInv, NEW u \in Nat, \E i \in 1 .. Len(seen) : seen[i] = u
  PROVE  MovedToEnd(u) \in Seq(Nat) /\ Len(MovedToEnd(u)) = Len(seen)
<1> DEFINE k == CHOOSE i \in 1 .. Len(seen) : seen[i] = u
<1> HIDE DEF k
<1>1. seen \in Seq(Nat) /\ Len(seen) \in Nat
  BY DEF NetworkInv
<1>2. ASSUME NEW i \in 1 .. Len(seen)
      PROVE  (IF i < k THEN seen[i] ELSE IF i = Len(seen) THEN u ELSE seen[i + 1]) \in Nat
  BY <1>1
<1>3. MovedToEnd(u) \in [1 .. Len(seen) -> Nat]
  BY <1>2 DEF MovedToEnd, k
<1> QED BY <1>1, <1>3

LEMMA RememberedKeepsWindow ==
  ASSUME NetworkInv, NEW u \in Nat
  PROVE  Remembered(u) \in Seq(Nat) /\ Len(Remembered(u)) <= DedupCapacity
BY BookAssumption DEF NetworkInv, Remembered

LEMMA DropDuplicateStep ==
  ASSUME BookInv, DropDuplicate
  PROVE  BookInv'
<1>1. ExchangeInv' /\ GoodEvents' = GoodEvents /\ Len(wrote)' = Len(wrote)
  BY QuietExchange DEF BookInv, DropDuplicate
<1>2. /\ stream \in Seq(GoodEvents) /\ stream # << >> /\ stream' = Tail(stream)
      /\ IsDuplicate(Head(stream)) /\ seen' = MovedToEnd(Head(stream).final)
      /\ connected' = connected /\ repeats' = repeats
  BY DEF BookInv, NetworkInv, DropDuplicate
<1>3. stream' \in Seq(GoodEvents) /\ Head(stream) \in GoodEvents
  BY <1>2
<1>4. Head(stream).final \in Nat
  BY <1>3 DEF GoodEvents, Events
<1>5. seen' \in Seq(Nat) /\ Len(seen') <= DedupCapacity
  BY <1>2, <1>4, MovedKeepsWindow DEF BookInv, NetworkInv, IsDuplicate
<1>6. NetworkInv'
  BY <1>1, <1>2, <1>3, <1>5 DEF BookInv, NetworkInv
<1>7. LevelsInv' /\ LoopInv' /\ FetchInv'
  BY <1>1, QuietBook DEF BookInv, DropDuplicate, exchange
<1> QED BY <1>1, <1>6, <1>7 DEF BookInv

\* What an accepted event does to the rest of the state.
LEMMA AcceptKeeps ==
  ASSUME BookInv, NEW e, Accept(e)
  PROVE  /\ e \in GoodEvents /\ ExchangeInv' /\ NetworkInv'
         /\ GoodEvents' = GoodEvents /\ books' = books /\ wrote' = wrote
         /\ at = 0 /\ at' = 0 /\ bridge = 0 /\ bridge' = 0 /\ LoopFree /\ LoopFree'
<1>1. ExchangeInv' /\ GoodEvents' = GoodEvents /\ Len(wrote)' = Len(wrote)
  BY QuietExchange DEF BookInv, Accept
<1>2. /\ stream \in Seq(GoodEvents) /\ stream # << >> /\ stream' = Tail(stream)
      /\ e = Head(stream) /\ seen' = Remembered(e.final)
      /\ connected' = connected /\ repeats' = repeats /\ at = 0 /\ at' = at /\ bridge' = bridge
  BY DEF BookInv, NetworkInv, Accept, LoopFree
<1>3. stream' \in Seq(GoodEvents) /\ e \in GoodEvents
  BY <1>2
<1>4. e.final \in Nat
  BY <1>3 DEF GoodEvents, Events
<1>5. seen' \in Seq(Nat) /\ Len(seen') <= DedupCapacity
  BY <1>2, <1>4, RememberedKeepsWindow DEF BookInv
<1>6. NetworkInv'
  BY <1>1, <1>2, <1>3, <1>5 DEF BookInv, NetworkInv
<1>7. bridge = 0
  BY <1>2 DEF BookInv, LoopInv
<1>8. books' = books /\ wrote' = wrote
  BY DEF Accept, exchange
<1> QED BY <1>1, <1>2, <1>3, <1>6, <1>7, <1>8 DEF LoopFree

\* A fetch is started when none is running.
LEMMA StartSyncKeeps ==
  ASSUME BookInv, StartSync
  PROVE  /\ \A f, g \in fetches' : f = g
         /\ fetches' # {} /\ fetches' \subseteq {Requested} \cup 0 .. Len(wrote)
BY DEF BookInv, FetchInv, OneFetch, StartSync

LEMMA IgnoreOldStep ==
  ASSUME BookInv, NEW e, IgnoreOld(e)
  PROVE  BookInv'
<1>1. /\ e \in GoodEvents /\ ExchangeInv' /\ NetworkInv'
      /\ GoodEvents' = GoodEvents /\ books' = books /\ wrote' = wrote
      /\ at = 0 /\ at' = 0 /\ bridge = 0 /\ bridge' = 0
  BY AcceptKeeps DEF IgnoreOld
<1>2. UNCHANGED <<book, bookHealth, fetches>>
  BY <1>1 DEF IgnoreOld, book
<1>3. LevelsInv' /\ LoopInv' /\ FetchInv'
  BY <1>1, <1>2, QuietBook DEF BookInv
<1> QED BY <1>1, <1>3 DEF BookInv

LEMMA ApplyNextStep ==
  ASSUME BookInv, NEW e, ApplyNext(e)
  PROVE  BookInv'
<1>1. /\ e \in GoodEvents /\ ExchangeInv' /\ NetworkInv'
      /\ GoodEvents' = GoodEvents /\ books' = books /\ wrote' = wrote
      /\ at = 0 /\ at' = 0 /\ bridge = 0 /\ bridge' = 0 /\ LoopFree /\ LoopFree'
  BY AcceptKeeps DEF ApplyNext
<1>2. /\ synchronized /\ synchronized' = synchronized /\ buffer' = buffer
      /\ bookHealth' = bookHealth /\ fetches' = fetches
      /\ levels' = WithLevels(e) /\ lastUpdateId' = e.final /\ e.pu = lastUpdateId
  BY DEF ApplyNext, Continues
<1>3. e.pu < e.final /\ e.pu \in Nat /\ e.final \in 0 .. Len(wrote)
  BY <1>1 DEF GoodEvents, Events
<1>4. levels' = books[e.final] /\ books[e.final] \in [Prices -> Quantities]
  <2>1. WithLevels(e) = books[e.final]
    BY <1>1, <1>2, <1>3, ApplyLevels DEF BookInv
  <2> QED BY <1>2, <1>3, <2>1 DEF BookInv, ExchangeInv
<1>5. LevelsInv'
  <2>1. e.final # None
    BY <1>3 DEF None
  <2> QED BY <1>1, <1>2, <1>3, <1>4, <2>1 DEF BookInv, LevelsInv
<1>6. LoopInv'
  BY <1>1, <1>2 DEF BookInv, LoopInv
<1>7. FetchInv'
  BY <1>1, <1>2 DEF BookInv, FetchInv, HealthTellsSync, OneFetch
<1> QED BY <1>1, <1>5, <1>6, <1>7 DEF BookInv

\* The event goes to the buffer of a book that is not, or no longer, synchronized.
LEMMA HeldStep ==
  ASSUME BookInv, NEW e, DetectGap(e) \/ BufferEvent(e)
  PROVE  BookInv'
<1>1. Accept(e) /\ StartSync /\ buffer' = Append(buffer, e) /\ UNCHANGED <<levels, lastUpdateId>>
  BY DEF DetectGap, BufferEvent
<1>2. /\ e \in GoodEvents /\ ExchangeInv' /\ NetworkInv'
      /\ GoodEvents' = GoodEvents /\ books' = books /\ wrote' = wrote
      /\ at = 0 /\ at' = 0 /\ bridge = 0 /\ bridge' = 0 /\ LoopFree /\ LoopFree'
  BY <1>1, AcceptKeeps
<1>3. /\ \A f, g \in fetches' : f = g
      /\ fetches' # {} /\ fetches' \subseteq {Requested} \cup 0 .. Len(wrote)
  BY <1>1, StartSyncKeeps
<1>4. synchronized' = FALSE /\ bookHealth' \in {"unknown", "degraded"}
  BY <1>2 DEF BookInv, LevelsInv, FetchInv, HealthTellsSync, DetectGap, BufferEvent
<1>5. LevelsInv'
  BY <1>1, <1>2, <1>4 DEF BookInv, LevelsInv
<1>6. LoopInv'
  <2>1. buffer' \in Seq(GoodEvents)
    BY <1>1, <1>2 DEF BookInv, LoopInv
  <2> QED BY <1>2, <2>1 DEF LoopInv
<1>7. FetchInv'
  BY <1>2, <1>3, <1>4 DEF FetchInv, HealthTellsSync, OneFetch
<1> QED BY <1>2, <1>5, <1>6, <1>7 DEF BookInv

-----------------------------------------------------------------------------
(* _synchronize and initialize.                                              *)

\* The book is given up.
LEMMA ResetStep ==
  ASSUME BookInv, ResetBook, UNCHANGED <<exchange, network, seen>>, bookHealth' = "degraded",
         fetches' = {}
  PROVE  BookInv'
<1>1. ExchangeInv' /\ GoodEvents' = GoodEvents /\ Len(wrote)' = Len(wrote)
  BY QuietExchange DEF BookInv
<1>2. NetworkInv'
  BY <1>1, QuietNetwork DEF BookInv
<1>3. /\ levels' = EmptyBook /\ lastUpdateId' = None /\ synchronized' = FALSE
      /\ buffer' = << >> /\ bridge' = 0 /\ at' = 0
  BY DEF ResetBook
<1>4. EmptyBook \in [Prices -> Quantities]
  BY BookAssumption DEF EmptyBook
<1>5. LevelsInv'
  BY <1>3, <1>4 DEF LevelsInv
<1>6. LoopInv'
  <2>1. << >> \in Seq(GoodEvents) /\ Len(<< >>) = 0 /\ 0 \in 0 .. 0
    OBVIOUS
  <2> QED BY <1>1, <1>3, <2>1 DEF LoopInv
<1>7. FetchInv'
  BY <1>3 DEF FetchInv, HealthTellsSync, OneFetch
<1> QED BY <1>1, <1>2, <1>5, <1>6, <1>7 DEF BookInv

\* The fetch whose answer arrives was the only one.
LEMMA LastFetch ==
  ASSUME BookInv, LoopFree, NEW n \in fetches
  PROVE  fetches \ {n} = {} /\ ~synchronized
BY DEF BookInv, FetchInv, OneFetch

LEMMA InstallStep ==
  ASSUME BookInv, NEW n \in fetches, InstallSnapshot(n)
  PROVE  BookInv'
<1>1. ExchangeInv' /\ GoodEvents' = GoodEvents /\ Len(wrote)' = Len(wrote)
  BY QuietExchange DEF BookInv, InstallSnapshot
<1>2. NetworkInv'
  BY <1>1, QuietNetwork DEF BookInv, InstallSnapshot
<1>3. /\ levels' = books[n] /\ lastUpdateId' = n /\ synchronized' = TRUE
      /\ fetches' = {} /\ buffer' = buffer /\ bookHealth' = bookHealth
      /\ n \in 0 .. Len(wrote) /\ books' = books
  BY LastFetch DEF BookInv, FetchInv, InstallSnapshot, exchange
<1>4. PICK i \in 1 .. Len(buffer) : Bridges(buffer[i], n) /\ bridge' = i /\ at' = i
  BY DEF InstallSnapshot, FirstBridge
<1>5. books[n] \in [Prices -> Quantities] /\ n # None
  BY <1>3 DEF BookInv, ExchangeInv, None
<1>6. LevelsInv'
  BY <1>1, <1>3, <1>5 DEF LevelsInv
<1>7. LoopInv'
  BY <1>1, <1>3, <1>4 DEF BookInv, LoopInv, Bridges
<1>8. FetchInv'
  <2>1. ~LoopFree'
    BY <1>4 DEF LoopFree
  <2> QED BY <1>3, <2>1 DEF BookInv, FetchInv, HealthTellsSync, OneFetch
<1> QED BY <1>1, <1>2, <1>6, <1>7, <1>8 DEF BookInv

LEMMA RefuseStep ==
  ASSUME BookInv, NEW n \in fetches, RefuseSnapshot(n)
  PROVE  BookInv'
<1>1. fetches' = {}
  BY LastFetch DEF RefuseSnapshot
<1> QED BY <1>1, ResetStep DEF RefuseSnapshot

\* While the loop runs the book is synchronized and no fetch is under way.
LEMMA LoopFacts ==
  ASSUME BookInv, ~LoopFree
  PROVE  /\ synchronized /\ fetches = {} /\ at \in 1 .. Len(buffer)
         /\ buffer \in Seq(GoodEvents) /\ buffer[at] \in GoodEvents
         /\ lastUpdateId \in 0 .. Len(wrote) /\ levels = books[lastUpdateId]
BY DEF BookInv, LevelsInv, LoopInv, LoopFree

\* An iteration that leaves a synchronized book behind it.
LEMMA IterationStep ==
  ASSUME BookInv, ~LoopFree, NextIteration, UNCHANGED <<exchange, network, seen, fetches>>,
         synchronized', LevelsInv'
  PROVE  BookInv'
<1>1. ExchangeInv' /\ GoodEvents' = GoodEvents /\ Len(wrote)' = Len(wrote)
  BY QuietExchange DEF BookInv
<1>2. NetworkInv'
  BY <1>1, QuietNetwork DEF BookInv
<1>3. at \in 1 .. Len(buffer) /\ buffer \in Seq(GoodEvents) /\ fetches' = {} /\ bridge \in 0 .. at
  BY LoopFacts DEF BookInv, LoopInv
<1>4. CASE at = Len(buffer)
  <2>1. at' = 0 /\ bridge' = 0 /\ buffer' = << >> /\ bookHealth' = "healthy"
    BY <1>4 DEF NextIteration
  <2>2. << >> \in Seq(GoodEvents) /\ Len(<< >>) = 0 /\ 0 \in 0 .. 0
    OBVIOUS
  <2>3. LoopInv'
    BY <1>1, <2>1, <2>2 DEF LoopInv
  <2>4. FetchInv'
    BY <1>3, <2>1 DEF FetchInv, HealthTellsSync, OneFetch, LevelsInv
  <2> QED BY <1>1, <1>2, <2>3, <2>4 DEF BookInv
<1>5. CASE at # Len(buffer)
  <2>1. at' = at + 1 /\ bridge' = bridge /\ buffer' = buffer /\ bookHealth' = bookHealth
    BY <1>5 DEF NextIteration
  <2>2. at' \in 1 .. Len(buffer) /\ bridge' \in 0 .. at' /\ at' # bridge'
    BY <1>3, <1>5, <2>1
  <2>3. LoopInv'
    BY <1>1, <1>3, <2>1, <2>2 DEF LoopInv
  <2>4. FetchInv'
    BY <1>3, <2>1, <2>2 DEF BookInv, FetchInv, HealthTellsSync, OneFetch, LoopFree
  <2> QED BY <1>1, <1>2, <2>3, <2>4 DEF BookInv
<1> QED BY <1>4, <1>5

LEMMA ReplaySkipsStep ==
  ASSUME BookInv, ReplaySkips
  PROVE  BookInv'
<1>1. LevelsInv' /\ synchronized'
  BY LoopFacts DEF BookInv, LevelsInv, ReplaySkips, exchange
<1> QED BY <1>1, IterationStep DEF ReplaySkips

LEMMA ReplayAppliesStep ==
  ASSUME BookInv, ReplayApplies
  PROVE  BookInv'
<1> DEFINE e == buffer[at]
<1>1. /\ synchronized /\ e \in GoodEvents /\ lastUpdateId \in 0 .. Len(wrote)
  BY LoopFacts DEF ReplayApplies
<1>2. /\ ~Old(e) /\ Replayable(e) /\ levels' = WithLevels(e) /\ lastUpdateId' = e.final
      /\ synchronized' = synchronized /\ books' = books /\ wrote' = wrote
  BY DEF ReplayApplies, exchange
<1>3. /\ e.pu < e.final /\ e.first = e.pu + 1 /\ e.pu \in Nat /\ e.final \in 0 .. Len(wrote)
  BY <1>1 DEF GoodEvents, Events
<1>4. e.pu <= lastUpdateId /\ lastUpdateId <= e.final
  <2>1. CASE at = bridge
    <3>1. Bridges(e, lastUpdateId)
      BY <2>1 DEF BookInv, LoopInv, ReplayApplies, LoopFree
    <3> HIDE DEF e
    <3> QED BY <1>1, <1>3, <3>1 DEF Bridges
  <2>2. CASE e.pu = lastUpdateId
    <3> HIDE DEF e
    <3> QED BY <1>1, <1>3, <2>2
  <2> QED BY <1>2, <2>1, <2>2 DEF Replayable, Continues
<1> HIDE DEF e
<1>5. levels' = books[e.final] /\ books[e.final] \in [Prices -> Quantities]
  <2>1. WithLevels(e) = books[e.final]
    BY <1>1, <1>4, ApplyLevels DEF BookInv
  <2> QED BY <1>2, <1>3, <2>1 DEF BookInv, ExchangeInv
<1>6. LevelsInv'
  <2>1. e.final # None
    BY <1>3 DEF None
  <2> QED BY <1>1, <1>2, <1>3, <1>5, <2>1 DEF BookInv, LevelsInv
<1> QED BY <1>1, <1>2, <1>6, IterationStep DEF ReplayApplies

LEMMA ReplayGapStep ==
  ASSUME BookInv, ReplayGap
  PROVE  BookInv'
<1>1. fetches' = {}
  BY LoopFacts DEF ReplayGap
<1> QED BY <1>1, ResetStep DEF ReplayGap

LEMMA BookInvStep == BookInv /\ [Next]_vars => BookInv'
<1> SUFFICES ASSUME BookInv, [Next]_vars PROVE BookInv'
  OBVIOUS
<1>1. CASE \E p \in Prices, q \in Quantities : Update(p, q)
  BY <1>1, UpdateStep
<1>2. CASE Publish
  BY <1>2, PublishStep
<1>3. CASE ServeSnapshot \/ SnapshotFails
  BY <1>3, AnswerStep
<1>4. CASE Connect
  BY <1>4, ConnectStep
<1>5. CASE Disconnect
  BY <1>5, DisconnectStep
<1>6. CASE DropDuplicate
  BY <1>6, DropDuplicateStep
<1>7. CASE OnDepth
  BY <1>7, IgnoreOldStep, ApplyNextStep, HeldStep DEF OnDepth
<1>8. CASE Synchronize
  BY <1>8, InstallStep, RefuseStep, ReplaySkipsStep, ReplayAppliesStep, ReplayGapStep DEF Synchronize
<1>9. CASE UNCHANGED vars
  <2>1. /\ UNCHANGED exchange /\ UNCHANGED <<network, seen>>
        /\ UNCHANGED <<book, bookHealth, fetches>>
    BY <1>9 DEF vars
  <2>2. ExchangeInv' /\ GoodEvents' = GoodEvents /\ Len(wrote)' = Len(wrote)
    BY <2>1, QuietExchange DEF BookInv
  <2>3. NetworkInv'
    BY <2>1, <2>2, QuietNetwork DEF BookInv
  <2>4. LevelsInv' /\ LoopInv' /\ FetchInv'
    BY <2>1, <2>2, QuietBook DEF BookInv, exchange
  <2> QED BY <2>2, <2>3, <2>4 DEF BookInv
<1> QED BY <1>1, <1>2, <1>3, <1>4, <1>5, <1>6, <1>7, <1>8, <1>9 DEF Next, Exchange, Network

LEMMA BookInvHolds == Spec => []BookInv
BY BookInvInit, BookInvStep, PTL DEF Spec

\* Every variable keeps its type, and a synchronized book knows the update it stands at
\* (LocalOrderBook, MarketDataHealth, BoundedDeduplicator).
THEOREM BookTypeCorrect == Spec => []TypeOK
BY BookInvHolds, BookInvImplies, PTL

\* The health of the book is healthy exactly while the book is synchronized (on_depth,
\* _synchronize, mark_order_book).
THEOREM HealthIsSync == Spec => []HealthTellsSync
BY BookInvHolds, BookInvImplies, PTL

\* Never two fetches at a time, and none for a synchronized book (_start_sync).
THEOREM FetchesAreSingle == Spec => []OneFetch
BY BookInvHolds, BookInvImplies, PTL

\* An event that cannot be applied leaves a fetch under way (on_depth).
THEOREM GapsAreFetched == Spec => GapStartsFetch
<1>1. OnDepth => synchronized' \/ fetches' # {}
  <2> SUFFICES ASSUME NEW e, IgnoreOld(e) \/ ApplyNext(e) \/ DetectGap(e) \/ BufferEvent(e)
               PROVE  synchronized' \/ fetches' # {}
    BY DEF OnDepth
  <2>1. CASE IgnoreOld(e) \/ ApplyNext(e)
    BY <2>1 DEF IgnoreOld, ApplyNext
  <2>2. CASE DetectGap(e) \/ BufferEvent(e)
    BY <2>2 DEF DetectGap, BufferEvent, StartSync
  <2> QED BY <2>1, <2>2
<1> QED BY <1>1, PTL DEF GapStartsFetch

-----------------------------------------------------------------------------
(* Without repeated events nothing is left out.  What the deduplicator has    *)
(* seen is older than everything on its way, and a buffer ends with the newest *)
(* event seen; so the loop that applies the whole buffer ends at that event.   *)

Behind(ids, u) == \A s \in ids : s <= u

SeenIds == {seen[i] : i \in 1 .. Len(seen)}
Finals(q) == {q[i].final : i \in 1 .. Len(q)}
Rising(q) == \A i, j \in 1 .. Len(q) : i < j => q[i].final < q[j].final

OrderInv ==
  /\ Rising(stream) /\ Behind(Finals(stream), Announced) /\ Behind(SeenIds, Announced)
  /\ \A s \in SeenIds, u \in Finals(stream) : s < u

LeftInv ==
  /\ LoopFree /\ synchronized => buffer = << >> /\ Behind(SeenIds, lastUpdateId)
  /\ buffer # << >> => Behind(SeenIds, buffer[Len(buffer)].final)

CompleteInv == repeats = 0 => OrderInv /\ LeftInv

LEMMA CompleteInvInit == Init => CompleteInv
BY DEF Init, CompleteInv, OrderInv, LeftInv, Rising, Behind, SeenIds, Finals

\* The numbers that the order is about.
LEMMA OrderTypes ==
  ASSUME BookInv
  PROVE  /\ SeenIds \subseteq Nat /\ Announced \in Nat /\ Len(wrote) \in Nat
         /\ \A i \in 1 .. Len(stream) : stream[i] \in GoodEvents /\ stream[i].final \in Nat
         /\ \A i \in 1 .. Len(buffer) : buffer[i] \in GoodEvents /\ buffer[i].final \in Nat
<1>1. seen \in Seq(Nat) /\ stream \in Seq(GoodEvents) /\ buffer \in Seq(GoodEvents)
      /\ sent \in Seq(GoodEvents)
  BY DEF BookInv, NetworkInv, LoopInv, ExchangeInv
<1>2. \A e \in GoodEvents : e.final \in Nat
  BY DEF GoodEvents, Events
<1>3. SeenIds \subseteq Nat
  BY <1>1 DEF SeenIds
<1>4. Announced \in Nat
  <2>1. CASE sent = << >>
    BY <2>1 DEF Announced
  <2>2. CASE sent # << >>
    BY <1>1, <1>2, <2>2 DEF Announced
  <2> QED BY <2>1, <2>2
<1>5. Len(wrote) \in Nat
  BY DEF BookInv, ExchangeInv
<1> QED BY <1>1, <1>2, <1>3, <1>4, <1>5

\* An accepted event is newer than everything seen before it.
LEMMA AcceptOrder ==
  ASSUME BookInv, CompleteInv, repeats = 0, NEW e, Accept(e)
  PROVE  /\ OrderInv' /\ SeenIds' \subseteq SeenIds \cup {e.final}
         /\ \A s \in SeenIds : s < e.final
         /\ e.final \in Nat /\ Behind(SeenIds', e.final)
<1>1. /\ stream \in Seq(GoodEvents) /\ stream # << >> /\ e = Head(stream) /\ e = stream[1]
      /\ stream' = Tail(stream) /\ seen' = Remembered(e.final) /\ sent' = sent
      /\ seen \in Seq(Nat)
  BY DEF BookInv, NetworkInv, Accept, exchange
<1>2. /\ Len(stream) \in Nat \ {0} /\ Len(stream') = Len(stream) - 1
      /\ \A i \in 1 .. Len(stream') : i + 1 \in 1 .. Len(stream) /\ stream'[i] = stream[i + 1]
  BY <1>1
<1>3. e.final \in Nat /\ e.final \in Finals(stream)
  BY <1>1, <1>2, OrderTypes DEF Finals
<1>4. OrderInv
  BY DEF CompleteInv
<1>5. SeenIds' \subseteq SeenIds \cup {e.final}
  <2>1. CASE Len(seen) < DedupCapacity
    BY <1>1, <1>3, <2>1 DEF Remembered, SeenIds
  <2>2. CASE ~(Len(seen) < DedupCapacity)
    <3>1. Len(seen) > 0
      BY <1>1, <2>2, BookAssumption
    <3>2. seen' = Append(Tail(seen), e.final)
      BY <1>1, <2>2 DEF Remembered
    <3> QED BY <1>1, <1>3, <3>1, <3>2 DEF SeenIds
  <2> QED BY <2>1, <2>2
<1>6. \A s \in SeenIds : s < e.final
  BY <1>3, <1>4 DEF OrderInv
<1>7. Behind(SeenIds', e.final)
  BY <1>3, <1>5, <1>6, OrderTypes DEF Behind
<1>8. \A u \in Finals(stream)' : u \in Finals(stream) /\ e.final < u
  BY <1>1, <1>2, <1>4 DEF Finals, OrderInv, Rising
<1>9. OrderInv'
  <2>1. Rising(stream)'
    BY <1>2, <1>4 DEF OrderInv, Rising
  <2>2. Announced' = Announced
    BY <1>1 DEF Announced
  <2>3. e.final <= Announced
    BY <1>3, <1>4 DEF OrderInv, Behind
  <2>4. Behind(Finals(stream), Announced)' /\ Behind(SeenIds, Announced)'
    BY <1>4, <1>5, <1>8, <2>2, <2>3 DEF OrderInv, Behind
  <2>5. \A s \in SeenIds', u \in Finals(stream)' : s < u
    BY <1>3, <1>4, <1>5, <1>8 DEF OrderInv
  <2> QED BY <2>1, <2>4, <2>5 DEF OrderInv
<1> QED BY <1>3, <1>5, <1>6, <1>7, <1>9

\* What the exchange and the network do.
LEMMA CompleteOutside ==
  ASSUME BookInv, CompleteInv, repeats' = 0, UNCHANGED <<seen, book>>,
         Publish \/ Connect \/ Disconnect
  PROVE  CompleteInv'
<1>1. repeats = 0 /\ OrderInv /\ LeftInv
  <2>1. repeats = 0
    BY DEF BookInv, NetworkInv, Publish, Connect, Disconnect
  <2> QED BY <2>1 DEF CompleteInv
<1>2. LeftInv'
  BY <1>1 DEF LeftInv, book, LoopFree, SeenIds, Behind
<1>3. SeenIds' = SeenIds
  BY DEF SeenIds
<1>4. stream \in Seq(GoodEvents) /\ Len(stream) \in Nat
  BY DEF BookInv, NetworkInv
<1>5. CASE Publish
  <2> DEFINE e == EventOf(Announced, Len(wrote))
  <2>1. /\ sent' = Append(sent, e) /\ stream' \in {stream, Append(stream, e)} /\ sent \in Seq(GoodEvents)
    BY <1>5 DEF Publish, BookInv, ExchangeInv
  <2>2. e.final = Len(wrote) /\ Announced < Len(wrote)
    BY <1>5 DEF Publish, EventOf
  <2> HIDE DEF e
  <2>3. Announced' = Len(wrote)
    BY <2>1, <2>2 DEF Announced
  <2>4. Behind(Finals(stream), Announced) /\ Behind(SeenIds, Announced)
    BY <1>1 DEF OrderInv
  <2>5. CASE stream' = stream
    <3>1. Finals(stream)' = Finals(stream) /\ Rising(stream)'
      BY <1>1, <2>5 DEF OrderInv, Finals, Rising
    <3>2. \A u \in Finals(stream) : u \in Nat
      BY OrderTypes DEF Finals
    <3> QED BY <1>1, <1>2, <1>3, <2>2, <2>3, <2>4, <3>1, <3>2, OrderTypes
            DEF OrderInv, CompleteInv, Behind
  <2>6. CASE stream' = Append(stream, e)
    <3>1. /\ Len(stream') = Len(stream) + 1 /\ stream'[Len(stream) + 1] = e
          /\ \A i \in 1 .. Len(stream) : stream'[i] = stream[i]
      BY <1>4, <2>6
    <3>2. \A i \in 1 .. Len(stream) :
            stream[i].final <= Announced /\ stream[i].final \in Nat
      BY <2>4, OrderTypes DEF Finals, Behind
    <3>3. \A i \in 1 .. Len(stream') : i \in 1 .. Len(stream) \/ i = Len(stream) + 1
      BY <1>4, <3>1
    <3>4. Rising(stream)'
      BY <1>1, <1>4, <2>2, <3>1, <3>2, <3>3, OrderTypes DEF OrderInv, Rising
    <3>5. \A u \in Finals(stream)' : u \in Finals(stream) \/ u = Len(wrote)
      BY <2>2, <3>1, <3>3 DEF Finals
    <3>6. Behind(Finals(stream), Announced)' /\ Behind(SeenIds, Announced)'
      <4>1. \A u \in Finals(stream) : u \in Nat /\ u <= Announced
        BY <3>2 DEF Finals
      <4>2. \A s \in SeenIds : s \in Nat /\ s <= Announced
        BY <2>4, OrderTypes DEF Behind
      <4>3. \A u \in Finals(stream)' : u <= Announced'
        BY <2>2, <2>3, <3>5, <4>1, OrderTypes
      <4>4. \A s \in SeenIds' : s <= Announced'
        BY <1>3, <2>2, <2>3, <4>2, OrderTypes
      <4> QED BY <4>3, <4>4 DEF Behind
    <3>7. \A s \in SeenIds', u \in Finals(stream)' : s < u
      BY <1>1, <1>3, <2>2, <2>4, <3>5, OrderTypes DEF OrderInv, Behind
    <3> QED BY <1>2, <3>4, <3>6, <3>7 DEF OrderInv, CompleteInv
  <2> QED BY <2>1, <2>5, <2>6
<1>6. CASE Connect
  <2>1. stream' = stream /\ sent' = sent
    <3>1. repeats' # repeats + 1
      BY <1>1
    <3> QED BY <1>6, <3>1 DEF Connect, exchange
  <2>2. OrderInv'
    BY <1>1, <1>3, <2>1 DEF OrderInv, Rising, Finals, Announced, Behind
  <2> QED BY <1>2, <2>2 DEF CompleteInv
<1>7. CASE Disconnect
  <2>1. PICK n \in 0 .. Len(stream) : stream' = SubSeq(stream, 1, n)
    BY <1>7 DEF Disconnect
  <2>2. /\ Len(stream') = n /\ \A i \in 1 .. n : i \in 1 .. Len(stream) /\ stream'[i] = stream[i]
    BY <1>4, <2>1
  <2>3. Finals(stream)' \subseteq Finals(stream) /\ Rising(stream)'
    BY <1>1, <2>2 DEF Finals, Rising, OrderInv
  <2>4. Announced' = Announced
    BY <1>7 DEF Disconnect, exchange, Announced
  <2>5. OrderInv'
    BY <1>1, <1>3, <2>3, <2>4 DEF OrderInv, Behind
  <2> QED BY <1>2, <2>5 DEF CompleteInv
<1> QED BY <1>5, <1>6, <1>7

\* Nothing that happens inside the program touches the events on their way.
LEMMA OrderStays ==
  ASSUME OrderInv, UNCHANGED <<stream, sent, seen>>
  PROVE  OrderInv' /\ SeenIds' = SeenIds
BY DEF OrderInv, Rising, Finals, Announced, Behind, SeenIds

LEMMA CompleteAccept ==
  ASSUME BookInv, CompleteInv, repeats = 0, OnDepth
  PROVE  CompleteInv'
<1>1. PICK e : IgnoreOld(e) \/ ApplyNext(e) \/ DetectGap(e) \/ BufferEvent(e)
  BY DEF OnDepth
<1>2. Accept(e)
  BY <1>1 DEF IgnoreOld, ApplyNext, DetectGap, BufferEvent
<1>3. /\ OrderInv' /\ SeenIds' \subseteq SeenIds \cup {e.final} /\ \A s \in SeenIds : s < e.final
      /\ e.final \in Nat /\ Behind(SeenIds', e.final)
  BY <1>2, AcceptOrder
<1>4. LeftInv /\ buffer \in Seq(GoodEvents) /\ LoopFree
  BY <1>2 DEF CompleteInv, BookInv, LoopInv, Accept
<1>5. CASE IgnoreOld(e)
  <2>1. /\ e.final < lastUpdateId /\ synchronized /\ buffer = << >>
        /\ lastUpdateId' = lastUpdateId /\ buffer' = buffer
    BY <1>4, <1>5 DEF IgnoreOld, Old, LeftInv
  <2>2. lastUpdateId \in Nat
    BY <2>1 DEF BookInv, LevelsInv
  <2>3. SeenIds' \subseteq Nat
    BY <1>3, OrderTypes
  <2>4. Behind(SeenIds', lastUpdateId)
    BY <1>3, <2>1, <2>2, <2>3 DEF Behind
  <2>5. LeftInv'
    BY <2>1, <2>4 DEF LeftInv, Behind
  <2> QED BY <1>3, <2>5 DEF CompleteInv
<1>6. CASE ApplyNext(e)
  <2>1. /\ buffer = << >> /\ lastUpdateId' = e.final /\ buffer' = buffer
    BY <1>4, <1>6 DEF ApplyNext, LeftInv
  <2>2. LeftInv'
    BY <1>3, <2>1 DEF LeftInv, Behind
  <2> QED BY <1>3, <2>2 DEF CompleteInv
<1>7. CASE DetectGap(e) \/ BufferEvent(e)
  <2>1. buffer' = Append(buffer, e) /\ ~synchronized'
    BY <1>7 DEF DetectGap, BufferEvent
  <2>2. e \in GoodEvents
    BY <1>2, AcceptKeeps
  <2>3. buffer' # << >> /\ buffer'[Len(buffer')] = e
    BY <1>4, <2>1, <2>2
  <2>4. LeftInv'
    BY <1>3, <2>1, <2>3 DEF LeftInv, Behind
  <2> QED BY <1>3, <2>4 DEF CompleteInv
<1> QED BY <1>1, <1>5, <1>6, <1>7

\* At its end the loop has applied the last event of the buffer or passed it by.
LEMMA CompleteIteration ==
  ASSUME BookInv, LeftInv, ~LoopFree, NextIteration, SeenIds' = SeenIds,
         lastUpdateId' \in Nat, buffer[at].final <= lastUpdateId'
  PROVE  LeftInv'
<1>1. at \in 1 .. Len(buffer) /\ buffer \in Seq(GoodEvents)
  BY LoopFacts
<1>2. CASE at = Len(buffer)
  <2>1. buffer' = << >>
    BY <1>2 DEF NextIteration
  <2>2. Behind(SeenIds, buffer[at].final) /\ buffer[at].final \in Nat
    BY <1>1, <1>2, OrderTypes DEF LeftInv
  <2>3. Behind(SeenIds, lastUpdateId')
    BY <2>2, OrderTypes DEF Behind
  <2> QED BY <2>1, <2>3 DEF LeftInv, Behind
<1>3. CASE at # Len(buffer)
  <2>1. at' = at + 1 /\ buffer' = buffer
    BY <1>3 DEF NextIteration
  <2>2. ~LoopFree'
    BY <1>1, <2>1 DEF LoopFree
  <2> QED BY <2>1, <2>2 DEF LeftInv, Behind
<1> QED BY <1>2, <1>3

\* What _synchronize does.
LEMMA CompleteSynchronize ==
  ASSUME BookInv, CompleteInv, repeats = 0, Synchronize
  PROVE  CompleteInv'
<1>1. UNCHANGED <<stream, sent, seen>>
  BY DEF Synchronize, InstallSnapshot, RefuseSnapshot, ReplaySkips, ReplayApplies, ReplayGap,
         exchange, network
<1>2. OrderInv' /\ SeenIds' = SeenIds
  BY <1>1, OrderStays DEF CompleteInv
<1>3. LeftInv
  BY DEF CompleteInv
<1>4. ASSUME NEW n \in fetches, InstallSnapshot(n)
      PROVE  LeftInv'
  <2>1. ~LoopFree' /\ buffer' = buffer
    BY <1>4 DEF InstallSnapshot, LoopFree
  <2> QED BY <1>2, <1>3, <2>1 DEF LeftInv, Behind
<1>5. ResetBook => LeftInv'
  BY DEF ResetBook, LeftInv, Behind
<1>6. ReplaySkips => LeftInv'
  <2> SUFFICES ASSUME ReplaySkips PROVE LeftInv'
    OBVIOUS
  <2>1. /\ buffer[at].final < lastUpdateId /\ lastUpdateId' = lastUpdateId /\ ~LoopFree /\ NextIteration
        /\ lastUpdateId \in Nat /\ at \in 1 .. Len(buffer)
    BY LoopFacts DEF ReplaySkips, Old
  <2>2. buffer[at].final \in Nat
    BY <2>1, OrderTypes
  <2>3. lastUpdateId' \in Nat /\ buffer[at].final <= lastUpdateId'
    BY <2>1, <2>2
  <2> QED BY <1>2, <1>3, <2>1, <2>3, CompleteIteration
<1>7. ReplayApplies => LeftInv'
  <2> SUFFICES ASSUME ReplayApplies PROVE LeftInv'
    OBVIOUS
  <2>1. /\ lastUpdateId' = buffer[at].final /\ ~LoopFree /\ NextIteration
        /\ at \in 1 .. Len(buffer)
    BY LoopFacts DEF ReplayApplies
  <2>2. buffer[at].final \in Nat
    BY <2>1, OrderTypes
  <2>3. lastUpdateId' \in Nat /\ buffer[at].final <= lastUpdateId'
    BY <2>1, <2>2
  <2> QED BY <1>2, <1>3, <2>1, <2>3, CompleteIteration
<1>8. LeftInv'
  <2>1. (\E n \in fetches : InstallSnapshot(n)) \/ ResetBook \/ ReplaySkips \/ ReplayApplies
    BY DEF Synchronize, RefuseSnapshot, ReplayGap
  <2> QED BY <1>4, <1>5, <1>6, <1>7, <2>1
<1> QED BY <1>2, <1>8 DEF CompleteInv

LEMMA CompleteInvStep == BookInv /\ CompleteInv /\ [Next]_vars => CompleteInv'
<1> SUFFICES ASSUME BookInv, CompleteInv, [Next]_vars, repeats' = 0 PROVE CompleteInv'
  BY DEF CompleteInv
<1>1. CASE Publish \/ Connect \/ Disconnect
  <2>1. UNCHANGED <<seen, book>>
    BY <1>1 DEF Publish, Connect, Disconnect
  <2> QED BY <1>1, <2>1, CompleteOutside
<1>2. ASSUME UNCHANGED <<stream, sent, seen, repeats, book>>
      PROVE  CompleteInv'
  <2>1. OrderInv' /\ SeenIds' = SeenIds /\ LeftInv
    BY <1>2, OrderStays DEF CompleteInv
  <2>2. LeftInv'
    BY <1>2, <2>1 DEF LeftInv, Behind, book, LoopFree
  <2> QED BY <2>1, <2>2 DEF CompleteInv
<1>3. CASE \E p \in Prices, q \in Quantities : Update(p, q)
  <2>1. UNCHANGED <<stream, sent, seen, repeats, book>>
    BY <1>3 DEF Update, network
  <2> QED BY <1>2, <2>1
<1>4. CASE ServeSnapshot \/ SnapshotFails
  <2>1. UNCHANGED <<stream, sent, seen, repeats, book>>
    BY <1>4 DEF ServeSnapshot, SnapshotFails, network, exchange
  <2> QED BY <1>2, <2>1
<1>5. CASE DropDuplicate
  <2>1. repeats = 0 /\ stream \in Seq(GoodEvents) /\ stream # << >> /\ IsDuplicate(Head(stream))
    BY <1>5 DEF DropDuplicate, BookInv, NetworkInv
  <2>2. Head(stream) = stream[1] /\ 1 \in 1 .. Len(stream)
    BY <2>1
  <2>3. stream[1].final \in Finals(stream) /\ stream[1].final \in SeenIds /\ stream[1].final \in Nat
    BY <2>1, <2>2, OrderTypes DEF Finals, SeenIds, IsDuplicate
  <2> QED BY <2>1, <2>3 DEF CompleteInv, OrderInv
<1>6. CASE OnDepth
  <2>1. repeats = 0
    BY <1>6 DEF OnDepth, IgnoreOld, ApplyNext, DetectGap, BufferEvent, Accept
  <2> QED BY <1>6, <2>1, CompleteAccept
<1>7. CASE Synchronize
  <2>1. repeats = 0
    BY <1>7 DEF Synchronize, InstallSnapshot, RefuseSnapshot, ReplaySkips, ReplayApplies,
                ReplayGap, network
  <2> QED BY <1>7, <2>1, CompleteSynchronize
<1>8. CASE UNCHANGED vars
  <2>1. UNCHANGED <<stream, sent, seen, repeats, book>>
    BY <1>8 DEF vars, network, exchange
  <2> QED BY <1>2, <2>1
<1> QED BY <1>1, <1>3, <1>4, <1>5, <1>6, <1>7, <1>8 DEF Next, Exchange, Network

\* Without repeated events a synchronized book stands at the newest event the consumer
\* has accepted: no event that came during the fetch is left out (initialize, apply).
THEOREM NothingIsLeftOut == Spec => []NoEventLeftOut
<1>1. CompleteInv => NoEventLeftOut
  BY DEF CompleteInv, LeftInv, NoEventLeftOut, Behind, SeenIds
<1> QED BY <1>1, BookInvInit, BookInvStep, CompleteInvInit, CompleteInvStep, PTL DEF Spec

-----------------------------------------------------------------------------
(* The book implements the mirror.                                           *)

\* What has been shown is never newer than a snapshot on its way or than the book.
ShownInv ==
  /\ shown \in 0 .. Len(wrote)
  /\ \A f \in fetches : f # Requested => f >= shown
  /\ synchronized => lastUpdateId >= shown
  /\ Shows => shown = lastUpdateId

\* The mirror shows the levels of a book that shows, and a blank one otherwise.
Shown == IF Shows THEN levels ELSE EmptyBook

LEMMA ShownInvInit == InitShown => BookInv /\ ShownInv
<1> SUFFICES ASSUME InitShown PROVE BookInv /\ ShownInv
  OBVIOUS
<1>1. /\ BookInv /\ shown = 0 /\ wrote = << >> /\ fetches = {} /\ ~synchronized
  BY BookInvInit DEF InitShown, Init
<1> QED BY <1>1 DEF ShownInv, Shows

\* The update a book stands at never goes back while it stays synchronized, and an
\* installed snapshot was taken after everything shown.
LEMMA StandStep ==
  ASSUME BookInv, ShownInv, Next, synchronized'
  PROVE  lastUpdateId' \in Nat /\ lastUpdateId' >= shown
<1>1. /\ shown \in Nat /\ synchronized \in BOOLEAN
      /\ synchronized => lastUpdateId \in Nat /\ lastUpdateId >= shown
  BY DEF ShownInv, BookInv, LevelsInv
<1>2. CASE synchronized /\ lastUpdateId' = lastUpdateId
  BY <1>1, <1>2
<1>3. ASSUME NEW e, ApplyNext(e)
      PROVE  lastUpdateId' \in Nat /\ lastUpdateId' >= shown
  <2>1. e \in GoodEvents /\ synchronized /\ e.pu = lastUpdateId /\ lastUpdateId' = e.final
    BY <1>3, AcceptKeeps DEF ApplyNext, Continues
  <2>2. e.pu < e.final /\ e.final \in Nat
    BY <2>1 DEF GoodEvents, Events
  <2> QED BY <1>1, <2>1, <2>2
<1>4. ASSUME NEW n \in fetches, InstallSnapshot(n)
      PROVE  lastUpdateId' \in Nat /\ lastUpdateId' >= shown
  BY <1>4 DEF InstallSnapshot, ShownInv, BookInv, FetchInv
<1>5. CASE ReplayApplies
  <2>1. /\ synchronized /\ ~(buffer[at].final < lastUpdateId) /\ lastUpdateId' = buffer[at].final
        /\ at \in 1 .. Len(buffer)
    BY <1>5, LoopFacts DEF ReplayApplies, Old
  <2>2. buffer[at].final \in Nat
    BY <2>1, OrderTypes
  <2> QED BY <1>1, <2>1, <2>2
<1>6. \/ synchronized /\ lastUpdateId' = lastUpdateId
      \/ (\E e : ApplyNext(e)) \/ (\E n \in fetches : InstallSnapshot(n)) \/ ReplayApplies
  <2>1. ~ResetBook
    BY DEF ResetBook
  <2>2. CASE OnDepth
    BY <2>2 DEF OnDepth, IgnoreOld, DetectGap, BufferEvent
  <2>3. CASE Synchronize
    BY <2>1, <2>3, LoopFacts DEF Synchronize, RefuseSnapshot, ReplayGap, ReplaySkips
  <2>4. CASE UNCHANGED book
    BY <2>4 DEF book
  <2> QED BY <2>2, <2>3, <2>4 DEF Next, Exchange, Network, Update, Publish, ServeSnapshot, Connect,
          Disconnect, SnapshotFails, DropDuplicate
<1> QED BY <1>2, <1>3, <1>4, <1>5, <1>6

\* Snapshots on their way are newer than what is shown, at both ends of a step.
LEMMA FetchStep ==
  ASSUME BookInv, ShownInv, Next
  PROVE  \A f \in fetches' : f # Requested => f >= shown
<1>1. /\ \A f \in fetches : f # Requested => f >= shown
      /\ shown \in 0 .. Len(wrote) /\ Len(wrote) \in Nat
  BY DEF ShownInv, BookInv, ExchangeInv
<1>2. fetches' \subseteq fetches \cup {Requested, Len(wrote)}
  <2>1. CASE Exchange
    BY <2>1 DEF Exchange, Update, Publish, ServeSnapshot
  <2>2. CASE Network
    BY <2>2 DEF Network, Connect, Disconnect, SnapshotFails
  <2>3. CASE DropDuplicate
    BY <2>3 DEF DropDuplicate
  <2>4. CASE OnDepth
    BY <2>4 DEF OnDepth, IgnoreOld, ApplyNext, DetectGap, BufferEvent, StartSync
  <2>5. CASE Synchronize
    BY <2>5 DEF Synchronize, InstallSnapshot, RefuseSnapshot, ReplaySkips, ReplayApplies, ReplayGap
  <2> QED BY <2>1, <2>2, <2>3, <2>4, <2>5 DEF Next
<1> QED BY <1>1, <1>2

\* The exchange's updates only grow.
LEMMA HistoryStep ==
  ASSUME BookInv, Next
  PROVE  /\ 0 .. Len(wrote) \subseteq 0 .. Len(wrote')
         /\ \A n \in 0 .. Len(wrote) : books'[n] = books[n]
<1>1. CASE \E p \in Prices, q \in Quantities : Update(p, q)
  BY <1>1, UpdateKeeps DEF BookInv
<1>2. CASE books' = books /\ wrote' = wrote
  BY <1>2
<1> QED BY <1>1, <1>2 DEF Next, Exchange, Network, Publish, ServeSnapshot, Connect, Disconnect,
        SnapshotFails, DropDuplicate, OnDepth, IgnoreOld, ApplyNext, DetectGap, BufferEvent, Accept,
        Synchronize, InstallSnapshot, RefuseSnapshot, ReplaySkips, ReplayApplies, ReplayGap, exchange

LEMMA ShownInvStep ==
  ASSUME BookInv, BookInv', ShownInv, [NextShown]_<<vars, shown>>
  PROVE  ShownInv'
<1>1. CASE UNCHANGED <<vars, shown>>
  BY <1>1 DEF ShownInv, Shows, LoopFree, vars, exchange, book
<1>2. CASE NextShown
  <2>1. Next /\ shown' = IF Shows' THEN lastUpdateId' ELSE shown
    BY <1>2 DEF NextShown
  <2>2. \A f \in fetches' : f # Requested => f >= shown
    BY <2>1, FetchStep
  <2>3. synchronized' => lastUpdateId' \in Nat /\ lastUpdateId' >= shown
    BY <2>1, StandStep
  <2>4. shown \in 0 .. Len(wrote')
    BY <2>1, HistoryStep DEF ShownInv
  <2>5. Shows' => lastUpdateId' \in 0 .. Len(wrote') /\ fetches' = {}
    BY DEF BookInv, LevelsInv, FetchInv, OneFetch, Shows
  <2>6. CASE Shows'
    BY <2>1, <2>3, <2>5, <2>6 DEF ShownInv
  <2>7. CASE ~Shows'
    BY <2>1, <2>2, <2>3, <2>4, <2>7 DEF ShownInv
  <2> QED BY <2>6, <2>7
<1> QED BY <1>1, <1>2

\* Every step of the system is a step of the mirror or leaves the mirror alone.
LEMMA MirrorStep ==
  ASSUME BookInv, BookInv', ShownInv, [NextShown]_<<vars, shown>>
  PROVE  [Mirror!Next]_Mirror!vars
<1> USE DEF Mirror!Next, Mirror!vars
<1>1. Shows \in BOOLEAN /\ Shows' \in BOOLEAN
  BY DEF BookInv, LevelsInv, Shows, LoopFree
<1>2. CASE UNCHANGED <<vars, shown>>
  BY <1>2 DEF vars, exchange, book, Shows, LoopFree, EmptyBook
<1>3. CASE NextShown /\ \E p \in Prices, q \in Quantities : Update(p, q)
  <2>1. PICK p \in Prices, q \in Quantities : Update(p, q)
    BY <1>3
  <2>2. PICK k : k = Len(wrote)
    OBVIOUS
  <2>3. k \in Nat /\ DOMAIN books = 0 .. k /\ DOMAIN books' = DOMAIN books \cup {k + 1}
    BY <2>1, <2>2 DEF Update, BookInv, ExchangeInv
  <2>4. \A n \in 0 .. k : books'[n] = books[n]
    BY <2>1, <2>2, UpdateKeeps DEF BookInv
  <2>5. UNCHANGED book
    BY <2>1 DEF Update
  <2>6. Shows' = Shows /\ levels' = levels /\ lastUpdateId' = lastUpdateId
    BY <2>5 DEF book, Shows, LoopFree
  <2>7. shown' = shown
    BY <1>3, <2>6 DEF NextShown, ShownInv
  <2>8. Mirror!Move
    <3>1. k \in DOMAIN books /\ k + 1 \notin DOMAIN books
      BY <2>3
    <3>2. \A n \in DOMAIN books : books'[n] = books[n]
      BY <2>3, <2>4
    <3>3. UNCHANGED <<shown, Shows, IF Shows THEN levels ELSE EmptyBook>>
      BY <2>6, <2>7 DEF EmptyBook
    <3> QED BY <2>3, <3>1, <3>2, <3>3 DEF Mirror!Move
  <2> QED BY <2>8
<1>4. CASE NextShown /\ UNCHANGED <<books, wrote>>
  <2>1. Next /\ books' = books /\ wrote' = wrote /\ shown' = IF Shows' THEN lastUpdateId' ELSE shown
    BY <1>4 DEF NextShown
  <2>2. CASE Shows'
    <3>1. lastUpdateId' \in 0 .. Len(wrote) /\ levels' = books[lastUpdateId'] /\ synchronized'
      BY <2>1, <2>2 DEF BookInv, LevelsInv, Shows
    <3>2. lastUpdateId' >= shown
      BY <2>1, <3>1, StandStep
    <3>3. DOMAIN books = 0 .. Len(wrote)
      BY DEF BookInv, ExchangeInv
    <3>4. Mirror!Show
      BY <2>1, <2>2, <3>1, <3>2, <3>3 DEF Mirror!Show
    <3> QED BY <3>4
  <2>3. CASE Shows /\ ~Shows'
    <3>1. Mirror!Lose
      BY <2>1, <2>3 DEF Mirror!Lose, EmptyBook
    <3> QED BY <3>1
  <2>4. CASE ~Shows /\ ~Shows'
    BY <1>1, <2>1, <2>4 DEF EmptyBook
  <2> QED BY <2>2, <2>3, <2>4
<1>5. Next => (\E p \in Prices, q \in Quantities : Update(p, q)) \/ UNCHANGED <<books, wrote>>
  BY DEF Next, Exchange, Network, Publish, ServeSnapshot, Connect, Disconnect,
        SnapshotFails, DropDuplicate, OnDepth, IgnoreOld, ApplyNext, DetectGap, BufferEvent, Accept,
        Synchronize, InstallSnapshot, RefuseSnapshot, ReplaySkips, ReplayApplies, ReplayGap, exchange
<1> QED BY <1>2, <1>3, <1>4, <1>5 DEF NextShown

\* The synchronized book is the exchange's book after the update it names, and never one
\* before a state it has shown: through gaps, losses, repetitions and late snapshots
\* (LocalOrderBook, LocalOrderBookManager).
THEOREM BookIsAMirror == SpecShown => ImplementsMirror
<1>1. InitShown => Mirror!Init
  BY DEF InitShown, Init, Mirror!Init, Shows
<1>2. [NextShown]_<<vars, shown>> => [Next]_vars
  BY DEF NextShown
<1> QED BY <1>1, <1>2, ShownInvInit, BookInvStep, ShownInvStep, MirrorStep, PTL
        DEF SpecShown, ImplementsMirror, Mirror!Spec
===============================================================================
