----------------------------- MODULE CandidateFeed -----------------------------
(***************************************************************************)
(* From the scan to the bars a signal is computed from: ScannerRuntime       *)
(* (runtime.py), DynamicCandidateManager (market_data/candidates.py) and its *)
(* two listeners, RealtimeMarketDataService.update_symbols (service.py) and  *)
(* StrategyFeatureService.update_symbols (strategy/service.py), and the      *)
(* klines of the FeatureEngine (strategy/features.py), which REST seeds and  *)
(* the stream continues.                                                     *)
(*                                                                           *)
(* The scanner is one task that awaits each listener; the consumer ingests   *)
(* closed bars of the stream at each of those awaits.  The exchange is       *)
(* external: it closes a bar every minute, and answers a request for klines  *)
(* with bars of which the newest is still open.                              *)
(*                                                                           *)
(* Abstraction.  A bar is its minute and whether its values are those of the *)
(* closed bar.  What a scan finds is a free choice.  Of the open interest    *)
(* that is polled at the end of an update only the requests are here; a      *)
(* symbol's coroutine asks for its klines first and for that afterwards.     *)
(***************************************************************************)
EXTENDS Integers, SequencesExt

CONSTANTS
  Symbols,
  MaxRetries,    \* http_max_retries
  Benchmark,     \* feature_benchmark_symbol, a candidate always
  Window,        \* how many klines the engine keeps (2000)
  Limit,         \* how many klines a seed asks for
  MaxMinute      \* bound: minutes of the exchange

ASSUME FeedAssumption ==
  /\ Benchmark \in Symbols /\ {Window, Limit} \subseteq Nat \ {0}
  /\ {MaxMinute, MaxRetries} \subseteq Nat

VARIABLES
  scanner,       \* ScannerRuntime._run: where it stands
  candidates,    \* DynamicCandidateManager._symbols
  streams,       \* the symbols of the running sessions
  followed,      \* StrategyFeatureService._symbols
  requests,      \* symbol -> the call of the REST client its coroutine awaits
  klines,        \* symbol -> SymbolFeatureState.klines
  arriving,      \* symbol -> closed bars of the stream not yet ingested
  minute,        \* the exchange: the bar that is open
  broken,        \* whether the sessions of these candidates failed to start, and
  cold,          \* the symbols whose last seed failed, and
  missed         \* symbol -> minutes that no stream and no seed has brought; history

feedVars == <<scanner, candidates, streams, followed, broken>>
barVars  == <<requests, klines, cold, missed>>
marketVars == <<arriving, minute>>
vars == <<feedVars, barVars, marketVars>>

\* A served request for klines carries the minute of the exchange.
INSTANCE RestClient WITH Callers <- Symbols

Bar == [start : 0 .. MaxMinute, closed : BOOLEAN]

Init ==
  /\ scanner = "scan"
  /\ candidates = {} /\ streams = {} /\ followed = {}
  /\ RequestInit /\ missed = [s \in Symbols |-> {}] /\ klines = [s \in Symbols |-> << >>]
  /\ arriving = [s \in Symbols |-> << >>] /\ minute = 0
  /\ broken = FALSE /\ cold = {}

-----------------------------------------------------------------------------
(* The deque of klines.                                                      *)

StartsOf(bars) == {bars[i].start : i \in DOMAIN bars}
BarAt(bars, start) == bars[CHOOSE i \in DOMAIN bars : bars[i].start = start]

\* sorted
Ascending(starts) ==
  CHOOSE f \in [1 .. Cardinality(starts) -> starts] :
    \A i, j \in DOMAIN f : i < j => f[i] < f[j]

\* A dict by start time, new values over old ones, sorted.
Merged(old, new) ==
  LET all == Ascending(StartsOf(old) \cup StartsOf(new))
  IN  [i \in DOMAIN all |-> IF all[i] \in StartsOf(new) THEN BarAt(new, all[i])
                                                        ELSE BarAt(old, all[i])]

\* deque(maxlen): the oldest leave.
Kept(bars) == SubSeq(bars, IF Len(bars) > Window THEN Len(bars) - Window + 1 ELSE 1, Len(bars))

\* Mutant: the last bar is not compared with the new one.
AppendAlways(bars, bar) == Kept(Append(bars, bar))
\* _upsert_kline
Upserted(bars, bar) ==
  IF bars = << >> \/ Last(bars).start < bar.start
  THEN Kept(Append(bars, bar)) ELSE Kept(Merged(bars, <<bar>>))

\* GET /fapi/v1/klines, served in minute m.
Served(m) ==
  LET first == IF m < Limit THEN 0 ELSE m - Limit + 1
  IN  [i \in 1 .. m - first + 1 |-> [start |-> first + i - 1, closed |-> first + i - 1 < m]]

-----------------------------------------------------------------------------
(* ScannerRuntime._run, publish_candidates, DynamicCandidateManager.update.  *)

\* The end of an iteration: the loop goes on, unless the write of the health fails, which
\* the handler of an exception ends with too; an exception of its own ends the task.
IterationEnds == scanner' \in {"scan", "dead"}

\* An iteration that changes no candidates: an error before, or the same set again.
ScanIdle ==
  /\ scanner = "scan" /\ IterationEnds
  /\ UNCHANGED <<candidates, streams, followed, broken, barVars, marketVars>>

\* publish_candidates
Published(found) == found \cup {Benchmark}

\* The new set is recorded, then the listeners are called.
ScanChange(found) ==
  /\ scanner = "scan" /\ Published(found) # candidates
  /\ candidates' = Published(found) /\ scanner' = "sessions"
  /\ UNCHANGED <<streams, followed, broken, barVars, marketVars>>

\* RealtimeMarketDataService.update_symbols: new sessions for the old ones.
Resubscribe ==
  /\ scanner = "sessions" /\ scanner' = "strategy"
  /\ streams' = candidates /\ broken' = FALSE
  /\ UNCHANGED <<candidates, followed, barVars, marketVars>>

\* An old session that has died raises when it is stopped.
ResubscribeFails ==
  /\ scanner = "sessions" /\ streams # {} /\ IterationEnds
  /\ streams' = {} /\ broken' = TRUE
  /\ UNCHANGED <<candidates, followed, barVars, marketVars>>

\* Mutants: a symbol that left stays; nothing that the manager knows is new.
FollowMore ==
  /\ scanner = "strategy" /\ scanner' = "seeding"
  /\ followed' = followed \cup candidates
  /\ Send(candidates \ followed)
  /\ UNCHANGED <<candidates, streams, broken, klines, cold, missed, marketVars>>
FollowUnseeded ==
  /\ scanner = "strategy" /\ scanner' = "seeding"
  /\ followed' = candidates
  /\ Send(followed' \ candidates)
  /\ UNCHANGED <<candidates, streams, broken, klines, cold, missed, marketVars>>

\* StrategyFeatureService.update_symbols: klines of the symbols that are new.
Follow ==
  /\ scanner = "strategy" /\ scanner' = "seeding"
  /\ followed' = candidates
  /\ Send(candidates \ followed)
  /\ UNCHANGED <<candidates, streams, broken, klines, cold, missed, marketVars>>

\* The gather of the seeds is over, whatever failed in it; then _poll_once.
Poll ==
  /\ scanner = "seeding" /\ NonePending /\ scanner' = "polling"
  /\ Send(followed)
  /\ UNCHANGED <<candidates, streams, followed, broken, klines, cold, missed,
                 marketVars>>

\* Mutant: the requests are not awaited.
PollEndsAtOnce ==
  /\ scanner = "polling" /\ IterationEnds
  /\ UNCHANGED <<candidates, streams, followed, broken, barVars, marketVars>>

\* The gather of the polls is over; the write of the health may fail.
PollEnds ==
  /\ scanner = "polling" /\ NonePending
  /\ IterationEnds
  /\ UNCHANGED <<candidates, streams, followed, broken, barVars, marketVars>>

-----------------------------------------------------------------------------
(* StrategyFeatureService._seed_symbol and FeatureEngine.seed_klines.        *)

\* The request of either gather, with its retries.
RestStep(s) ==
  /\ Serve(s, IF scanner = "seeding" THEN minute ELSE 0) \/ RateLimit(s) \/ Retry(s)
  /\ UNCHANGED <<feedVars, klines, cold, missed, marketVars>>

\* Mutant: the answer takes the place of the bars that came meanwhile.
SeedReplaces(s) ==
  /\ scanner = "seeding" /\ Return(s)
  /\ LET served == Served(requests[s].answer)
     IN  /\ klines' = [klines EXCEPT ![s] = Kept(served)]
         /\ missed' = [missed EXCEPT ![s] = @ \ StartsOf(served)]
  /\ cold' = cold \ {s}
  /\ UNCHANGED <<feedVars, marketVars>>

\* The answer is merged into the bars the stream has brought meanwhile.
SeedKlines(s) ==
  /\ scanner = "seeding" /\ Return(s)
  /\ LET served == Served(requests[s].answer)
     IN  /\ klines' = [klines EXCEPT ![s] = Kept(Merged(@, served))]
         /\ missed' = [missed EXCEPT ![s] = @ \ StartsOf(served)]
  /\ cold' = cold \ {s}
  /\ UNCHANGED <<feedVars, marketVars>>

SeedFails(s) ==
  /\ scanner = "seeding" /\ Fail(s) /\ cold' = cold \cup {s}
  /\ UNCHANGED <<feedVars, klines, missed, marketVars>>

\* _fetch_open_interest
Polled(s) ==
  /\ scanner = "polling"
  /\ Return(s) \/ Fail(s)
  /\ UNCHANGED <<feedVars, klines, cold, missed, marketVars>>

-----------------------------------------------------------------------------
(* The stream.                                                               *)

\* A minute ends; a connection that is down does not hear it.
EndMinute ==
  /\ minute < MaxMinute /\ minute' = minute + 1
  /\ \E heard \in SUBSET streams :
       /\ arriving' = [s \in Symbols |-> IF s \in heard THEN Append(arriving[s], minute)
                                                        ELSE arriving[s]]
       /\ missed' = [s \in Symbols |-> IF s \in heard THEN missed[s]
                                                      ELSE missed[s] \cup {minute}]
  /\ UNCHANGED <<feedVars, requests, klines, cold>>

\* StrategyFeatureService.on_event: the bar is ingested and, unless it is one of the
\* benchmark, the features are computed from the klines in the same step.
OnEvent(s) ==
  /\ arriving[s] # << >> /\ arriving' = [arriving EXCEPT ![s] = Tail(@)]
  /\ klines' = [klines EXCEPT ![s] = Upserted(@, [start |-> Head(arriving[s]), closed |-> TRUE])]
  /\ UNCHANGED <<feedVars, requests, cold, missed, minute>>

-----------------------------------------------------------------------------
Scan == ScanIdle \/ \E found \in SUBSET Symbols : ScanChange(found)
Listeners == Resubscribe \/ ResubscribeFails \/ Follow \/ Poll \/ PollEnds
Request(s) == RestStep(s) \/ SeedKlines(s) \/ SeedFails(s) \/ Polled(s)
Next ==
  \/ Scan \/ Listeners \/ EndMinute
  \/ \E s \in Symbols : Request(s) \/ OnEvent(s)
Spec == Init /\ [][Next]_vars

\* The event loop runs the scanner's task and the coroutines it waits for: a request is
\* answered, refused or ends with the HTTP timeout, and a pause ends.
Update == Listeners \/ \E s \in Symbols : Request(s)
LiveSpec == Spec /\ WF_vars(Update)

-----------------------------------------------------------------------------
(* Properties.                                                               *)

\* Type invariant, with the scanner's place and the requests it waits for.
TypeOK ==
  /\ scanner \in {"scan", "sessions", "strategy", "seeding", "polling", "dead"}
  /\ candidates \subseteq Symbols /\ streams \subseteq Symbols /\ followed \subseteq Symbols
  /\ requests \in [Symbols -> [pc : {"none", "asked", "answered", "sleeping"},
                                attempt : 0 .. MaxRetries, answer : 0 .. MaxMinute]]
  /\ minute \in 0 .. MaxMinute /\ missed \in [Symbols -> SUBSET (0 .. MaxMinute)]
  /\ klines \in [Symbols -> Seq(Bar)] /\ arriving \in [Symbols -> Seq(0 .. MaxMinute)]
  /\ broken \in BOOLEAN /\ cold \subseteq Symbols
  /\ scanner \notin {"seeding", "polling"} => NonePending

\* FeatureEngine.klines: whatever seeds and bars of the stream overlap, the window is
\* strictly ordered by minute and within its limit; returns count positions in it.
WindowInOrder ==
  \A s \in Symbols :
    /\ Len(klines[s]) <= Window
    /\ \A i \in 2 .. Len(klines[s]) : klines[s][i - 1].start < klines[s][i].start

\* DynamicCandidateManager.update: between two scans both listeners follow the recorded
\* candidates.  If the sessions could not be replaced, the stream is off and stays so
\* until the candidates change: the same set is not announced again.
AnnouncedIsFollowed ==
  scanner = "scan" =>
    IF broken THEN streams = {} ELSE streams = candidates /\ followed = candidates

\* Connections lose bars and symbols come and go, and returns count positions in the
\* window: two bars that stand next to each other are of consecutive minutes, but for
\* minutes of which neither the stream nor a seed has brought the bar, or whose bar is
\* still to be ingested.  Nothing asks for the bars that a connection has lost.
GapsAreMissed ==
  \A s \in Symbols : \A i \in 2 .. Len(klines[s]) :
    klines[s][i - 1].start + 1 .. klines[s][i].start - 1
      \subseteq missed[s] \cup ToSet(arriving[s])

\* _get_json, update_symbols: a scan that has changed the candidates comes to an end,
\* whatever its requests meet.
ScanEnds == scanner = "sessions" ~> scanner \in {"scan", "dead"}

\* StrategyFeatureService.update_symbols: once the scanner goes on, every symbol that
\* is followed has klines, unless the request for them failed; it is not repeated
\* while the symbol stays.
FollowedIsWarm ==
  scanner # "seeding" => \A s \in followed \ cold : klines[s] # << >>

=============================================================================
