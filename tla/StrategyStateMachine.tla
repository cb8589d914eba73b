-------------------------- MODULE StrategyStateMachine --------------------------
(***************************************************************************)
(* StrategyStateMachine (strategy/state_machine.py) for one symbol: contexts *)
(* of different symbols share nothing.  process() runs once per closed bar   *)
(* on the features of that bar (strategy/service.py), so one action per      *)
(* outcome of process().                                                     *)
(*                                                                           *)
(* Abstraction.  A bar carries its price, the anchored VWAP, the CVD and one *)
(* Boolean, `flow': whether the conditions on returns, volumes, ratios, open *)
(* interest and spread hold that the present state asks for, every state     *)
(* asks for exactly one group.  The ratios are percentages, prices and CVD   *)
(* integers.  Time is counted in bars since the cooldown began.  The fields  *)
(* entered_at, ignition_cvd_high and breakdown_low are written and never     *)
(* read by the machine; they are left out.                                   *)
(***************************************************************************)
EXTENDS Integers

CONSTANTS
  Prices, Cvds,            \* the prices and the CVD values a bar may have
  PullbackMin, PullbackMax,\* strategy_pullback_min_ratio and max_ratio, in percent
  CooldownBars,            \* strategy_cooldown_seconds
  MaxGap                   \* bound: bars that a gap in the stream may skip

None == -1000

ASSUME StrategyAssumption ==
  /\ Prices \subseteq Nat \ {0} /\ Cvds \subseteq Int /\ None \notin Cvds
  /\ PullbackMin \in 0 .. 100 /\ PullbackMax \in 0 .. 100
  /\ CooldownBars \in Nat \ {0} /\ MaxGap \in Nat \ {0}

States == {"NORMAL", "WATCH", "IGNITION", "PULLBACK", "CONTINUATION", "DISTRIBUTION",
           "BREAKDOWN", "COOLDOWN"}

VARIABLES
  state,
  context,       \* SymbolStrategyContext
  anchored,      \* FeatureEngine's anchor_time is set
  signal,        \* what process() returned for the last bar
  longs, shorts, \* signals since the last NORMAL, for the properties
  blind          \* whether this BREAKDOWN had a bar without VWAP, for the properties

vars == <<state, context, anchored, signal, longs, shorts, blind>>

Fresh == [start |-> None, high |-> None, low |-> None, breakout |-> None,
          volumeValid |-> FALSE, peakPrice |-> None, peakCvd |-> None, divergence |-> FALSE,
          reboundHigh |-> None, reboundSeen |-> FALSE, previousPrice |-> None,
          cooldown |-> 0]
NoSignal == [side |-> "NONE", entry |-> None, stop |-> None]

Larger(a, b) == IF a >= b THEN a ELSE b
Smaller(a, b) == IF a <= b THEN a ELSE b

\* Python's `value or other' for a number that may be None.
Or(value, other) == IF value \in {None, 0} THEN other ELSE value

\* The VWAP is unknown before the first anchor; later it is unknown only when no trade
\* of the last 15 minutes is known.
Vwaps == {None} \cup IF anchored THEN Prices ELSE {}

\* The features of a bar.
Bars == [price : Prices, cvd : Cvds \cup {None}, flow : BOOLEAN, vwap : Vwaps]

Init ==
  /\ state = "NORMAL" /\ context = Fresh /\ anchored = FALSE
  /\ signal = NoSignal /\ longs = 0 /\ shorts = 0 /\ blind = FALSE

\* The end of process(): the context of the bar with the price remembered.
Remember(c, bar) == context' = [c EXCEPT !.previousPrice = bar.price]
Silent == signal' = NoSignal /\ UNCHANGED <<longs, shorts>>
Stay(c, bar) == Remember(c, bar) /\ UNCHANGED <<state, anchored>> /\ Silent
Move(to, c, bar) == state' = to /\ Remember(c, bar) /\ UNCHANGED anchored /\ Silent

-----------------------------------------------------------------------------
\* NORMAL: _watch_conditions start the watch, and the service anchors the VWAP.
Watch(bar) ==
  /\ state = "NORMAL" /\ bar.flow
  /\ state' = "WATCH" /\ anchored' = TRUE
  /\ Remember(context, bar) /\ Silent
KeepNormal(bar) == state = "NORMAL" /\ ~bar.flow /\ Stay(context, bar)

\* _ignition_conditions
Ignites(bar) == bar.flow /\ bar.vwap # None /\ bar.price > bar.vwap

\* WATCH, with _start_ignition.
Ignite(bar) ==
  /\ state = "WATCH" /\ Ignites(bar)
  /\ Move("IGNITION",
          [context EXCEPT !.start = bar.vwap, !.high = bar.price, !.peakPrice = bar.price,
                          !.peakCvd = bar.cvd],
          bar)
KeepWatching(bar) == state = "WATCH" /\ ~Ignites(bar) /\ Stay(context, bar)

\* The depth of the pullback from the high to a price, against the rise.
TooDeep(c, price) == (c.high - price) * 100 > (c.high - c.start) * PullbackMax
DeepEnough(c, price) ==
  price < c.high /\ (c.high - price) * 100 >= (c.high - c.start) * PullbackMin

\* IGNITION, with _process_ignition.
Risen(bar) == [context EXCEPT !.high = Larger(@, bar.price)]

FailIgnition(bar) ==
  /\ state = "IGNITION" /\ TooDeep(Risen(bar), bar.price)
  /\ Move("BREAKDOWN", Risen(bar), bar)

\* Mutant: the pullback may be as shallow as it likes.
PullBackAnyDepth(bar) ==
  /\ state = "IGNITION" /\ bar.price < Risen(bar).high /\ ~TooDeep(Risen(bar), bar.price)
  /\ Move("PULLBACK",
          [Risen(bar) EXCEPT !.low = bar.price, !.breakout = Risen(bar).high,
                             !.volumeValid = bar.flow],
          bar)

PullBack(bar) ==
  /\ state = "IGNITION" /\ ~TooDeep(Risen(bar), bar.price) /\ DeepEnough(Risen(bar), bar.price)
  /\ Move("PULLBACK",
          [Risen(bar) EXCEPT !.low = bar.price, !.breakout = Risen(bar).high,
                             !.volumeValid = bar.flow],
          bar)
KeepIgnition(bar) ==
  /\ state = "IGNITION" /\ ~TooDeep(Risen(bar), bar.price) /\ ~DeepEnough(Risen(bar), bar.price)
  /\ Stay(Risen(bar), bar)

\* PULLBACK, with _process_pullback and _long_signal.
Lowered(bar) == [context EXCEPT !.low = Smaller(@, bar.price)]
BreaksOut(bar) == bar.price >= context.breakout /\ context.volumeValid /\ Ignites(bar)

FailPullback(bar) ==
  /\ state = "PULLBACK" /\ TooDeep(Lowered(bar), Lowered(bar).low)
  /\ Move("BREAKDOWN", Lowered(bar), bar)

Continue(bar) ==
  /\ state = "PULLBACK" /\ ~TooDeep(Lowered(bar), Lowered(bar).low) /\ BreaksOut(bar)
  /\ state' = "CONTINUATION"
  /\ Remember([Lowered(bar) EXCEPT !.peakPrice = bar.price, !.peakCvd = bar.cvd], bar)
  /\ signal' = [side |-> "LONG", entry |-> bar.price, stop |-> Lowered(bar).low]
  /\ longs' = longs + 1
  /\ UNCHANGED <<anchored, shorts>>
KeepPullback(bar) ==
  /\ state = "PULLBACK" /\ ~TooDeep(Lowered(bar), Lowered(bar).low) /\ ~BreaksOut(bar)
  /\ Stay(Lowered(bar), bar)

\* CONTINUATION, with _process_continuation: a new high on a CVD that is not, or
\* buyers who no longer move the price (bar.flow).
Diverges(bar) ==
  /\ bar.price > context.peakPrice
  /\ bar.cvd # None /\ context.peakCvd # None /\ bar.cvd <= context.peakCvd
Peaked(bar) ==
  [context EXCEPT !.peakPrice = Larger(@, bar.price),
                  !.peakCvd = IF bar.cvd = None THEN @ ELSE Larger(Or(@, bar.cvd), bar.cvd)]

Distribute(bar) ==
  /\ state = "CONTINUATION" /\ (Diverges(bar) \/ bar.flow)
  /\ Move("DISTRIBUTION", [Peaked(bar) EXCEPT !.divergence = TRUE], bar)
KeepContinuation(bar) ==
  /\ state = "CONTINUATION" /\ ~Diverges(bar) /\ ~bar.flow
  /\ Stay(Peaked(bar), bar)

\* DISTRIBUTION, with _process_distribution.
\* Mutant: the flag outlives the rebound.
NoReboundHigh(c) == [c EXCEPT !.reboundHigh = None]
NoRebound(c) == [c EXCEPT !.reboundHigh = None, !.reboundSeen = FALSE]
BelowVwap(bar) == bar.vwap # None /\ bar.price < bar.vwap

BreakDown(bar) ==
  /\ state = "DISTRIBUTION" /\ BelowVwap(bar)
  /\ Move("BREAKDOWN", NoRebound(context), bar)
KeepDistribution(bar) ==
  /\ state = "DISTRIBUTION" /\ ~BelowVwap(bar)
  /\ Stay(context, bar)

\* BREAKDOWN, with _process_breakdown and _short_signal.
Rebounds(bar) == bar.price > context.previousPrice

UnknownVwap(bar) == state = "BREAKDOWN" /\ bar.vwap = None /\ Stay(context, bar)
Reclaim(bar) ==
  /\ state = "BREAKDOWN" /\ bar.vwap # None /\ bar.price >= bar.vwap
  /\ Move("DISTRIBUTION", NoRebound(context), bar)
Rebound(bar) ==
  /\ state = "BREAKDOWN" /\ BelowVwap(bar) /\ Rebounds(bar)
  /\ Stay([context EXCEPT !.reboundSeen = TRUE,
                          !.reboundHigh = Larger(Or(@, bar.price), bar.price)],
          bar)

\* Mutants: the divergence is not required, nor that the price falls again.
ReboundFailsAlone(bar) ==
  /\ context.reboundSeen
  /\ context.reboundHigh < bar.vwap /\ context.reboundHigh < context.high
  /\ bar.flow /\ bar.price < context.previousPrice
ReboundStalls(bar) ==
  /\ context.divergence /\ context.reboundSeen
  /\ context.reboundHigh < bar.vwap /\ context.reboundHigh < context.high
  /\ bar.flow /\ bar.price <= context.previousPrice

ReboundFails(bar) ==
  /\ context.divergence /\ context.reboundSeen
  /\ context.reboundHigh < bar.vwap /\ context.reboundHigh < context.high
  /\ bar.flow /\ bar.price < context.previousPrice

GoShort(bar) ==
  /\ state = "BREAKDOWN" /\ BelowVwap(bar) /\ ~Rebounds(bar) /\ ReboundFails(bar)
  /\ state' = "COOLDOWN" /\ Remember([context EXCEPT !.cooldown = CooldownBars], bar)
  /\ signal' = [side |-> "SHORT", entry |-> bar.price, stop |-> context.reboundHigh]
  /\ shorts' = shorts + 1
  /\ UNCHANGED <<anchored, longs>>
KeepFalling(bar) ==
  /\ state = "BREAKDOWN" /\ BelowVwap(bar) /\ ~Rebounds(bar) /\ ~ReboundFails(bar)
  /\ Stay(context, bar)

\* COOLDOWN: its end resets the context.
Cool(bar, elapsed) ==
  /\ state = "COOLDOWN" /\ elapsed < context.cooldown
  /\ Stay([context EXCEPT !.cooldown = @ - elapsed], bar)
EndCooldown(bar, elapsed) ==
  /\ state = "COOLDOWN" /\ elapsed >= context.cooldown
  /\ state' = "NORMAL" /\ Remember(Fresh, bar)
  /\ signal' = NoSignal /\ longs' = 0 /\ shorts' = 0
  /\ UNCHANGED anchored

Process(bar) ==
  \/ Watch(bar) \/ KeepNormal(bar)
  \/ Ignite(bar) \/ KeepWatching(bar)
  \/ FailIgnition(bar) \/ PullBack(bar) \/ KeepIgnition(bar)
  \/ FailPullback(bar) \/ Continue(bar) \/ KeepPullback(bar)
  \/ Distribute(bar) \/ KeepContinuation(bar)
  \/ BreakDown(bar) \/ KeepDistribution(bar)
  \/ UnknownVwap(bar) \/ Reclaim(bar) \/ Rebound(bar) \/ GoShort(bar) \/ KeepFalling(bar)
  \/ \E elapsed \in 1 .. MaxGap : Cool(bar, elapsed) \/ EndCooldown(bar, elapsed)

Next ==
  \E bar \in Bars :
    /\ Process(bar)
    /\ blind' = (state = "BREAKDOWN" /\ (blind \/ bar.vwap = None))
Spec == Init /\ [][Next]_vars

-----------------------------------------------------------------------------
(* Properties.                                                               *)

MaybePrice == Prices \cup {None}

\* Type invariant, with the fields every state needs to be set.
TypeOK ==
  /\ state \in States /\ anchored \in BOOLEAN
  /\ context \in [start : MaybePrice, high : MaybePrice, low : MaybePrice,
                  breakout : MaybePrice, volumeValid : BOOLEAN, peakPrice : MaybePrice,
                  peakCvd : Cvds \cup {None}, divergence : BOOLEAN, reboundHigh : MaybePrice,
                  reboundSeen : BOOLEAN, previousPrice : MaybePrice,
                  cooldown : 0 .. CooldownBars]
  /\ signal \in [side : {"NONE", "LONG", "SHORT"}, entry : MaybePrice, stop : MaybePrice]
  /\ longs \in Nat /\ shorts \in Nat /\ blind \in BOOLEAN
  /\ state \notin {"NORMAL", "WATCH"} =>
       context.start \in Prices /\ context.high \in Prices /\ context.peakPrice \in Prices
  /\ state = "PULLBACK" => context.low \in Prices /\ context.breakout \in Prices
  /\ context.reboundSeen => context.reboundHigh \in Prices
  /\ state # "NORMAL" => anchored /\ context.previousPrice \in Prices

\* _long_signal, _short_signal: the reference stop is on the losing side of the
\* reference entry, which evaluate_entry sizes the position by.  For a short signal
\* only if the VWAP was known throughout the breakdown: on a bar without one the
\* rebound's high, the stop, is not raised, and the price may pass it.
StopBehindEntry ==
  /\ signal.side = "LONG" => signal.stop < signal.entry
  /\ signal.side = "SHORT" /\ ~blind => signal.stop > signal.entry

\* process: between two cooldowns there is at most one long signal, and a short
\* signal only after it.
SignalsPaired == longs <= 1 /\ shorts <= longs

\* _process_ignition, _process_pullback: a long signal states VALID_PULLBACK_DEPTH,
\* and the lowest price since the ignition's high lies within both ratios.
LongAfterValidPullback ==
  signal.side = "LONG" =>
    LET rise == context.high - context.start
        depth == (context.high - context.low) * 100
    IN  rise > 0 /\ PullbackMin * rise <= depth /\ depth <= PullbackMax * rise

\* _process_breakdown: an ignition that failed before its long signal moves between
\* BREAKDOWN and DISTRIBUTION for good; the symbol emits no signal again.
FailedIgnitionIsFinal ==
  [][longs = 0 /\ state \in {"BREAKDOWN", "DISTRIBUTION"} =>
       state' \in {"BREAKDOWN", "DISTRIBUTION"} /\ signal' = NoSignal]_vars
=============================================================================
