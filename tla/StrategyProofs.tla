---------------------------- MODULE StrategyProofs ----------------------------
(***************************************************************************)
(* Proofs about StrategyStateMachine, for any prices, CVD values, pullback    *)
(* ratios and length of the cooldown.                                         *)
(***************************************************************************)
EXTENDS StrategyStateMachine, TLAPS

Contexts ==
  [start : MaybePrice, high : MaybePrice, low : MaybePrice,
   breakout : MaybePrice, volumeValid : BOOLEAN, peakPrice : MaybePrice,
   peakCvd : Cvds \cup {None}, divergence : BOOLEAN, reboundHigh : MaybePrice,
   reboundSeen : BOOLEAN, previousPrice : MaybePrice, cooldown : 0 .. CooldownBars]

\* The fields that a state needs.
Needs(s, c) ==
  /\ s \notin {"NORMAL", "WATCH"} =>
       c.start \in Prices /\ c.high \in Prices /\ c.peakPrice \in Prices
  /\ s = "PULLBACK" => c.low \in Prices /\ c.breakout \in Prices
  /\ c.reboundSeen => c.reboundHigh \in Prices

LEMMA TypeParts ==
  /\ TypeOK <=>
       /\ state \in States /\ anchored \in BOOLEAN /\ context \in Contexts
       /\ signal \in [side : {"NONE", "LONG", "SHORT"}, entry : MaybePrice, stop : MaybePrice]
       /\ longs \in Nat /\ shorts \in Nat /\ blind \in BOOLEAN
       /\ Needs(state, context)
       /\ state # "NORMAL" => anchored /\ context.previousPrice \in Prices
  /\ TypeOK' <=>
       /\ state' \in States /\ anchored' \in BOOLEAN /\ context' \in Contexts
       /\ signal' \in [side : {"NONE", "LONG", "SHORT"}, entry : MaybePrice, stop : MaybePrice]
       /\ longs' \in Nat /\ shorts' \in Nat /\ blind' \in BOOLEAN
       /\ Needs(state', context')
       /\ state' # "NORMAL" => anchored' /\ context'.previousPrice \in Prices
BY DEF TypeOK, Contexts, Needs

\* Prices and CVD values are numbers that differ from None and, prices, from zero.
LEMMA Numbers ==
  /\ \A p \in Prices : p \in Int /\ p > 0 /\ p # None
  /\ \A v \in Cvds : v \in Int /\ v # None
BY StrategyAssumption DEF None

LEMMA Extremes ==
  ASSUME NEW p \in Prices, NEW q \in Prices
  PROVE  /\ Larger(p, q) \in Prices /\ Larger(p, q) >= p /\ Larger(p, q) >= q
         /\ Smaller(p, q) \in Prices /\ Smaller(p, q) <= p /\ Smaller(p, q) <= q
BY Numbers DEF Larger, Smaller

LEMMA CooldownRange ==
  /\ 0 \in 0 .. CooldownBars /\ CooldownBars \in 0 .. CooldownBars
  /\ \A rest \in 0 .. CooldownBars, elapsed \in 1 .. MaxGap :
       elapsed < rest => rest - elapsed \in 0 .. CooldownBars
BY StrategyAssumption

\* A bar that leaves signals and anchor alone.
LEMMA QuietBar ==
  ASSUME TypeOK, NEW bar \in Bars, NEW c \in Contexts, NEW to \in States,
         state' = to, Remember(c, bar), UNCHANGED anchored, Silent, Needs(to, c),
         blind' \in BOOLEAN, to # "NORMAL" => anchored
  PROVE  TypeOK'
<1>1. bar.price \in Prices
  BY DEF Bars
<1>2. context' \in Contexts /\ context'.previousPrice = bar.price
  BY <1>1 DEF Remember, Contexts, MaybePrice
<1>3. Needs(state', context')
  BY <1>2 DEF Needs, Remember, Contexts
<1>4. signal' \in [side : {"NONE", "LONG", "SHORT"}, entry : MaybePrice, stop : MaybePrice]
  BY DEF Silent, NoSignal, MaybePrice
<1> QED BY <1>1, <1>2, <1>3, <1>4, TypeParts DEF Silent

LEMMA ProcessType ==
  ASSUME TypeOK, NEW bar \in Bars, Process(bar), blind' \in BOOLEAN
  PROVE  TypeOK'
<1>1. /\ bar.price \in Prices /\ bar.cvd \in Cvds \cup {None} /\ bar.flow \in BOOLEAN
      /\ bar.vwap \in {None} \cup Prices
  BY DEF Bars, Vwaps
<1>2. context \in Contexts /\ Needs(state, context) /\ state \in States
      /\ (state # "NORMAL" => anchored)
  BY TypeParts
<1> USE <1>1, <1>2, Numbers
<1>3. CASE Watch(bar)
  <2>1. context' \in Contexts /\ context'.previousPrice = bar.price /\ Needs(state', context')
    BY <1>3 DEF Watch, Remember, Contexts, MaybePrice, Needs
  <2>2. signal' \in [side : {"NONE", "LONG", "SHORT"}, entry : MaybePrice, stop : MaybePrice]
    BY <1>3 DEF Watch, Silent, NoSignal, MaybePrice
  <2> QED BY <1>3, <2>1, <2>2, TypeParts DEF Watch, Silent, States
<1>4. CASE KeepNormal(bar) \/ KeepWatching(bar) \/ KeepDistribution(bar) \/ UnknownVwap(bar)
           \/ KeepFalling(bar)
  BY <1>4, QuietBar DEF KeepNormal, KeepWatching, KeepDistribution, UnknownVwap, KeepFalling,
     Stay
<1>5. CASE Ignite(bar)
  <2> DEFINE c == [context EXCEPT !.start = bar.vwap, !.high = bar.price,
                                  !.peakPrice = bar.price, !.peakCvd = bar.cvd]
  <2>1. c \in Contexts /\ Needs("IGNITION", c)
    BY <1>5 DEF Ignite, Ignites, Contexts, MaybePrice, Needs
  <2> QED BY <1>5, <2>1, QuietBar DEF Ignite, Move, States
<1>6. CASE FailIgnition(bar) \/ PullBack(bar) \/ KeepIgnition(bar)
  <2>1. state = "IGNITION" /\ Risen(bar) \in Contexts /\ Needs("IGNITION", Risen(bar))
    BY <1>6, Extremes DEF FailIgnition, PullBack, KeepIgnition, Risen, Contexts, MaybePrice, Needs
  <2>2. CASE FailIgnition(bar)
    BY <2>1, <2>2, QuietBar DEF FailIgnition, Move, Needs, States
  <2>3. CASE PullBack(bar)
    <3> DEFINE c == [Risen(bar) EXCEPT !.low = bar.price, !.breakout = Risen(bar).high,
                                       !.volumeValid = bar.flow]
    <3>1. c \in Contexts /\ Needs("PULLBACK", c)
      BY <2>1 DEF Contexts, MaybePrice, Needs
    <3> QED BY <2>1, <2>3, <3>1, QuietBar DEF PullBack, Move, States
  <2>4. CASE KeepIgnition(bar)
    BY <2>1, <2>4, QuietBar DEF KeepIgnition, Stay
  <2> QED BY <1>6, <2>2, <2>3, <2>4
<1>7. CASE FailPullback(bar) \/ Continue(bar) \/ KeepPullback(bar)
  <2>1. state = "PULLBACK" /\ Lowered(bar) \in Contexts /\ Needs("PULLBACK", Lowered(bar))
    BY <1>7, Extremes DEF FailPullback, Continue, KeepPullback, Lowered, Contexts, MaybePrice, Needs
  <2>2. CASE FailPullback(bar)
    BY <2>1, <2>2, QuietBar DEF FailPullback, Move, Needs, States
  <2>3. CASE Continue(bar)
    <3> DEFINE c == [Lowered(bar) EXCEPT !.peakPrice = bar.price, !.peakCvd = bar.cvd]
    <3>1. c \in Contexts /\ Needs("CONTINUATION", c)
      BY <2>1 DEF Contexts, MaybePrice, Needs
    <3>2. context' \in Contexts /\ context'.previousPrice = bar.price /\ Needs(state', context')
      BY <2>3, <3>1 DEF Continue, Remember, Contexts, MaybePrice, Needs
    <3>3. signal' \in [side : {"NONE", "LONG", "SHORT"}, entry : MaybePrice, stop : MaybePrice]
      BY <2>1, <2>3 DEF Continue, Needs, MaybePrice
    <3> QED BY <2>1, <2>3, <3>2, <3>3, TypeParts DEF Continue, States
  <2>4. CASE KeepPullback(bar)
    BY <2>1, <2>4, QuietBar DEF KeepPullback, Stay
  <2> QED BY <1>7, <2>2, <2>3, <2>4
<1>8. CASE Distribute(bar) \/ KeepContinuation(bar)
  <2>1. Peaked(bar).peakCvd \in Cvds \cup {None}
    BY DEF Peaked, Contexts, Larger, Or
  <2>2. state = "CONTINUATION" /\ Peaked(bar) \in Contexts /\ Needs("CONTINUATION", Peaked(bar))
    BY <1>8, <2>1, Extremes DEF Distribute, KeepContinuation, Peaked, Contexts, MaybePrice, Needs
  <2>3. CASE Distribute(bar)
    <3>1. /\ [Peaked(bar) EXCEPT !.divergence = TRUE] \in Contexts
          /\ Needs("DISTRIBUTION", [Peaked(bar) EXCEPT !.divergence = TRUE])
      BY <2>2 DEF Contexts, Needs
    <3> QED BY <2>2, <2>3, <3>1, QuietBar DEF Distribute, Move, States
  <2>4. CASE KeepContinuation(bar)
    BY <2>2, <2>4, QuietBar DEF KeepContinuation, Stay
  <2> QED BY <1>8, <2>3, <2>4
<1>9. CASE BreakDown(bar) \/ Reclaim(bar)
  <2>1. /\ NoRebound(context) \in Contexts
        /\ Needs("BREAKDOWN", NoRebound(context)) /\ Needs("DISTRIBUTION", NoRebound(context))
    BY <1>9 DEF BreakDown, Reclaim, NoRebound, Contexts, MaybePrice, Needs
  <2> QED BY <1>9, <2>1, QuietBar DEF BreakDown, Reclaim, Move, States
<1>10. CASE Rebound(bar)
  <2> DEFINE c == [context EXCEPT !.reboundSeen = TRUE,
                                  !.reboundHigh = Larger(Or(@, bar.price), bar.price)]
  <2>1. Larger(Or(context.reboundHigh, bar.price), bar.price) \in Prices
    BY Extremes DEF Contexts, MaybePrice, Or
  <2>2. c \in Contexts /\ Needs("BREAKDOWN", c)
    BY <1>10, <2>1 DEF Rebound, Contexts, MaybePrice, Needs
  <2> QED BY <1>10, <2>2, QuietBar DEF Rebound, Stay
<1>11. CASE GoShort(bar)
  <2>1. /\ [context EXCEPT !.cooldown = CooldownBars] \in Contexts
        /\ Needs("COOLDOWN", [context EXCEPT !.cooldown = CooldownBars])
    BY <1>11, CooldownRange DEF GoShort, Contexts, Needs
  <2>2. context' \in Contexts /\ context'.previousPrice = bar.price /\ Needs(state', context')
    BY <1>11, <2>1 DEF GoShort, Remember, Contexts, MaybePrice, Needs
  <2>3. signal' \in [side : {"NONE", "LONG", "SHORT"}, entry : MaybePrice, stop : MaybePrice]
    BY <1>11 DEF GoShort, Contexts, MaybePrice
  <2> QED BY <1>11, <2>2, <2>3, TypeParts DEF GoShort, States
<1>12. ASSUME NEW elapsed \in 1 .. MaxGap, Cool(bar, elapsed) PROVE TypeOK'
  <2>1. /\ [context EXCEPT !.cooldown = @ - elapsed] \in Contexts
        /\ Needs("COOLDOWN", [context EXCEPT !.cooldown = @ - elapsed])
    BY <1>12, CooldownRange DEF Cool, Contexts, Needs
  <2> QED BY <1>12, <2>1, QuietBar DEF Cool, Stay
<1>13. ASSUME NEW elapsed \in 1 .. MaxGap, EndCooldown(bar, elapsed) PROVE TypeOK'
  <2>1. context' \in Contexts /\ Needs(state', context')
    BY <1>13, CooldownRange DEF EndCooldown, Remember, Fresh, Contexts, MaybePrice, Needs
  <2>2. signal' \in [side : {"NONE", "LONG", "SHORT"}, entry : MaybePrice, stop : MaybePrice]
    BY <1>13 DEF EndCooldown, NoSignal, MaybePrice
  <2> QED BY <1>13, <2>1, <2>2, TypeParts DEF EndCooldown, States
<1> QED BY <1>3, <1>4, <1>5, <1>6, <1>7, <1>8, <1>9, <1>10, <1>11, <1>12, <1>13 DEF Process

\* process: every state has the fields it reads, for any sequence of bars.
THEOREM StrategyTypeCorrect == Spec => []TypeOK
<1>1. Init => TypeOK
  <2> SUFFICES ASSUME Init PROVE TypeOK
    OBVIOUS
  <2>1. context \in Contexts /\ Needs(state, context)
    BY CooldownRange DEF Init, Fresh, Contexts, MaybePrice, Needs
  <2>2. signal \in [side : {"NONE", "LONG", "SHORT"}, entry : MaybePrice, stop : MaybePrice]
    BY DEF Init, NoSignal, MaybePrice
  <2> QED BY <2>1, <2>2, TypeParts DEF Init, States
<1>2. TypeOK /\ [Next]_vars => TypeOK'
  <2>1. ASSUME TypeOK, NEW bar \in Bars, Process(bar),
               blind' = (state = "BREAKDOWN" /\ (blind \/ bar.vwap = None))
        PROVE  TypeOK'
    <3>1. blind' \in BOOLEAN
      BY <2>1
    <3> QED BY <2>1, <3>1, ProcessType
  <2>2. TypeOK /\ UNCHANGED vars => TypeOK'
    BY DEF TypeOK, vars
  <2> QED BY <2>1, <2>2 DEF Next
<1> QED BY <1>1, <1>2, PTL DEF Spec

-----------------------------------------------------------------------------
(* The order of the signals.                                                 *)

\* Where a symbol stands between two cooldowns tells which signals it has emitted; a
\* divergence is only ever found behind a long signal.
PhaseInv ==
  /\ longs <= 1 /\ shorts <= longs
  /\ state \in {"NORMAL", "WATCH", "IGNITION", "PULLBACK"} => longs = 0
  /\ state \in {"CONTINUATION", "COOLDOWN"} => longs = 1
  /\ state # "COOLDOWN" => shorts = 0
  /\ context.divergence => longs = 1

LEMMA ProcessPhase ==
  ASSUME TypeOK, PhaseInv, NEW bar \in Bars, Process(bar)
  PROVE  PhaseInv'
<1>1. context \in Contexts /\ longs \in Nat /\ shorts \in Nat
  BY TypeParts
<1> USE <1>1
<1>2. CASE Watch(bar) \/ KeepNormal(bar) \/ Ignite(bar) \/ KeepWatching(bar)
  BY <1>2 DEF Watch, KeepNormal, Ignite, KeepWatching, Move, Stay, Remember, Silent, PhaseInv,
     Contexts
<1>3. CASE FailIgnition(bar) \/ PullBack(bar) \/ KeepIgnition(bar)
  BY <1>3 DEF FailIgnition, PullBack, KeepIgnition, Risen, Move, Stay, Remember, Silent,
     PhaseInv, Contexts
<1>4. CASE FailPullback(bar) \/ Continue(bar) \/ KeepPullback(bar)
  <2>1. CASE FailPullback(bar) \/ KeepPullback(bar)
    BY <2>1 DEF FailPullback, KeepPullback, Lowered, Move, Stay, Remember, Silent, PhaseInv,
       Contexts
  <2>2. CASE Continue(bar)
    <3>1. longs = 0 /\ longs' = 1 /\ shorts' = 0 /\ state' = "CONTINUATION"
      BY <2>2 DEF Continue, PhaseInv
    <3> QED BY <3>1 DEF PhaseInv
  <2> QED BY <1>4, <2>1, <2>2
<1>5. CASE Distribute(bar) \/ KeepContinuation(bar)
  BY <1>5 DEF Distribute, KeepContinuation, Peaked, Move, Stay, Remember, Silent, PhaseInv,
     Contexts
<1>6. CASE BreakDown(bar) \/ KeepDistribution(bar) \/ UnknownVwap(bar) \/ Reclaim(bar)
  BY <1>6 DEF BreakDown, KeepDistribution, UnknownVwap, Reclaim, NoRebound, Move, Stay,
     Remember, Silent, PhaseInv, Contexts
<1>7. CASE Rebound(bar) \/ GoShort(bar) \/ KeepFalling(bar)
  <2>1. CASE Rebound(bar) \/ KeepFalling(bar)
    BY <2>1 DEF Rebound, KeepFalling, Stay, Remember, Silent, PhaseInv, Contexts
  <2>2. CASE GoShort(bar)
    <3>1. context.divergence /\ state = "BREAKDOWN" /\ state' = "COOLDOWN"
      BY <2>2 DEF GoShort, ReboundFails
    <3>2. longs' = 1 /\ shorts' = 1
      BY <2>2, <3>1 DEF GoShort, PhaseInv
    <3> QED BY <3>1, <3>2 DEF PhaseInv
  <2> QED BY <1>7, <2>1, <2>2
<1>8. ASSUME NEW elapsed \in 1 .. MaxGap, Cool(bar, elapsed) \/ EndCooldown(bar, elapsed)
      PROVE  PhaseInv'
  BY <1>8 DEF Cool, EndCooldown, Stay, Remember, Silent, Fresh, PhaseInv, Contexts
<1> QED BY <1>2, <1>3, <1>4, <1>5, <1>6, <1>7, <1>8 DEF Process

LEMMA PhaseInvariant == Spec => []PhaseInv
<1>1. Init => PhaseInv
  BY DEF Init, Fresh, PhaseInv
<1>2. TypeOK /\ PhaseInv /\ [Next]_vars => PhaseInv'
  <2>1. PhaseInv /\ UNCHANGED vars => PhaseInv'
    BY DEF PhaseInv, vars
  <2> QED BY <2>1, ProcessPhase DEF Next
<1> QED BY <1>1, <1>2, StrategyTypeCorrect, PTL DEF Spec

\* process: for any bars a long signal comes first, at most one of each side, before the
\* cooldown has ended.
THEOREM SignalsArePaired == Spec => []SignalsPaired
<1>1. PhaseInv => SignalsPaired
  BY DEF PhaseInv, SignalsPaired
<1> QED BY <1>1, PhaseInvariant, PTL

\* _process_breakdown: a symbol whose ignition failed before its long signal never
\* leaves BREAKDOWN and DISTRIBUTION, and is silent in them.
THEOREM FailedIgnitionStays == Spec => FailedIgnitionIsFinal
<1>1. ASSUME TypeOK, PhaseInv, NEW bar \in Bars, Process(bar), longs = 0,
             state \in {"BREAKDOWN", "DISTRIBUTION"}
      PROVE  state' \in {"BREAKDOWN", "DISTRIBUTION"} /\ signal' = NoSignal
  <2>1. ~context.divergence
    BY <1>1 DEF PhaseInv
  <2>2. /\ ~Watch(bar) /\ ~KeepNormal(bar) /\ ~Ignite(bar) /\ ~KeepWatching(bar)
        /\ ~FailIgnition(bar) /\ ~PullBack(bar) /\ ~KeepIgnition(bar)
        /\ ~FailPullback(bar) /\ ~Continue(bar) /\ ~KeepPullback(bar)
        /\ ~Distribute(bar) /\ ~KeepContinuation(bar)
        /\ \A elapsed \in 1 .. MaxGap : ~Cool(bar, elapsed) /\ ~EndCooldown(bar, elapsed)
    BY <1>1 DEF Watch, KeepNormal, Ignite, KeepWatching, FailIgnition, PullBack, KeepIgnition,
       FailPullback, Continue, KeepPullback, Distribute, KeepContinuation, Cool, EndCooldown
  <2>3. ~GoShort(bar)
    BY <2>1 DEF GoShort, ReboundFails
  <2>4. \/ BreakDown(bar) \/ KeepDistribution(bar) \/ UnknownVwap(bar) \/ Reclaim(bar)
        \/ Rebound(bar) \/ KeepFalling(bar)
    BY <1>1, <2>2, <2>3 DEF Process
  <2> QED BY <1>1, <2>4 DEF BreakDown, KeepDistribution, UnknownVwap, Reclaim, Rebound,
          KeepFalling, Move, Stay, Silent
<1>2. /\ TypeOK /\ PhaseInv /\ [Next]_vars
      => [longs = 0 /\ state \in {"BREAKDOWN", "DISTRIBUTION"} =>
            state' \in {"BREAKDOWN", "DISTRIBUTION"} /\ signal' = NoSignal]_vars
  BY <1>1 DEF Next
<1> QED BY <1>2, StrategyTypeCorrect, PhaseInvariant, PTL DEF Spec, FailedIgnitionIsFinal

-----------------------------------------------------------------------------
(* Prices of the signals.                                                    *)

\* The high is above the ignition's start, and once the price has pulled back far
\* enough it stays so, since the low only falls.
RiseInv ==
  /\ state \in {"IGNITION", "PULLBACK"} => context.start < context.high
  /\ state = "PULLBACK" =>
       /\ context.low < context.breakout
       /\ PullbackMin * (context.high - context.start) <= (context.high - context.low) * 100

\* A rebound's high is not passed while the VWAP is known.
ReboundInv ==
  /\ state \notin {"BREAKDOWN", "COOLDOWN"} => ~context.reboundSeen
  /\ state = "BREAKDOWN" /\ context.reboundSeen /\ ~blind =>
       context.reboundHigh >= context.previousPrice

PriceInv == RiseInv /\ ReboundInv /\ LongAfterValidPullback /\ StopBehindEntry

\* A bar without a signal.
LEMMA SilentPrices == Silent => LongAfterValidPullback' /\ StopBehindEntry'
BY DEF Silent, NoSignal, LongAfterValidPullback, StopBehindEntry

LEMMA RatioRange == PullbackMin \in Int /\ PullbackMax \in Int
BY StrategyAssumption

\* A deeper low deepens the pullback.
LEMMA DeeperLow ==
  ASSUME NEW share \in Int, NEW high \in Int, NEW low \in Int, NEW lower \in Int,
         lower <= low, share <= (high - low) * 100
  PROVE  share <= (high - lower) * 100
OBVIOUS

LEMMA ProductRange == \A x, y \in Int : x * y \in Int /\ x * y = y * x
OBVIOUS

LEMMA ProcessPrices ==
  ASSUME TypeOK, PriceInv, NEW bar \in Bars, Process(bar),
         blind' = (state = "BREAKDOWN" /\ (blind \/ bar.vwap = None))
  PROVE  PriceInv'
<1>1. /\ context \in Contexts /\ Needs(state, context) /\ bar.price \in Prices
      /\ bar.vwap \in Prices \cup {None} /\ RiseInv /\ ReboundInv
      /\ state # "NORMAL" => context.previousPrice \in Prices
  BY TypeParts DEF Bars, Vwaps, PriceInv
<1>0. bar.vwap # None /\ state = "BREAKDOWN" /\ ~blind' => ~blind
  OBVIOUS
<1> USE <1>1, Numbers
<1>2. CASE Watch(bar) \/ KeepNormal(bar) \/ KeepWatching(bar)
  <2>1. RiseInv' /\ ReboundInv'
    BY <1>2 DEF Watch, KeepNormal, KeepWatching, Stay, Remember, RiseInv, ReboundInv, Contexts
  <2> QED BY <1>2, <2>1, SilentPrices DEF Watch, KeepNormal, KeepWatching, Stay, PriceInv
<1>3. CASE Ignite(bar)
  <2>1. context'.start = bar.vwap /\ context'.high = bar.price /\ bar.price > bar.vwap
    BY <1>3 DEF Ignite, Ignites, Move, Remember, Contexts
  <2>2. RiseInv' /\ ReboundInv'
    BY <1>3, <2>1 DEF Ignite, Move, Remember, RiseInv, ReboundInv, Contexts
  <2> QED BY <1>3, <2>2, SilentPrices DEF Ignite, Move, PriceInv
<1>4. CASE FailIgnition(bar) \/ PullBack(bar) \/ KeepIgnition(bar)
  <2>1. /\ state = "IGNITION" /\ context.start \in Prices /\ context.high \in Prices
        /\ context.start < context.high /\ ~context.reboundSeen
    BY <1>4 DEF FailIgnition, PullBack, KeepIgnition, Needs, RiseInv, ReboundInv
  <2> DEFINE high == Larger(context.high, bar.price)
  <2>2. Risen(bar) = [context EXCEPT !.high = high]
    BY DEF Risen
  <2>3. high \in Prices /\ context.start < high
    BY <2>1, Extremes
  <2>4. ReboundInv'
    BY <1>4, <2>1, <2>2 DEF FailIgnition, PullBack, KeepIgnition, Move, Stay, Remember, ReboundInv,
       Contexts
  <2>5. RiseInv'
    <3>1. CASE FailIgnition(bar)
      BY <3>1 DEF FailIgnition, Move, RiseInv
    <3>2. CASE KeepIgnition(bar)
      <4>1. state' = "IGNITION" /\ context'.start = context.start /\ context'.high = high
        BY <2>1, <2>2, <3>2 DEF KeepIgnition, Stay, Remember, Contexts
      <4> QED BY <2>3, <4>1 DEF RiseInv
    <3>3. CASE PullBack(bar)
      <4>1. /\ state' = "PULLBACK" /\ context'.start = context.start /\ context'.high = high
            /\ context'.low = bar.price /\ context'.breakout = high
        BY <2>2, <3>3 DEF PullBack, Move, Remember, Contexts
      <4>2. bar.price < high /\ (high - bar.price) * 100 >= (high - context.start) * PullbackMin
        <5>1. Risen(bar).high = high /\ Risen(bar).start = context.start
          BY <2>2 DEF Contexts
        <5> QED BY <3>3, <5>1 DEF PullBack, DeepEnough
      <4>3. PullbackMin * (high - context.start) <= (high - bar.price) * 100
        <5>1. high - context.start \in Int /\ high - bar.price \in Int
          BY <2>1, <2>3
        <5> HIDE DEF high
        <5> QED BY <4>2, <5>1, RatioRange, ProductRange
      <4> QED BY <2>3, <4>1, <4>2, <4>3 DEF RiseInv
    <3> QED BY <1>4, <3>1, <3>2, <3>3
  <2> QED BY <1>4, <2>4, <2>5, SilentPrices DEF FailIgnition, PullBack, KeepIgnition, Move, Stay,
          PriceInv
<1>5. CASE FailPullback(bar) \/ Continue(bar) \/ KeepPullback(bar)
  <2>1. /\ state = "PULLBACK" /\ context.start \in Int /\ context.high \in Int
        /\ context.low \in Prices /\ context.breakout \in Int /\ context.start < context.high
        /\ context.low < context.breakout /\ ~context.reboundSeen
        /\ PullbackMin * (context.high - context.start) <= (context.high - context.low) * 100
    BY <1>5 DEF FailPullback, Continue, KeepPullback, Needs, RiseInv, ReboundInv
  <2> DEFINE low == Smaller(context.low, bar.price)
  <2>2. Lowered(bar) = [context EXCEPT !.low = low]
    BY DEF Lowered
  <2>3. low \in Prices /\ low \in Int /\ low <= context.low /\ low < context.breakout
    BY <2>1, Extremes
  <2>4. PullbackMin * (context.high - context.start) <= (context.high - low) * 100
    <3>1. PullbackMin * (context.high - context.start) \in Int /\ context.low \in Int
      BY <2>1, RatioRange, ProductRange
    <3> HIDE DEF low
    <3> QED BY <2>1, <2>3, <3>1, DeeperLow
  <2>5. CASE FailPullback(bar) \/ KeepPullback(bar)
    <3>1. ReboundInv'
      BY <2>1, <2>2, <2>5 DEF FailPullback, KeepPullback, Move, Stay, Remember, ReboundInv,
         Contexts
    <3>2. RiseInv'
      <4>1. CASE FailPullback(bar)
        BY <4>1 DEF FailPullback, Move, RiseInv
      <4>2. CASE KeepPullback(bar)
        <5>1. /\ context'.start = context.start /\ context'.high = context.high
              /\ context'.breakout = context.breakout /\ context'.low = low
          BY <2>2, <4>2 DEF KeepPullback, Stay, Remember, Contexts
        <5> QED BY <2>1, <2>3, <2>4, <5>1 DEF RiseInv
      <4> QED BY <2>5, <4>1, <4>2
    <3> QED BY <2>5, <3>1, <3>2, SilentPrices DEF FailPullback, KeepPullback, Move, Stay, PriceInv
  <2>6. CASE Continue(bar)
    <3>1. /\ context'.start = context.start /\ context'.high = context.high
          /\ context'.low = low /\ context'.reboundSeen = context.reboundSeen
      BY <2>2, <2>6 DEF Continue, Remember, Contexts
    <3>2. /\ state' = "CONTINUATION" /\ bar.price >= context.breakout
          /\ signal' = [side |-> "LONG", entry |-> bar.price, stop |-> low]
      BY <2>2, <2>6 DEF Continue, BreaksOut, Contexts
    <3>3. (context.high - low) * 100 <= PullbackMax * (context.high - context.start)
      <4>1. ~((context.high - low) * 100 > (context.high - context.start) * PullbackMax)
        BY <2>2, <2>6 DEF Continue, TooDeep, Contexts
      <4>2. /\ context.high - context.start \in Int /\ (context.high - low) * 100 \in Int
        BY <2>1, <2>3
      <4> HIDE DEF low
      <4> QED BY <4>1, <4>2, RatioRange, ProductRange
    <3>4. LongAfterValidPullback'
      <4>1. context.high - context.start > 0
        BY <2>1
      <4> HIDE DEF low
      <4> QED BY <2>4, <3>1, <3>3, <4>1 DEF LongAfterValidPullback
    <3>5. StopBehindEntry'
      <4> HIDE DEF low
      <4>1. low < bar.price
        <5>1. bar.price >= context.breakout /\ bar.price \in Int /\ context.breakout \in Int
          BY <2>1, <3>2
        <5> QED BY <2>3, <5>1
      <4>2. signal'.side = "LONG" /\ signal'.stop = low /\ signal'.entry = bar.price
        BY <3>2
      <4> QED BY <4>1, <4>2 DEF StopBehindEntry
    <3>6. RiseInv' /\ ReboundInv'
      BY <2>1, <3>1, <3>2 DEF RiseInv, ReboundInv
    <3> QED BY <3>4, <3>5, <3>6 DEF PriceInv
  <2> QED BY <1>5, <2>5, <2>6
<1>6. CASE Distribute(bar) \/ KeepContinuation(bar)
  <2>1. context'.reboundSeen = context.reboundSeen
    BY <1>6 DEF Distribute, KeepContinuation, Peaked, Move, Stay, Remember, Contexts
  <2>2. RiseInv' /\ ReboundInv'
    BY <1>6, <2>1 DEF Distribute, KeepContinuation, Move, Stay, RiseInv, ReboundInv
  <2> QED BY <1>6, <2>2, SilentPrices DEF Distribute, KeepContinuation, Move, Stay, PriceInv
<1>7. CASE BreakDown(bar) \/ KeepDistribution(bar) \/ Reclaim(bar)
  <2>1. ~context'.reboundSeen
    BY <1>7 DEF BreakDown, KeepDistribution, Reclaim, NoRebound, Move, Stay, Remember, Contexts,
       ReboundInv
  <2>2. RiseInv' /\ ReboundInv'
    BY <1>7, <2>1 DEF BreakDown, KeepDistribution, Reclaim, Move, Stay, RiseInv, ReboundInv
  <2> QED BY <1>7, <2>2, SilentPrices DEF BreakDown, KeepDistribution, Reclaim, Move, Stay, PriceInv
<1>8. CASE UnknownVwap(bar)
  <2>1. blind' /\ state' = "BREAKDOWN" /\ Silent
    BY <1>8 DEF UnknownVwap, Stay
  <2> QED BY <2>1, SilentPrices DEF RiseInv, ReboundInv, PriceInv
<1>9. CASE Rebound(bar)
  <2>1. Larger(Or(context.reboundHigh, bar.price), bar.price) >= bar.price
    BY Extremes DEF Contexts, MaybePrice, Or
  <2>2. context'.reboundHigh >= context'.previousPrice /\ state' = "BREAKDOWN"
    BY <1>9, <2>1 DEF Rebound, Stay, Remember, Contexts
  <2> QED BY <1>9, <2>2, SilentPrices DEF Rebound, Stay, RiseInv, ReboundInv, PriceInv
<1>10. CASE KeepFalling(bar)
  <2>1. /\ state = "BREAKDOWN" /\ state' = "BREAKDOWN" /\ bar.vwap # None
        /\ context'.previousPrice = bar.price /\ context'.reboundSeen = context.reboundSeen
        /\ context'.reboundHigh = context.reboundHigh
    BY <1>10 DEF KeepFalling, BelowVwap, Stay, Remember, Contexts
  <2>2. bar.price <= context.previousPrice /\ context.previousPrice \in Int
    BY <1>10, <2>1 DEF KeepFalling, Rebounds
  <2>3. context.reboundSeen => context.reboundHigh \in Int
    BY DEF Needs
  <2>4. context'.reboundSeen /\ ~blind' => context'.reboundHigh >= context'.previousPrice
    BY <1>0, <2>1, <2>2, <2>3 DEF ReboundInv
  <2>5. RiseInv' /\ ReboundInv'
    BY <2>1, <2>4 DEF RiseInv, ReboundInv
  <2> QED BY <1>10, <2>5, SilentPrices DEF KeepFalling, Stay, PriceInv
<1>11. CASE GoShort(bar)
  <2>1. /\ state = "BREAKDOWN" /\ state' = "COOLDOWN" /\ bar.vwap # None
        /\ context.reboundSeen /\ bar.price < context.previousPrice
        /\ signal' = [side |-> "SHORT", entry |-> bar.price, stop |-> context.reboundHigh]
    BY <1>11 DEF GoShort, BelowVwap, ReboundFails
  <2>2. context.reboundHigh \in Int /\ context.previousPrice \in Int
    BY <2>1 DEF Needs
  <2>3. ~blind' => context.reboundHigh > bar.price
    BY <1>0, <2>1, <2>2 DEF ReboundInv
  <2>4. StopBehindEntry'
    BY <2>1, <2>3 DEF StopBehindEntry
  <2> QED BY <2>1, <2>4 DEF RiseInv, ReboundInv, LongAfterValidPullback, PriceInv
<1>12. ASSUME NEW elapsed \in 1 .. MaxGap, Cool(bar, elapsed) PROVE PriceInv'
  BY <1>12, SilentPrices DEF Cool, Stay, RiseInv, ReboundInv, PriceInv
<1>13. ASSUME NEW elapsed \in 1 .. MaxGap, EndCooldown(bar, elapsed) PROVE PriceInv'
  BY <1>13 DEF EndCooldown, Remember, Fresh, NoSignal, RiseInv, ReboundInv,
     LongAfterValidPullback, StopBehindEntry, PriceInv
<1> QED BY <1>2, <1>3, <1>4, <1>5, <1>6, <1>7, <1>8, <1>9, <1>10, <1>11, <1>12, <1>13
        DEF Process

LEMMA PriceInvariant == Spec => []PriceInv
<1>1. Init => PriceInv
  BY DEF Init, Fresh, NoSignal, RiseInv, ReboundInv, LongAfterValidPullback, StopBehindEntry,
     PriceInv
<1>2. TypeOK /\ PriceInv /\ [Next]_vars => PriceInv'
  <2>1. PriceInv /\ UNCHANGED vars => PriceInv'
    BY DEF vars, RiseInv, ReboundInv, LongAfterValidPullback, StopBehindEntry, PriceInv
  <2> QED BY <2>1, ProcessPrices DEF Next
<1> QED BY <1>1, <1>2, StrategyTypeCorrect, PTL DEF Spec

\* _process_ignition, _process_pullback: a long signal comes after a rise and a pullback
\* whose lowest price is within both ratios, whatever the ratios and the bars are.
THEOREM LongsFollowValidPullbacks == Spec => []LongAfterValidPullback
<1>1. PriceInv => LongAfterValidPullback
  BY DEF PriceInv
<1> QED BY <1>1, PriceInvariant, PTL

\* _long_signal, _short_signal: the stop that the position is sized by is on the losing
\* side of the entry, for a short if the VWAP was known throughout the breakdown.
THEOREM StopsAreBehindEntries == Spec => []StopBehindEntry
<1>1. PriceInv => StopBehindEntry
  BY DEF PriceInv
<1> QED BY <1>1, PriceInvariant, PTL
=============================================================================
