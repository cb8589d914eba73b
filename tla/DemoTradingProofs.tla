--------------------------- MODULE DemoTradingProofs ---------------------------
(***************************************************************************)
(* Proofs about DemoTrading and the user data stream it composes, for any     *)
(* calls and keys.                                                            *)
(***************************************************************************)
EXTENDS DemoTrading, SequenceTheorems, TLAPS

Frame == Nat \cup {Expired}
InLock == {"query", "post", "recheck"}

\* What the exchange appends to the connection.
LEMMA Appended ==
  ASSUME NEW s \in Seq(Frame), NEW e \in Frame
  PROVE  /\ Append(s, e) \in Seq(Frame) /\ DOMAIN s = 1 .. Len(s) /\ Len(s) \in Nat
         /\ DOMAIN Append(s, e) = 1 .. Len(s) + 1
         /\ \A i \in 1 .. Len(s) : Append(s, e)[i] = s[i]
         /\ Append(s, e)[Len(s) + 1] = e
BY AppendProperties, LenProperties

\* What _receive takes from it.
LEMMA Received ==
  ASSUME NEW s \in Seq(Frame), s # << >>
  PROVE  /\ Tail(s) \in Seq(Frame) /\ Head(s) \in Frame /\ Head(s) = s[1]
         /\ DOMAIN s = 1 .. Len(s) /\ Len(s) \in Nat \ {0}
         /\ DOMAIN Tail(s) = 1 .. Len(s) - 1
         /\ \A i \in 1 .. Len(s) - 1 : Tail(s)[i] = s[i + 1]
<1>1. Tail(s) \in Seq(Frame) /\ Len(Tail(s)) = Len(s) - 1
  BY HeadTailProperties
<1>2. Len(s) \in Nat \ {0}
  BY EmptySeq
<1> QED BY <1>1, <1>2, HeadTailProperties, LenProperties

-----------------------------------------------------------------------------
(* The type invariant, in the parts that different actions change.           *)

CallsType ==
  /\ pc \in [Calls -> {"idle"} \cup Waiting \cup Ended] /\ fetched \in [Calls -> Nat]
  /\ holder \in [Keys -> SUBSET Calls]
  /\ \A c \in Calls : c \in holder[KeyOf[c]] <=> pc[c] \in InLock
ExchangeType ==
  /\ executions \in [Keys -> Nat] /\ late \in [Keys -> Nat]
  /\ remote \in Nat /\ abandoned \subseteq Calls
StreamType ==
  /\ frames \in Seq(Frame) /\ link \in Links
  /\ {keyLive, healthy, missed} \subseteq BOOLEAN /\ lost \in BOOLEAN
AdapterType ==
  /\ local \in Nat /\ inSync \in BOOLEAN
  /\ process \in {"down", "starting", "up"} /\ (link = "stopped" <=> process # "up")
  /\ handler \in [pc : {"idle", "remote", "local"}, fetched : Nat]

LEMMA TypeParts ==
  /\ TypeOK <=> CallsType /\ ExchangeType /\ StreamType /\ AdapterType
  /\ TypeOK' <=> CallsType' /\ ExchangeType' /\ StreamType' /\ AdapterType'
BY DEF TypeOK, CallsType, ExchangeType, StreamType, AdapterType, InLock, Frame

\* What a step leaves alone keeps its type.
LEMMA QuietCalls == CallsType /\ UNCHANGED call => CallsType'
BY DEF CallsType, call
LEMMA QuietExchange == ExchangeType /\ UNCHANGED exchange => ExchangeType'
BY DEF ExchangeType, exchange
LEMMA QuietStream == StreamType /\ UNCHANGED <<streamVars, lost>> => StreamType'
BY DEF StreamType, streamVars
LEMMA QuietAdapter ==
  AdapterType /\ UNCHANGED <<local, inSync, process, link, handler>> => AdapterType'
BY DEF AdapterType

\* A call that leaves the lock's block, on whatever path.
LEMMA LeaveType ==
  ASSUME CallsType, NEW c \in Calls, NEW outcome \in Ended, Leave(c, outcome),
         UNCHANGED fetched
  PROVE  CallsType'
<1>1. KeyOf[c] \in Keys
  BY CallsAssumption
<1>2. pc' \in [Calls -> {"idle"} \cup Waiting \cup Ended] /\ holder' \in [Keys -> SUBSET Calls]
  BY <1>1 DEF CallsType, Leave, Goto
<1>3. ASSUME NEW d \in Calls PROVE d \in holder'[KeyOf[d]] <=> pc'[d] \in InLock
  <2>1. KeyOf[d] \in Keys
    BY CallsAssumption
  <2>2. CASE d = c
    BY <1>1, <2>2 DEF CallsType, Leave, Goto, Ended, InLock
  <2>3. CASE d # c
    BY <1>1, <2>1, <2>3 DEF CallsType, Leave, Goto
  <2> QED BY <2>2, <2>3
<1> QED BY <1>2, <1>3 DEF CallsType

\* A call that goes on without entering or leaving the block.
LEMMA GotoType ==
  ASSUME CallsType, NEW c \in Calls, NEW next \in {"idle"} \cup Waiting \cup Ended,
         Goto(c, next), UNCHANGED holder, pc[c] \in InLock <=> next \in InLock,
         fetched' \in [Calls -> Nat]
  PROVE  CallsType'
BY DEF CallsType, Goto

\* An order that the exchange executes.
LEMMA ExecuteType ==
  ASSUME ExchangeType, StreamType, NEW c \in Calls, Execute(c)
  PROVE  /\ executions' \in [Keys -> Nat] /\ remote' \in Nat
         /\ StreamType'
<1>1. KeyOf[c] \in Keys
  BY CallsAssumption
<1>2. executions' \in [Keys -> Nat] /\ remote' \in Nat
  BY <1>1 DEF Execute, ExchangeType
<1>3. frames' \in Seq(Frame)
  BY <1>2, Appended DEF Execute, StreamType, Frame
<1>4. lost' \in BOOLEAN
  BY DEF Execute, StreamType, Delivers
<1> QED BY <1>2, <1>3, <1>4 DEF Execute, StreamType

LEMMA InitType == Init => TypeOK
<1> SUFFICES ASSUME Init PROVE CallsType /\ ExchangeType /\ StreamType /\ AdapterType
  BY TypeParts
<1>1. CallsType
  BY CallsAssumption DEF Init, CallsType, InLock
<1>2. ExchangeType
  BY DEF Init, ExchangeType
<1>3. StreamType
  BY EmptySeq DEF Init, StreamInit, StreamType, Links
<1>4. AdapterType
  <2>1. local \in 0 .. 1
    BY DEF Init
  <2>2. inSync \in BOOLEAN /\ process = "down" /\ link = "stopped"
    BY DEF Init, StreamInit
  <2>3. handler \in [pc : {"idle", "remote", "local"}, fetched : Nat]
    BY DEF Init
  <2> QED BY <2>1, <2>2, <2>3 DEF AdapterType
<1> QED BY <1>1, <1>2, <1>3, <1>4

\* The steps of a call keep the types.
LEMMA CallStepType ==
  ASSUME TypeOK, NEW c \in Calls, CallStep(c)
  PROVE  TypeOK'
<1> USE TypeParts DEF exchange, store
<1>0. KeyOf[c] \in Keys /\ UNCHANGED process
  BY CallsAssumption DEF CallStep
<1>1. CASE FetchRemote(c)
  <2>1. fetched' \in [Calls -> Nat]
    BY <1>1 DEF FetchRemote, CallsType, ExchangeType
  <2>2. PICK next \in {"local", "failed"} : Goto(c, next)
    BY <1>1 DEF FetchRemote
  <2>3. CallsType'
    BY <1>1, <2>1, <2>2, GotoType DEF FetchRemote, InLock, Waiting, Ended
  <2> QED BY <1>0, <1>1, <2>3, QuietExchange, QuietStream, QuietAdapter
          DEF FetchRemote, streamVars
<1>2. CASE Compare(c)
  <2>1. PICK next \in {"lock", "refused"} : Goto(c, next)
    BY <1>2 DEF Compare
  <2>2. CallsType'
    BY <1>2, <2>1, GotoType DEF Compare, InLock, Waiting, Ended, CallsType
  <2>3. AdapterType'
    BY <1>0, <1>2 DEF Compare, AdapterType, streamVars
  <2> QED BY <1>2, <2>2, <2>3, QuietExchange, QuietStream DEF Compare
<1>3. CASE AcquireLock(c)
  <2>1. ASSUME NEW d \in Calls PROVE d \in holder'[KeyOf[d]] <=> pc'[d] \in InLock
    BY <1>0, <1>3, CallsAssumption DEF AcquireLock, Goto, CallsType, InLock
  <2>2. CallsType'
    BY <1>0, <1>3, <2>1 DEF AcquireLock, Goto, CallsType, Waiting
  <2> QED BY <1>0, <1>3, <2>2, QuietExchange, QuietStream, QuietAdapter
          DEF AcquireLock, streamVars
<1>4. CASE Query(c)
  <2>1. CallsType'
    <3>1. CASE Goto(c, "post") /\ UNCHANGED holder
      BY <1>4, <3>1, GotoType DEF Query, InLock, Waiting, CallsType
    <3>2. CASE Leave(c, "done") \/ Leave(c, "failed")
      BY <1>4, <3>2, LeaveType DEF Query, Ended
    <3> QED BY <1>4, <3>1, <3>2 DEF Query, Raises
  <2> QED BY <1>0, <1>4, <2>1, QuietExchange, QuietStream, QuietAdapter DEF Query, streamVars
<1>5. CASE PostExecuted(c)
  <2>1. CallsType'
    <3>1. CASE Goto(c, "recheck") /\ UNCHANGED holder
      BY <1>5, <3>1, GotoType DEF PostExecuted, InLock, Waiting, CallsType
    <3>2. CASE Leave(c, "done") \/ Leave(c, "failed")
      BY <1>5, <3>2, LeaveType DEF PostExecuted, Ended
    <3> QED BY <1>5, <3>1, <3>2 DEF PostExecuted, Raises
  <2>2. Execute(c)
    BY <1>5 DEF PostExecuted
  <2>3. ExchangeType' /\ StreamType'
    BY <1>5, <2>2, ExecuteType DEF PostExecuted, ExchangeType
  <2> QED BY <1>0, <1>5, <2>1, <2>2, <2>3, QuietAdapter DEF PostExecuted, Execute
<1>6. CASE PostNotExecuted(c)
  <2>1. CallsType'
    <3>1. CASE Goto(c, "recheck") /\ UNCHANGED holder
      BY <1>6, <3>1, GotoType DEF PostNotExecuted, InLock, Waiting, CallsType
    <3>2. CASE Leave(c, "failed")
      BY <1>6, <3>2, LeaveType DEF PostNotExecuted, Ended
    <3> QED BY <1>6, <3>1, <3>2 DEF PostNotExecuted, Raises
  <2>2. ExchangeType'
    BY <1>6 DEF PostNotExecuted, ExchangeType
  <2> QED BY <1>0, <1>6, <2>1, <2>2, QuietStream, QuietAdapter DEF PostNotExecuted, streamVars
<1>7. CASE Recheck(c)
  <2>1. \E outcome \in Ended : Leave(c, outcome)
    BY <1>7 DEF Recheck, Raises, Ended
  <2>2. CallsType'
    BY <1>7, <2>1, LeaveType DEF Recheck
  <2> QED BY <1>0, <1>7, <2>2, QuietExchange, QuietStream, QuietAdapter
          DEF Recheck, streamVars
<1> QED BY <1>1, <1>2, <1>3, <1>4, <1>5, <1>6, <1>7 DEF CallStep

\* An order whose client has given up on it.
LEMMA ArriveLateType ==
  ASSUME TypeOK, NEW c \in Calls, ArriveLate(c), UNCHANGED process
  PROVE  TypeOK'
<1>1. KeyOf[c] \in Keys /\ Execute(c)
  BY CallsAssumption DEF ArriveLate
<1>2. ExchangeType' /\ StreamType'
  BY <1>1, TypeParts, ExecuteType DEF ArriveLate, ExchangeType
<1>3. CallsType' /\ AdapterType'
  BY <1>1, TypeParts, QuietCalls, QuietAdapter DEF ArriveLate, Execute
<1> QED BY <1>2, <1>3, TypeParts

LEMMA BeginType ==
  ASSUME TypeOK, NEW c \in Calls, Begin(c), UNCHANGED process
  PROVE  TypeOK'
<1>1. PICK next \in {"remote", "lock"} : Goto(c, next)
  BY DEF Begin
<1>2. CallsType'
  BY <1>1, TypeParts, GotoType DEF Begin, CallsType, InLock, Waiting
<1> QED BY <1>2, TypeParts, QuietExchange, QuietStream, QuietAdapter DEF Begin, store, streamVars

\* The stream's task, the exchange's keys and the handler.
LEMMA CloseType ==
  ASSUME StreamType, NEW next \in Links, Close(next), keyLive' \in BOOLEAN,
         missed' \in BOOLEAN, lost' \in BOOLEAN
  PROVE  StreamType'
BY EmptySeq DEF StreamType, Close

LEMMA StreamStepType ==
  ASSUME TypeOK, StreamFails \/ StreamRotates \/ StreamStep, UNCHANGED process
  PROVE  TypeOK'
<1> USE TypeParts
<1>1. ASSUME Pause \/ Rotate, Drops PROVE StreamType' /\ link' # "stopped"
  <2>1. missed' \in BOOLEAN /\ lost' \in BOOLEAN /\ keyLive' \in BOOLEAN
    BY <1>1 DEF Pause, Rotate, Misses, Drops, StreamType
  <2>2. PICK next \in {"sleeping", "connecting"} : Close(next)
    BY <1>1 DEF Pause, Rotate
  <2> QED BY <2>1, <2>2, CloseType DEF Close, Links
<1>2. CASE StreamFails
  BY <1>1, <1>2, QuietCalls, QuietExchange DEF StreamFails, AdapterType
<1>3. CASE StreamRotates
  BY <1>1, <1>3, QuietCalls, QuietExchange DEF StreamRotates, Rotate, AdapterType, Idle
<1>4. CASE StreamStep
  <2>1. ASSUME ReceiveExpired PROVE frames' \in Seq(Frame)
    BY <2>1, Received DEF ReceiveExpired, StreamType
  <2>2. ASSUME KeyExpires PROVE frames' \in Seq(Frame)
    BY <2>2, Appended DEF KeyExpires, StreamType, Frame
  <2>3. ASSUME Renew PROVE frames' \in Seq(Frame)
    BY <2>3, EmptySeq DEF Renew, Close
  <2>4. frames' \in Seq(Frame)
    BY <1>4, <2>1, <2>2, <2>3 DEF StreamStep, Connect, Wake, KeepaliveFails, StreamType
  <2>5. missed' \in BOOLEAN
    BY <1>4 DEF StreamStep, Connect, Wake, KeepaliveFails, Renew, KeyExpires, ReceiveExpired,
       StreamType
  <2>6. keyLive' \in BOOLEAN /\ healthy' \in BOOLEAN
    BY <1>4 DEF StreamStep, Connect, Wake, KeepaliveFails, Renew, Close, KeyExpires,
       ReceiveExpired, StreamType
  <2>7. link' \in Links /\ (link' = "stopped" <=> link = "stopped")
    BY <1>4 DEF StreamStep, Connect, Wake, KeepaliveFails, Renew, Close, KeyExpires,
       ReceiveExpired, StreamType, Links
  <2>8. StreamType' /\ AdapterType'
    BY <1>4, <2>4, <2>5, <2>6, <2>7 DEF StreamStep, store, StreamType, AdapterType
  <2> QED BY <1>4, <2>8, QuietCalls, QuietExchange DEF StreamStep
<1> QED BY <1>2, <1>3, <1>4

LEMMA HandlerType ==
  ASSUME TypeOK, Handler, UNCHANGED process
  PROVE  TypeOK'
<1> USE TypeParts
<1>1. CASE OnAccountUpdate
  <2>1. frames' \in Seq(Frame) /\ Head(frames) \in Nat
    BY <1>1, Received DEF OnAccountUpdate, StreamType, Frame
  <2>2. lost' \in BOOLEAN
    BY <1>1 DEF OnAccountUpdate, StreamType
  <2>3. StreamType'
    BY <1>1, <2>1, <2>2 DEF OnAccountUpdate, StreamType
  <2>4. AdapterType'
    BY <1>1, <2>1 DEF OnAccountUpdate, AdapterType, Store
  <2> QED BY <1>1, <2>3, <2>4, QuietCalls, QuietExchange DEF OnAccountUpdate
<1>2. CASE HandlerFetches
  <2>1. AdapterType'
    BY <1>2 DEF HandlerFetches, AdapterType, ExchangeType, streamVars
  <2> QED BY <1>2, <2>1, QuietCalls, QuietExchange, QuietStream DEF HandlerFetches
<1>3. CASE HandlerFails
  <2>1. missed' \in BOOLEAN /\ lost' \in BOOLEAN /\ keyLive' \in BOOLEAN
    BY <1>3 DEF HandlerFails, Pause, Misses, Drops, StreamType
  <2>2. StreamType'
    BY <1>3, <2>1, CloseType DEF HandlerFails, Pause, Links
  <2>3. AdapterType'
    BY <1>3 DEF HandlerFails, Pause, Close, AdapterType, Idle
  <2> QED BY <1>3, <2>2, <2>3, QuietCalls, QuietExchange DEF HandlerFails
<1>4. CASE HandlerCompares
  <2>1. AdapterType'
    BY <1>4 DEF HandlerCompares, AdapterType, Idle, streamVars
  <2> QED BY <1>4, <2>1, QuietCalls, QuietExchange, QuietStream DEF HandlerCompares
<1> QED BY <1>1, <1>2, <1>3, <1>4 DEF Handler

\* Starting, stopping and dying.
LEMMA ProcessType ==
  ASSUME TypeOK, Boot \/ Started \/ StartFails \/ Down
  PROVE  TypeOK'
<1> USE TypeParts
<1>1. CASE Boot
  <2>1. AdapterType'
    BY <1>1 DEF Boot, AdapterType, Idle, streamVars
  <2> QED BY <1>1, <2>1, QuietCalls, QuietExchange, QuietStream DEF Boot
<1>2. CASE Started
  <2>1. AdapterType' /\ StreamType'
    BY <1>2 DEF Started, Start, AdapterType, StreamType, store, Links
  <2> QED BY <1>2, <2>1, QuietCalls, QuietExchange DEF Started
<1>3. CASE StartFails
  <2>1. AdapterType'
    BY <1>3 DEF StartFails, AdapterType, Idle, streamVars
  <2> QED BY <1>3, <2>1, QuietCalls, QuietExchange, QuietStream DEF StartFails
<1>4. CASE Down
  <2>1. keyLive' \in BOOLEAN /\ missed' \in BOOLEAN /\ lost' \in BOOLEAN
    BY <1>4 DEF Down, Stop, Drops, StreamType
  <2>2. StreamType'
    BY <1>4, <2>1, CloseType DEF Down, Stop, Links
  <2>3. AdapterType'
    BY <1>4 DEF Down, Stop, Close, AdapterType, Idle
  <2>4. ExchangeType'
    BY <1>4 DEF Down, ExchangeType
  <2>5. ASSUME NEW c \in Calls
        PROVE  /\ c \notin holder'[KeyOf[c]] /\ pc'[c] \notin InLock
               /\ pc'[c] \in {"idle"} \cup Waiting \cup Ended
    <3>1. KeyOf[c] \in Keys
      BY CallsAssumption
    <3> QED BY <1>4, <3>1 DEF Down, CallsType, InLock, Waiting, Ended
  <2>6. CallsType'
    BY <1>4, <2>5 DEF Down, CallsType
  <2> QED BY <2>2, <2>3, <2>4, <2>6
<1> QED BY <1>1, <1>2, <1>3, <1>4

\* Every variable of the orders, the positions and the stream keeps its type, and the
\* lock of a key has exactly the calls inside the locked block.
THEOREM DemoTypeCorrect == Spec => []TypeOK
<1>1. TypeOK /\ UNCHANGED vars => TypeOK'
  BY TypeParts, QuietCalls, QuietExchange, QuietStream, QuietAdapter
     DEF vars, store, streamVars
<1>2. TypeOK /\ [Next]_vars => TypeOK'
  BY <1>1, CallStepType, ArriveLateType, BeginType, StreamStepType, HandlerType, ProcessType
     DEF Next
<1> QED BY InitType, <1>2, PTL DEF Spec

-----------------------------------------------------------------------------
(* One order per key.                                                        *)

\* At most one call per key is inside the locked block, so what a call has read at
\* its query still holds when it posts: besides requests that arrive late the
\* exchange has executed nothing for its key.
OrderInv ==
  /\ \A c, d \in Calls :
       KeyOf[c] = KeyOf[d] /\ pc[c] \in InLock /\ pc[d] \in InLock => c = d
  /\ \A k \in Keys : late[k] <= executions[k] /\ executions[k] <= late[k] + 1
  /\ \A c \in Calls :
       /\ pc[c] = "post" => executions[KeyOf[c]] = late[KeyOf[c]]
       /\ pc[c] = "done" => executions[KeyOf[c]] > 0

\* A call that goes on, with the exchange as it is.
LEMMA CallGoesOn ==
  ASSUME TypeOK, OrderInv, NEW c \in Calls, NEW next, pc' = [pc EXCEPT ![c] = next],
         UNCHANGED <<executions, late>>,
         next \in InLock /\ pc[c] \notin InLock => holder[KeyOf[c]] = {},
         next = "post" => pc[c] = "query" /\ executions[KeyOf[c]] = 0,
         next = "done" => executions[KeyOf[c]] > 0
  PROVE  OrderInv'
<1>1. /\ \A d \in Calls : KeyOf[d] \in Keys
      /\ \A d \in Calls : pc'[d] = IF d = c THEN next ELSE pc[d]
      /\ \A k \in Keys : executions[k] \in Nat /\ late[k] \in Nat
  BY CallsAssumption, TypeParts DEF CallsType, ExchangeType
<1>2. ASSUME NEW d \in Calls, NEW e \in Calls, KeyOf[d] = KeyOf[e],
             pc'[d] \in InLock, pc'[e] \in InLock
      PROVE  d = e
  BY <1>1, <1>2, TypeParts DEF OrderInv, CallsType
<1>3. ASSUME NEW d \in Calls
      PROVE  /\ pc'[d] = "post" => executions[KeyOf[d]] = late[KeyOf[d]]
             /\ pc'[d] = "done" => executions[KeyOf[d]] > 0
  BY <1>1 DEF OrderInv
<1> QED BY <1>2, <1>3 DEF OrderInv

\* The exchange executes the order of a call that is posting.
LEMMA CallExecutes ==
  ASSUME TypeOK, OrderInv, NEW c \in Calls, NEW next \in {"done", "recheck", "failed"},
         pc' = [pc EXCEPT ![c] = next], pc[c] = "post", UNCHANGED late,
         executions' = [executions EXCEPT ![KeyOf[c]] = @ + 1]
  PROVE  OrderInv'
<1>1. /\ \A d \in Calls : KeyOf[d] \in Keys
      /\ \A d \in Calls : pc'[d] = IF d = c THEN next ELSE pc[d]
      /\ \A k \in Keys : executions[k] \in Nat /\ late[k] \in Nat
      /\ \A k \in Keys :
           executions'[k] = IF k = KeyOf[c] THEN executions[k] + 1 ELSE executions[k]
  BY CallsAssumption, TypeParts DEF CallsType, ExchangeType
<1>2. ASSUME NEW d \in Calls, NEW e \in Calls, KeyOf[d] = KeyOf[e],
             pc'[d] \in InLock, pc'[e] \in InLock
      PROVE  d = e
  BY <1>1, <1>2 DEF OrderInv, InLock
<1>3. ASSUME NEW k \in Keys PROVE late[k] <= executions'[k] /\ executions'[k] <= late[k] + 1
  BY <1>1 DEF OrderInv
<1>4. ASSUME NEW d \in Calls
      PROVE  /\ pc'[d] = "post" => executions'[KeyOf[d]] = late[KeyOf[d]]
             /\ pc'[d] = "done" => executions'[KeyOf[d]] > 0
  <2>1. ASSUME pc'[d] = "post" PROVE KeyOf[d] # KeyOf[c]
    BY <1>1, <2>1 DEF OrderInv, InLock
  <2> QED BY <1>1, <2>1 DEF OrderInv
<1> QED BY <1>2, <1>3, <1>4 DEF OrderInv

\* A request arrives that no client waits for.
LEMMA LateExecutes ==
  ASSUME TypeOK, OrderInv, NEW c \in Calls, ArriveLate(c)
  PROVE  OrderInv'
<1>1. /\ \A d \in Calls : KeyOf[d] \in Keys
      /\ \A k \in Keys : executions[k] \in Nat /\ late[k] \in Nat
      /\ \A k \in Keys :
           /\ executions'[k] = IF k = KeyOf[c] THEN executions[k] + 1 ELSE executions[k]
           /\ late'[k] = IF k = KeyOf[c] THEN late[k] + 1 ELSE late[k]
  BY CallsAssumption, TypeParts DEF ExchangeType, ArriveLate, Execute
<1>2. UNCHANGED pc
  BY DEF ArriveLate, call
<1> QED BY <1>1, <1>2 DEF OrderInv

LEMMA CallStepOrders ==
  ASSUME TypeOK, OrderInv, NEW c \in Calls, CallStep(c)
  PROVE  OrderInv'
<1>0. KeyOf[c] \in Keys /\ executions[KeyOf[c]] \in Nat
  BY CallsAssumption, TypeParts DEF ExchangeType
<1>1. CASE FetchRemote(c)
  <2>1. PICK next \in {"local", "failed"} : pc' = [pc EXCEPT ![c] = next]
    BY <1>1 DEF FetchRemote, Goto
  <2> QED BY <1>1, <2>1, CallGoesOn DEF FetchRemote, exchange, InLock
<1>2. CASE Compare(c)
  <2>1. PICK next \in {"lock", "refused"} : pc' = [pc EXCEPT ![c] = next]
    BY <1>2 DEF Compare, Goto
  <2> QED BY <1>2, <2>1, CallGoesOn DEF Compare, exchange, InLock
<1>3. CASE AcquireLock(c)
  BY <1>3, CallGoesOn DEF AcquireLock, CanLock, Goto, exchange
<1>4. CASE Query(c)
  <2>1. PICK next \in {"done", "post", "failed"} :
          /\ pc' = [pc EXCEPT ![c] = next]
          /\ next = "post" => executions[KeyOf[c]] = 0
          /\ next = "done" => executions[KeyOf[c]] > 0
    BY <1>4 DEF Query, Raises, Leave, Goto
  <2> QED BY <1>4, <2>1, CallGoesOn DEF Query, exchange, InLock
<1>5. CASE PostExecuted(c)
  <2>1. PICK next \in {"done", "recheck", "failed"} : pc' = [pc EXCEPT ![c] = next]
    BY <1>5 DEF PostExecuted, Raises, Leave, Goto
  <2> QED BY <1>5, <2>1, CallExecutes DEF PostExecuted, Execute
<1>6. CASE PostNotExecuted(c)
  <2>1. PICK next \in {"recheck", "failed"} : pc' = [pc EXCEPT ![c] = next]
    BY <1>6 DEF PostNotExecuted, Raises, Leave, Goto
  <2> QED BY <1>6, <2>1, CallGoesOn DEF PostNotExecuted, InLock
<1>7. CASE Recheck(c)
  <2>1. PICK next \in {"done", "unknown", "failed"} :
          /\ pc' = [pc EXCEPT ![c] = next]
          /\ next = "done" => executions[KeyOf[c]] > 0
    BY <1>7 DEF Recheck, Raises, Leave, Goto
  <2> QED BY <1>7, <2>1, CallGoesOn DEF Recheck, exchange, InLock
<1> QED BY <1>1, <1>2, <1>3, <1>4, <1>5, <1>6, <1>7 DEF CallStep

LEMMA QuietOrders == OrderInv /\ UNCHANGED <<pc, executions, late>> => OrderInv'
BY DEF OrderInv

LEMMA BeginOrders ==
  ASSUME TypeOK, OrderInv, NEW c \in Calls, Begin(c)
  PROVE  OrderInv'
<1>1. PICK next \in {"remote", "lock"} : pc' = [pc EXCEPT ![c] = next]
  BY DEF Begin, Goto
<1> QED BY <1>1, CallGoesOn DEF Begin, exchange, InLock

\* The calls under way fail with the process.
LEMMA DownOrders == ASSUME TypeOK, OrderInv, Down PROVE OrderInv'
<1>1. ASSUME NEW c \in Calls
      PROVE  pc'[c] \notin InLock /\ (pc'[c] = "done" => pc[c] = "done")
  BY DEF Down, InLock, Waiting
<1>2. UNCHANGED <<executions, late>>
  BY DEF Down
<1> QED BY <1>1, <1>2 DEF OrderInv, InLock

\* place_order: for any calls, keys and retries, an order and its repetitions are
\* executed once at most, besides requests that arrive when the client has given them
\* up; and a call that returned an order returned one that exists.
THEOREM OrdersPlacedOnce == Spec => []PlacedOnce
<1>1. Init => OrderInv
  <2> SUFFICES ASSUME Init PROVE OrderInv
    OBVIOUS
  <2>1. /\ \A c \in Calls : pc[c] = "idle"
        /\ \A k \in Keys : executions[k] = 0 /\ late[k] = 0
    BY DEF Init
  <2> QED BY <2>1 DEF OrderInv, InLock
<1>2. TypeOK /\ OrderInv /\ [Next]_vars => OrderInv'
  <2> SUFFICES ASSUME TypeOK, OrderInv, [Next]_vars PROVE OrderInv'
    OBVIOUS
  <2>1. CASE UNCHANGED vars
    BY <2>1, QuietOrders DEF vars, call, exchange
  <2>2. CASE StreamFails \/ StreamRotates \/ StreamStep
    BY <2>2, QuietOrders DEF StreamFails, StreamRotates, StreamStep, call, exchange
  <2>3. CASE Handler
    BY <2>3, QuietOrders DEF Handler, OnAccountUpdate, HandlerFetches, HandlerFails,
       HandlerCompares, call, exchange
  <2>4. CASE Boot \/ Started \/ StartFails
    BY <2>4, QuietOrders DEF Boot, Started, StartFails, call, exchange
  <2> QED BY <2>1, <2>2, <2>3, <2>4, CallStepOrders, BeginOrders, LateExecutes, DownOrders
          DEF Next
<1>3. TypeOK /\ OrderInv => PlacedOnce
  <2> SUFFICES ASSUME TypeOK, OrderInv, NEW k \in Keys
               PROVE  /\ executions[k] - late[k] <= 1
                      /\ (\E c \in Calls : pc[c] = "done" /\ KeyOf[c] = k) => executions[k] > 0
    BY DEF PlacedOnce
  <2>1. executions[k] \in Nat /\ late[k] \in Nat
    BY TypeParts DEF ExchangeType
  <2> QED BY <2>1 DEF OrderInv
<1> QED BY <1>1, <1>2, <1>3, DemoTypeCorrect, PTL DEF Spec

-----------------------------------------------------------------------------
(* The user data stream.                                                     *)

\* A connection whose key has expired knows of it: the notice is among its events,
\* or it was missed.
HearsInv ==
  /\ healthy => link = "open"
  /\ link = "open" => keyLive \/ missed \/ Expired \in Unread
  /\ link \in {"connecting", "sleeping"} => keyLive \/ missed

\* The newest position among the events that are not yet received.
Newest(position) ==
  \E i \in DOMAIN frames :
    /\ frames[i] = position
    /\ \A j \in DOMAIN frames : j > i => frames[j] = Expired
NoPosition == \A i \in DOMAIN frames : frames[i] = Expired

\* The notice of an expired key is the last event of its connection.  A live key's
\* connection ends with the exchange's position, even after a loss, and one that has
\* lost nothing ends with it, or the table has it.
FollowInv ==
  /\ frames # << >> => link = "open"
  /\ \A i \in DOMAIN frames : frames[i] = Expired => i = Len(frames) /\ ~keyLive
  /\ (keyLive \/ ~lost) => NoPosition \/ Newest(remote)
  /\ ~lost /\ NoPosition => local = remote

StreamInv == HearsInv /\ FollowInv

\* A step that neither the stream nor the positions take part in.
LEMMA QuietStreamInv ==
  StreamInv /\ UNCHANGED <<streamVars, lost, local, remote>> => StreamInv'
BY DEF StreamInv, HearsInv, FollowInv, Newest, NoPosition, Unread, streamVars

\* The connection is closed and its unread positions count as lost.
LEMMA CloseFollows ==
  ASSUME FollowInv, frames' = << >>, UNCHANGED <<local, remote>>, Drops
  PROVE  FollowInv'
<1>1. ASSUME ~lost' PROVE ~lost /\ NoPosition
  <2>1. ~lost /\ Unread \ {Expired} = {}
    BY <1>1 DEF Drops
  <2> QED BY <2>1 DEF Unread, NoPosition
<1>2. DOMAIN frames' = {}
  OBVIOUS
<1> QED BY <1>1, <1>2 DEF FollowInv, NoPosition

LEMMA CloseHears ==
  ASSUME HearsInv, link \in Links \ {"stopped"}, NEW next \in {"sleeping", "connecting"},
         Close(next), Misses, UNCHANGED keyLive
  PROVE  HearsInv'
<1>1. healthy' = FALSE /\ link' = next
  BY DEF Close
<1>2. keyLive \/ missed'
  BY DEF HearsInv, Misses, Links
<1> QED BY <1>1, <1>2 DEF HearsInv

LEMMA FailingStream ==
  ASSUME TypeOK, StreamInv, StreamFails \/ StreamRotates \/ HandlerFails
  PROVE  StreamInv'
<1>1. link \in Links \ {"stopped"}
  BY TypeParts DEF StreamType, AdapterType, StreamFails, StreamRotates, Rotate, HandlerFails
<1>2. Pause \/ Rotate
  BY DEF StreamFails, StreamRotates, HandlerFails
<1>3. UNCHANGED <<local, remote>> /\ Drops
  BY DEF StreamFails, StreamRotates, HandlerFails, exchange
<1>4. frames' = << >>
  BY <1>2 DEF Pause, Rotate, Close
<1>5. HearsInv'
  BY <1>1, <1>2, CloseHears DEF StreamInv, Pause, Rotate
<1> QED BY <1>3, <1>4, <1>5, CloseFollows DEF StreamInv

LEMMA DownStream == ASSUME StreamInv, Down PROVE StreamInv'
<1>1. HearsInv'
  BY DEF Down, Stop, Close, HearsInv
<1>2. FollowInv'
  BY CloseFollows DEF StreamInv, Down, Stop, Close
<1> QED BY <1>1, <1>2 DEF StreamInv

\* A new task starts with a new key and no events.
LEMMA StartStream == ASSUME TypeOK, StreamInv, Started PROVE StreamInv'
<1>1. frames = << >> /\ frames' = << >> /\ DOMAIN frames = {} /\ UNCHANGED <<lost, local, remote>>
  BY DEF Started, Start, StreamInv, FollowInv, store, exchange
<1>2. HearsInv'
  BY DEF Started, Start, StreamInv, HearsInv
<1>3. FollowInv'
  BY <1>1 DEF StreamInv, FollowInv, NoPosition
<1> QED BY <1>2, <1>3 DEF StreamInv

LEMMA ExecuteStream ==
  ASSUME TypeOK, StreamInv, NEW c \in Calls, Execute(c), UNCHANGED local
  PROVE  StreamInv'
<1>1. frames \in Seq(Frame) /\ remote' \in Nat /\ remote' \in Frame
  BY TypeParts, ExecuteType DEF StreamType, Frame
<1>2. CASE Delivers
  <2>1. frames' = Append(frames, remote') /\ link = "open" /\ keyLive
    BY <1>2 DEF Execute, Delivers
  <2>2. /\ DOMAIN frames' = 1 .. Len(frames) + 1 /\ frames'[Len(frames) + 1] = remote'
        /\ Len(frames) \in Nat /\ DOMAIN frames = 1 .. Len(frames)
        /\ \A i \in 1 .. Len(frames) : frames'[i] = frames[i]
    BY <1>1, <2>1, Appended
  <2>3. \A i \in DOMAIN frames' : frames'[i] # Expired
    BY <1>1, <2>1, <2>2 DEF StreamInv, FollowInv, Expired
  <2>4. Newest(remote)' /\ ~NoPosition'
    BY <2>2, <2>3 DEF Newest, NoPosition
  <2> QED BY <2>1, <2>3, <2>4 DEF Execute, StreamInv, HearsInv, FollowInv
<1>3. CASE ~Delivers
  <2>1. lost' /\ UNCHANGED <<streamVars, local>>
    BY <1>3 DEF Execute, streamVars
  <2>2. keyLive => NoPosition'
    BY <1>3, <2>1 DEF Delivers, StreamInv, FollowInv, NoPosition, streamVars
  <2>3. FollowInv'
    BY <2>1, <2>2 DEF StreamInv, FollowInv, streamVars
  <2>4. HearsInv'
    BY <2>1 DEF StreamInv, HearsInv, Unread, streamVars
  <2> QED BY <2>3, <2>4 DEF StreamInv
<1> QED BY <1>2, <1>3

LEMMA StreamStepKeeps ==
  ASSUME TypeOK, StreamInv, StreamStep
  PROVE  StreamInv'
<1>0. UNCHANGED <<lost, local, remote>> /\ frames \in Seq(Frame)
  BY TypeParts DEF StreamStep, store, exchange, StreamType
<1>1. CASE Connect \/ Wake \/ KeepaliveFails
  <2>1. HearsInv'
    BY <1>1 DEF Connect, Wake, KeepaliveFails, StreamInv, HearsInv, Unread
  <2>2. UNCHANGED <<frames, keyLive>> /\ (link = "open" => link' = "open")
    BY <1>1 DEF Connect, Wake, KeepaliveFails
  <2>3. FollowInv'
    BY <1>0, <2>2 DEF StreamInv, FollowInv, NoPosition, Newest
  <2> QED BY <2>1, <2>3 DEF StreamInv
<1>2. CASE Renew
  <2>1. frames = << >> /\ frames' = << >> /\ DOMAIN frames = {}
    BY <1>2 DEF Renew, Close, StreamInv, FollowInv
  <2>2. HearsInv'
    BY <1>2 DEF Renew, Close, HearsInv
  <2>3. FollowInv'
    BY <1>0, <2>1 DEF StreamInv, FollowInv, NoPosition
  <2> QED BY <2>2, <2>3 DEF StreamInv
<1>3. CASE KeyExpires
  <2>1. CASE link # "open"
    <3>1. frames = << >> /\ UNCHANGED <<frames, link>> /\ DOMAIN frames = {}
      BY <1>3, <2>1 DEF KeyExpires, StreamInv, FollowInv
    <3>2. HearsInv'
      BY <1>3, <2>1 DEF KeyExpires, StreamInv, HearsInv
    <3>3. FollowInv'
      BY <1>0, <3>1 DEF StreamInv, FollowInv, NoPosition
    <3> QED BY <3>2, <3>3 DEF StreamInv
  <2>2. CASE link = "open"
    <3>1. frames' = Append(frames, Expired) /\ keyLive /\ ~keyLive' /\ UNCHANGED <<link, healthy>>
      BY <1>3, <2>2 DEF KeyExpires
    <3>2. /\ DOMAIN frames' = 1 .. Len(frames) + 1 /\ frames'[Len(frames) + 1] = Expired
          /\ Len(frames) \in Nat /\ DOMAIN frames = 1 .. Len(frames)
          /\ \A i \in 1 .. Len(frames) : frames'[i] = frames[i]
          /\ Len(frames') = Len(frames) + 1
      BY <1>0, <3>1, Appended, AppendProperties DEF Frame
    <3>3. Expired \in Unread'
      BY <3>2 DEF Unread
    <3>4. HearsInv'
      BY <2>2, <3>1, <3>3 DEF StreamInv, HearsInv
    <3>5. NoPosition' <=> NoPosition
      BY <3>2 DEF NoPosition
    <3>6. Newest(remote) => Newest(remote)'
      BY <1>0, <3>2 DEF Newest
    <3>7. \A i \in DOMAIN frames' : frames'[i] = Expired => i = Len(frames')
      BY <3>1, <3>2 DEF StreamInv, FollowInv
    <3>8. FollowInv'
      BY <1>0, <2>2, <3>1, <3>5, <3>6, <3>7 DEF StreamInv, FollowInv
    <3> QED BY <3>4, <3>8 DEF StreamInv
  <2> QED BY <2>1, <2>2
<1>4. CASE ReceiveExpired
  <2>1. /\ Head(frames) = frames[1] /\ frames[1] = Expired /\ DOMAIN frames = 1 .. Len(frames)
        /\ Len(frames) \in Nat \ {0} /\ frames' = Tail(frames)
        /\ frames' \in Seq(Frame) /\ DOMAIN frames' = 1 .. Len(frames) - 1
    BY <1>0, <1>4, Received DEF ReceiveExpired
  <2>2. Len(frames) = 1
    BY <2>1 DEF StreamInv, FollowInv
  <2>3. frames' = << >> /\ DOMAIN frames' = {} /\ NoPosition
    <3>1. Len(frames') = 0
      BY <2>1, <2>2, LenProperties
    <3> QED BY <2>1, <2>2, <3>1, EmptySeq DEF NoPosition
  <2>4. HearsInv'
    BY <1>4 DEF ReceiveExpired, HearsInv
  <2>5. FollowInv'
    BY <1>0, <2>3 DEF StreamInv, FollowInv, NoPosition
  <2> QED BY <2>4, <2>5 DEF StreamInv
<1> QED BY <1>1, <1>2, <1>3, <1>4 DEF StreamStep

\* on_user_event stores the position, which leaves the newest one where it was.
LEMMA AccountUpdateStream ==
  ASSUME TypeOK, StreamInv, OnAccountUpdate
  PROVE  StreamInv'
<1>1. /\ frames' = Tail(frames) /\ local' = frames[1] /\ frames[1] # Expired
      /\ lost' = (lost /\ ~keyLive) /\ UNCHANGED <<keyLive, link, healthy, missed, remote>>
      /\ link = "open"
      /\ DOMAIN frames = 1 .. Len(frames) /\ Len(frames) \in Nat \ {0}
      /\ DOMAIN frames' = 1 .. Len(frames) - 1 /\ Len(frames') = Len(frames) - 1
      /\ \A i \in 1 .. Len(frames) - 1 : frames'[i] = frames[i + 1]
  BY TypeParts, Received, HeadTailProperties DEF OnAccountUpdate, Store, StreamType, exchange
<1>2. HearsInv'
  <2>1. Expired \in Unread => Expired \in Unread'
    <3> SUFFICES ASSUME NEW i \in 1 .. Len(frames), frames[i] = Expired
                 PROVE  \E j \in DOMAIN frames' : frames'[j] = Expired
      BY <1>1 DEF Unread
    <3>1. i - 1 \in DOMAIN frames' /\ frames'[i - 1] = frames[i]
      BY <1>1
    <3> QED BY <3>1
  <2> QED BY <1>1, <2>1 DEF StreamInv, HearsInv
<1>3. (keyLive \/ ~lost) => Newest(remote)
  BY <1>1 DEF StreamInv, FollowInv, NoPosition
<1>4. ~NoPosition' /\ Newest(remote) => Newest(remote)'
  <2> SUFFICES ASSUME NEW i \in DOMAIN frames, frames[i] = remote,
                      \A j \in DOMAIN frames : j > i => frames[j] = Expired,
                      NEW k \in DOMAIN frames', frames'[k] # Expired
               PROVE  Newest(remote)'
    BY <1>1 DEF Newest, NoPosition
  <2>1. i > 1
    BY <1>1
  <2>2. i - 1 \in DOMAIN frames' /\ frames'[i - 1] = remote
    BY <1>1, <2>1
  <2>3. \A j \in DOMAIN frames' : j > i - 1 => frames'[j] = Expired
    BY <1>1
  <2> QED BY <1>1, <2>2, <2>3 DEF Newest
<1>5. NoPosition' /\ Newest(remote) => local' = remote
  <2> SUFFICES ASSUME NEW i \in DOMAIN frames, frames[i] = remote, NoPosition'
               PROVE  frames[1] = remote
    BY <1>1 DEF Newest
  <2>1. i > 1 => frames[i] = Expired
    <3>1. i > 1 => i - 1 \in DOMAIN frames' /\ frames'[i - 1] = frames[i]
      BY <1>1
    <3> QED BY <3>1 DEF NoPosition
  <2>2. remote # Expired
    BY TypeParts DEF ExchangeType, Expired
  <2> QED BY <1>1, <2>1, <2>2
<1>6. \A i \in DOMAIN frames' : frames'[i] = Expired => i = Len(frames') /\ ~keyLive
  BY <1>1 DEF StreamInv, FollowInv
<1>7. FollowInv'
  BY <1>1, <1>3, <1>4, <1>5, <1>6 DEF FollowInv
<1> QED BY <1>2, <1>7 DEF StreamInv

LEMMA StreamInvariant == Spec => []StreamInv
<1>1. Init => StreamInv
  <2> SUFFICES ASSUME Init PROVE StreamInv
    OBVIOUS
  <2>1. frames = << >> /\ DOMAIN frames = {} /\ keyLive = FALSE /\ healthy = FALSE
        /\ link = "stopped"
    BY DEF Init, StreamInit
  <2>2. ~lost => local = remote
    BY DEF Init
  <2> QED BY <2>1, <2>2 DEF StreamInv, HearsInv, FollowInv, NoPosition
<1>2. TypeOK /\ StreamInv /\ [Next]_vars => StreamInv'
  <2> SUFFICES ASSUME TypeOK, StreamInv, [Next]_vars PROVE StreamInv'
    OBVIOUS
  <2>1. CASE UNCHANGED vars
    BY <2>1, QuietStreamInv DEF vars, exchange, store
  <2>2. ASSUME NEW c \in Calls, CallStep(c) PROVE StreamInv'
    <3>1. CASE PostExecuted(c)
      BY <3>1, ExecuteStream DEF PostExecuted
    <3>2. CASE ~PostExecuted(c)
      BY <2>2, <3>2, QuietStreamInv
         DEF CallStep, FetchRemote, Compare, AcquireLock, Query, PostNotExecuted, Recheck,
             exchange, store
    <3> QED BY <3>1, <3>2
  <2>3. ASSUME NEW c \in Calls, Begin(c) \/ ArriveLate(c) PROVE StreamInv'
    BY <2>3, ExecuteStream, QuietStreamInv DEF Begin, ArriveLate, exchange, store
  <2>4. CASE HandlerFetches \/ HandlerCompares
    BY <2>4, QuietStreamInv DEF HandlerFetches, HandlerCompares, exchange
  <2>5. CASE Boot \/ StartFails
    BY <2>5, QuietStreamInv DEF Boot, StartFails, exchange
  <2> QED BY <2>1, <2>2, <2>3, <2>4, <2>5, FailingStream, StreamStepKeeps, AccountUpdateStream,
          StartStream, DownStream DEF Next, Handler
<1> QED BY <1>1, <1>2, DemoTypeCorrect, PTL DEF Spec

\* on_user_event, save_demo_position: when every event that came has been handled, the
\* stored position is the exchange's, unless an event was lost that none has followed;
\* for any orders, restarts, rotations and expired keys.
THEOREM StoredPositionFollows == Spec => []LocalFollowsRemote
<1>1. StreamInv => LocalFollowsRemote
  BY DEF StreamInv, FollowInv, LocalFollowsRemote, NoPosition
<1> QED BY <1>1, StreamInvariant, PTL

\* DemoUserDataStream.healthy: a stream reported healthy has an open connection, and if
\* the exchange no longer sends on it, a notice was missed, is under way, or its renewal
\* failed.
THEOREM StreamHealthIsTrue == Spec => []HealthyStreamHears
<1>1. StreamInv => HealthyStreamHears
  BY DEF StreamInv, HearsInv, HealthyStreamHears
<1> QED BY <1>1, StreamInvariant, PTL
=============================================================================
