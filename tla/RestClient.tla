------------------------------- MODULE RestClient -------------------------------
(***************************************************************************)
(* BinancePublicRESTClient._get_json (binance/client.py): a GET is sent up to *)
(* max_retries times more while the exchange answers with a rate limit (418   *)
(* or 429), with a pause before each; any other error ends it at once.  The   *)
(* exchange and the network are external.                                     *)
(***************************************************************************)
EXTENDS Naturals

CONSTANTS
  Callers,       \* the coroutines that request something, each one thing at a time
  MaxRetries     \* http_max_retries

VARIABLE requests    \* caller -> its call of _get_json

\* A call: where it stands, the retries it has made, and the instant of the exchange
\* that an answer on its way back tells of.
Call(pc, attempt, answer) == [pc |-> pc, attempt |-> attempt, answer |-> answer]
NoCall == Call("none", 0, 0)

Pending(c) == requests[c].pc # "none"
NonePending == \A c \in Callers : ~Pending(c)

RequestInit == requests = [c \in Callers |-> NoCall]

Calls(c, call) == requests' = [requests EXCEPT ![c] = call]

\* These callers start together, as the coroutines of a gather.
Send(callers) ==
  requests' = [c \in Callers |-> IF c \in callers THEN Call("asked", 0, 0) ELSE requests[c]]

\* The exchange computes its answer.
Serve(c, instant) ==
  requests[c].pc = "asked" /\ Calls(c, Call("answered", 0, instant))

\* The answer arrives; its caller goes on with it.
Return(c) == requests[c].pc = "answered" /\ Calls(c, NoCall)

\* A rate limit, while attempts are left.
RateLimit(c) ==
  /\ requests[c].pc = "asked" /\ requests[c].attempt < MaxRetries
  /\ Calls(c, Call("sleeping", requests[c].attempt, 0))

\* Mutant: the attempt that failed is not counted.
RetryUncounted(c) ==
  requests[c].pc = "sleeping" /\ Calls(c, Call("asked", requests[c].attempt, 0))

\* The pause of _retry_delay is over.
Retry(c) ==
  requests[c].pc = "sleeping" /\ Calls(c, Call("asked", requests[c].attempt + 1, 0))

\* The call raises: the last rate limit, another status, no connection, a timeout, or
\* an answer that the caller cannot read.
Fail(c) == requests[c].pc \in {"asked", "answered"} /\ Calls(c, NoCall)
=============================================================================
