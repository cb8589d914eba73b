---------------------------- MODULE UserDataStream ----------------------------
(***************************************************************************)
(* DemoUserDataStream (demo_trading/user_stream.py): the connection whose    *)
(* address holds a listenKey, its reconnection, the daily rotation, the      *)
(* renewal of an expired key and the keepalive task.  What the handler does  *)
(* with an event is in DemoTrading, which composes both.                     *)
(*                                                                           *)
(* The exchange is external: a key may expire at any time (a keepalive may   *)
(* come too late), it announces that on the open connection, and a           *)
(* connection with an expired key is accepted and stays silent.              *)
(*                                                                           *)
(* Abstraction.  A key is live or expired; lengths of pauses and the text of *)
(* the last error are left out; closing a connection is part of the step     *)
(* that decides it.                                                          *)
(***************************************************************************)
EXTENDS Integers, Sequences

Expired == -1     \* a listenKeyExpired event; the other events are positions

VARIABLES
  keyLive,     \* whether the exchange still knows _listen_key
  link,        \* where _run stands; "stopped" while there is no such task
  healthy,
  frames,      \* events on the open connection that are not yet received
  missed       \* whether an expiry was not announced, or its renewal did not
               \* succeed, since the last renewal; for the properties

streamVars == <<keyLive, link, healthy, frames, missed>>

Links == {"stopped", "connecting", "open", "renewing", "sleeping"}

StreamInit ==
  /\ keyLive = FALSE /\ link = "stopped" /\ healthy = FALSE
  /\ frames = << >> /\ missed = FALSE

\* start(): a new key, and the receiving task that connects first.
Start ==
  /\ link = "stopped" /\ link' = "connecting"
  /\ keyLive' = TRUE /\ missed' = FALSE
  /\ UNCHANGED <<healthy, frames>>

\* What the connection still had is lost when it is closed.
Close(next) == link' = next /\ healthy' = FALSE /\ frames' = << >>
Unread == {frames[i] : i \in DOMAIN frames}
Misses == missed' = (missed \/ link = "renewing" \/ Expired \in Unread)

\* stop(), which also has the key deleted; a process that dies leaves it to expire.
Stop == Close("stopped") /\ keyLive' \in {keyLive, FALSE} /\ UNCHANGED missed

\* The clause for exceptions: a failed opening, a lost connection, a handler or a
\* renewal that raises.  After the pause the same key is used again.
Pause == Close("sleeping") /\ Misses /\ UNCHANGED keyLive

\* The clause for TimeoutError: the rotation, which also cancels a handler or a
\* renewal under way, and an opening handshake that took too long.  No pause.
Rotate == link \notin {"sleeping", "stopped"} /\ Close("connecting") /\ Misses /\ UNCHANGED keyLive

Connect ==
  /\ link = "connecting"
  /\ link' = "open" /\ healthy' = TRUE
  /\ UNCHANGED <<keyLive, frames, missed>>

Wake ==
  /\ link = "sleeping" /\ link' = "connecting"
  /\ UNCHANGED <<keyLive, healthy, frames, missed>>

\* _receive, for a listenKeyExpired event.
ReceiveExpired ==
  /\ link = "open" /\ frames # << >> /\ Head(frames) = Expired
  /\ link' = "renewing" /\ healthy' = FALSE /\ frames' = Tail(frames)
  /\ UNCHANGED <<keyLive, missed>>

\* Mutant: the answer is not stored.
RenewUnstored ==
  /\ link = "renewing" /\ Close("connecting")
  /\ missed' = FALSE /\ UNCHANGED keyLive
\* start_user_stream answers, and _receive returns.
Renew ==
  /\ link = "renewing" /\ Close("connecting")
  /\ keyLive' = TRUE /\ missed' = FALSE

\* _keepalive: a request that fails, whatever the connection does.
KeepaliveFails ==
  /\ healthy /\ healthy' = FALSE
  /\ UNCHANGED <<keyLive, link, frames, missed>>

\* The exchange.
Delivers == link = "open" /\ keyLive
KeyExpires ==
  /\ keyLive /\ keyLive' = FALSE
  /\ frames' = IF link = "open" THEN Append(frames, Expired) ELSE frames
  /\ missed' = (missed \/ link # "open")
  /\ UNCHANGED <<link, healthy>>
=============================================================================
