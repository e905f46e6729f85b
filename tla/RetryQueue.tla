----------------------------- MODULE RetryQueue -----------------------------
(***************************************************************************)
(* What a RabbitMQ queue with a delayed retry queue and a dead-letter      *)
(* queue promises to whoever publishes on it, whatever the consumer does   *)
(* with a message.  Both the scrape job queues and the webhook queue are   *)
(* meant to be implementations.                                            *)
(*                                                                         *)
(* A delivery ends in an acknowledgement and in nothing else, and it is    *)
(* acknowledged only when it is resolved: the consumer succeeded, or the   *)
(* next attempt is in the retry queue, or the attempts are used up and the *)
(* message is in the dead-letter queue.  A delivery that is not            *)
(* acknowledged comes back with the attempt number it had.                 *)
(***************************************************************************)
EXTENDS Naturals

CONSTANTS
  Ids,          \* what messages are about
  Copies,       \* message copies the broker can hold at one time
  MaxAttempts,  \* deliveries a message gets before it is dead-lettered
  NoMessage     \* the body of an unused copy

VARIABLES
  published,    \* ids published so far
  queue,        \* where each copy is
  body,         \* the message each copy carries
  resolved      \* unacknowledged copies that may be acknowledged

vars == <<published, queue, body, resolved>>

Message == [job : Ids, attempt : 1..MaxAttempts]

Init ==
  /\ published = {}
  /\ queue = [c \in Copies |-> "free"]
  /\ body = [c \in Copies |-> NoMessage]
  /\ resolved = {}

Move(c, from, to) == queue[c] = from /\ queue' = [queue EXCEPT ![c] = to]

Send(c, where, m) == Move(c, "free", where) /\ body' = [body EXCEPT ![c] = m]

Publish(c, i) ==
  /\ i \notin published
  /\ published' = published \cup {i}
  /\ Send(c, "ready", [job |-> i, attempt |-> 1])
  /\ UNCHANGED resolved

Take(c) == Move(c, "ready", "unacked") /\ UNCHANGED <<published, body, resolved>>

Resolve(c) ==
  /\ queue[c] = "unacked" /\ c \notin resolved
  /\ resolved' = resolved \cup {c}
  /\ UNCHANGED published

Succeed(c) == Resolve(c) /\ UNCHANGED <<queue, body>>

Retry(c, d) ==
  /\ Resolve(c)
  /\ body[c].attempt < MaxAttempts
  /\ Send(d, "delayed", [body[c] EXCEPT !.attempt = @ + 1])

DeadLetter(c, d) ==
  /\ Resolve(c)
  /\ body[c].attempt = MaxAttempts
  /\ Send(d, "dead", body[c])

Ack(c) ==
  /\ c \in resolved
  /\ Move(c, "unacked", "free")
  /\ body' = [body EXCEPT ![c] = NoMessage]
  /\ resolved' = resolved \ {c}
  /\ UNCHANGED published

Expire(c) == Move(c, "delayed", "ready") /\ UNCHANGED <<published, body, resolved>>

\* The consumer's channel is gone: all its deliveries come back at once.
Redeliver(lost) ==
  /\ \A c \in lost : queue[c] = "unacked"
  /\ queue' = [c \in Copies |-> IF c \in lost THEN "ready" ELSE queue[c]]
  /\ resolved' = resolved \ lost
  /\ UNCHANGED <<published, body>>

Next ==
  \/ \E c \in Copies, i \in Ids : Publish(c, i)
  \/ \E c \in Copies : Take(c) \/ Succeed(c) \/ Ack(c) \/ Expire(c)
  \/ \E c, d \in Copies : Retry(c, d) \/ DeadLetter(c, d)
  \/ \E lost \in SUBSET Copies : Redeliver(lost)

Spec == Init /\ [][Next]_vars
=============================================================================
