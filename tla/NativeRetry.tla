------------------------------ MODULE NativeRetry ------------------------------
(***************************************************************************)
(* One Native Responses or compact request: native_response_started of      *)
(* src/src/server.rs and NativeClient::post_with_started of                 *)
(* src/src/native.rs.  Sending and waiting for the first bytes of the body  *)
(* share one count of attempts and one deadline; after the first bytes the  *)
(* response is streamed and never sent again.                               *)
(*                                                                          *)
(* Time is counted in seconds from the first attempt.  A timer fires at its *)
(* time or up to Lag later; an upstream may answer, fail or stay silent.    *)
(***************************************************************************)
EXTENDS Naturals, Sequences

CONSTANTS
  Backoff,      \* NATIVE_RETRY_BACKOFF; as long as NATIVE_SEND_RETRY_LIMIT
  Deadline,     \* NATIVE_RETRY_WALL_CLOCK
  RetryAfters,  \* Retry-After values an upstream may send
  Lag           \* bound: how late a timer may fire

ASSUME NativeRetryAssumption ==
  /\ Backoff \in Seq(Nat) /\ Deadline \in Nat
  /\ RetryAfters \subseteq Nat /\ Lag \in Nat

Limit == Len(Backoff)

VARIABLES
  pc,        \* where the request is
  attempts,  \* the shared count of attempts
  sends,     \* requests that reached the upstream
  now,       \* time since the request started
  wake,      \* when a backoff ends
  answer     \* what the client is answered

vars == <<pc, attempts, sends, now, wake, answer>>

Waiting == {"start", "send", "sleep", "body"}

Init ==
  /\ pc = "start" /\ attempts = 0 /\ sends = 0
  /\ now = 0 /\ wake = 0
  /\ answer = "none"

Finish(result) ==
  /\ pc' = "done" /\ answer' = result
  /\ UNCHANGED <<attempts, sends, now, wake>>

\* Faulty variant: the backoff may end when it likes.
BacksOffAnyway(delay) == delay <= Deadline

\* Retry after the backoff, unless the wait would end after the deadline.
BacksOff(delay) == now + delay <= Deadline

Sleep(delay) ==
  /\ pc' = "sleep" /\ wake' = now + delay
  /\ UNCHANGED <<attempts, sends, now, answer>>

\* The head of the loop of post_with_started.
Start ==
  /\ pc = "start"
  /\ attempts' = attempts + 1
  /\ IF now <= Deadline
     THEN pc' = "send" /\ sends' = sends + 1 /\ UNCHANGED answer
     ELSE pc' = "done" /\ answer' = "unavailable" /\ UNCHANGED sends
  /\ UNCHANGED <<now, wake>>

\* Backoff[attempt + 1] in the code's counting, where attempt = attempts - 1.
Retries == attempts <= Limit

\* HTTP 429, 502, 503 or 504, with or without Retry-After; the response itself
\* is returned when there is no retry left.
TransientStatus ==
  /\ pc = "send"
  /\ \E delay \in RetryAfters \cup {IF Retries THEN Backoff[attempts] ELSE 0} :
       IF Retries /\ BacksOff(delay) THEN Sleep(delay) ELSE Finish("status")

OtherStatus == pc = "send" /\ Finish("status")

\* A connection that cannot be made or is closed before the response headers.
SendFails ==
  /\ pc = "send"
  /\ IF Retries /\ BacksOff(Backoff[attempts]) THEN Sleep(Backoff[attempts]) ELSE Finish("unavailable")

\* Any other send error is final.
SendFailsForGood == pc = "send" /\ Finish("unavailable")

\* A successful status: the first bytes have what remains of the deadline.
HeadersArrive ==
  /\ pc = "send"
  /\ IF now <= Deadline
     THEN pc' = "body" /\ UNCHANGED <<attempts, sends, now, wake, answer>>
     ELSE Finish("timeout")

\* Faulty variant: every body starts with a fresh count.
BodyFailsAfresh ==
  /\ pc = "body"
  /\ IF BacksOff(Backoff[1])
     THEN pc' = "sleep" /\ wake' = now + Backoff[1] /\ attempts' = 0
          /\ UNCHANGED <<sends, now, answer>>
     ELSE Finish("bad_gateway")

BodyFails ==
  /\ pc = "body"
  /\ IF Retries /\ BacksOff(Backoff[attempts]) THEN Sleep(Backoff[attempts]) ELSE Finish("bad_gateway")

\* The first chunk, or a clean end: from here on the body is only forwarded.
BodyStarts ==
  /\ pc = "body"
  /\ pc' = "stream" /\ answer' = "streaming"
  /\ UNCHANGED <<attempts, sends, now, wake>>

\* Faulty variant: only the body is awaited under a timeout.
SendNeverTimesOut == pc = "send" /\ now >= Deadline /\ FALSE /\ Finish("unavailable")

\* The two timeouts, both set to what remains of the deadline.
SendTimesOut == pc = "send" /\ now >= Deadline /\ Finish("unavailable")

BodyTimesOut == pc = "body" /\ now >= Deadline /\ Finish("timeout")

Wake ==
  /\ pc = "sleep" /\ now >= wake
  /\ pc' = "start"
  /\ UNCHANGED <<attempts, sends, now, wake, answer>>

\* The upstream ends the stream or breaks it off; the client sees it as it is.
StreamEnds == pc = "stream" /\ Finish("streaming")

\* A second passes, while no timer is overdue.
Tick ==
  /\ pc \in {"send", "body"} => now < Deadline + Lag
  /\ pc = "sleep" => now < wake + Lag
  /\ pc \notin {"start", "stream", "done"}
  /\ now' = now + 1
  /\ UNCHANGED <<pc, attempts, sends, wake, answer>>

Upstream ==
  \/ TransientStatus \/ OtherStatus \/ SendFails \/ SendFailsForGood
  \/ HeadersArrive \/ BodyFails \/ BodyStarts \/ StreamEnds

Service == Start \/ Wake \/ SendTimesOut \/ BodyTimesOut

Next == Service \/ Upstream \/ Tick

Spec == Init /\ [][Next]_vars

\* The runtime runs the request and its timers; nothing is assumed about the
\* upstream.
FairSpec == Spec /\ WF_vars(Service) /\ WF_vars(Tick)

------------------------------------------------------------------------------
(* Properties. *)

\* Every variable stays in its type.
TypeOK ==
  /\ pc \in {"start", "send", "sleep", "body", "stream", "done"}
  /\ attempts \in 0 .. Limit + 1
  /\ sends \in Nat /\ now \in Nat /\ wake \in Nat
  /\ answer \in {"none", "unavailable", "status", "bad_gateway", "timeout", "streaming"}

\* Send failures, transient statuses and broken first bodies share one budget:
\* the upstream sees the request once and at most Limit more times.
SendsBounded == sends <= Limit + 1

\* No request is sent once the common deadline has passed.
NoSendAfterDeadline == [][sends' # sends => now <= Deadline]_vars

\* Until it has an answer or a stream the client waits no longer than the
\* deadline, retries, Retry-After and the wait for the first bytes included.
AnswerInTime == pc \in Waiting => now <= Deadline + Lag

\* The client of an upstream that stays silent is answered all the same.
Answered == <>(answer # "none")

=============================================================================
