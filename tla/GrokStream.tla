------------------------------ MODULE GrokStream ------------------------------
(***************************************************************************)
(* One Grok Responses request: the attempt loop of                          *)
(* route_authorized_responses (src/src/server.rs), the validated event      *)
(* stream it reads (src/src/grok.rs) and the validator behind it            *)
(* (src/src/protocol.rs).  Events are held back until one of them commits   *)
(* the response to the client; until then a failed attempt may be repeated. *)
(*                                                                          *)
(* An event is its kind and the attempt it came from.                       *)
(***************************************************************************)
EXTENDS Naturals, Sequences, SequencesExt

CONSTANTS
  Limit,      \* EARLY_STREAM_RETRY_LIMIT
  MaxEvents   \* bound: events an upstream sends on one connection

ASSUME GrokStreamAssumption == Limit \in Nat /\ MaxEvents \in Nat

VARIABLES
  pc,        \* where the request is
  sends,     \* requests posted to the upstream
  retries,   \* early_retries
  late,      \* has the wall clock for retries run out?
  validator, \* TextStreamValidator.state of the current attempt
  prelude,   \* events held back
  out,       \* events given to the client
  received,  \* valid events of the current attempt
  answer,    \* none, an error response, or how a 200 stream ended
  cause      \* what failed last

vars == <<pc, sends, retries, late, validator, prelude, out, received, answer, cause>>

\* The kinds of event a connection may carry: response.created and its like,
\* deltas and finished items, the three terminal events, known events that
\* commit nothing and unknown ones.
Terminal == {"completed", "failed", "incomplete"}
Valid == {"created", "content", "auxiliary"} \cup Terminal

\* event_commits_downstream
Commits(kind) == kind \in {"content", "synthetic"} \cup Terminal

Init ==
  /\ pc = "send"
  /\ sends = 1 /\ retries = 0 /\ late = FALSE
  /\ validator = "awaiting_created"
  /\ prelude = <<>> /\ out = <<>> /\ received = <<>>
  /\ answer = "none" /\ cause = "none"

------------------------------------------------------------------------------
(* Failures before the response is committed. *)

Retryable(inTime) == retries < Limit /\ inTime

\* upstream_error or route_error: a JSON error instead of a stream.
Refuse(why) ==
  /\ pc' = "done" /\ answer' = "error" /\ cause' = why
  /\ UNCHANGED <<sends, retries, late, validator, prelude, out, received>>

Retry(why) ==
  /\ pc' = "sleep" /\ retries' = retries + 1 /\ cause' = why
  /\ UNCHANGED <<sends, late, validator, prelude, out, received, answer>>

\* Transport errors and HTTP 502, 503 or 504.
SendFails ==
  /\ pc = "send"
  /\ \E why \in {"transport", "status"} :
       IF Retryable(~late) THEN Retry(why) ELSE Refuse(why)

\* HTTP 429, whose Retry-After may be more than the clock has left.
RateLimited ==
  /\ pc = "send"
  /\ \E fits \in BOOLEAN :
       IF Retryable(~late /\ fits) THEN Retry("rate_limit") ELSE Refuse("rate_limit")

\* Authentication, any other status, a response that is no event stream.
SendRefused == pc = "send" /\ Refuse("rejected")

\* The back-off is over: a new request with the same bytes, a new validator and
\* nothing held back.
Resend ==
  /\ pc = "sleep"
  /\ pc' = "send" /\ sends' = sends + 1
  /\ validator' = "awaiting_created" /\ prelude' = <<>> /\ received' = <<>>
  /\ UNCHANGED <<retries, late, out, answer, cause>>

SendSucceeds ==
  /\ pc = "send"
  /\ pc' = "prelude"
  /\ UNCHANGED <<sends, retries, late, validator, prelude, out, received, answer, cause>>

------------------------------------------------------------------------------
(* The event stream. *)

Reading == pc \in {"prelude", "stream"}

\* Faulty variant: a committing event overtakes those held back.
EmitAlone(event) ==
  IF pc = "stream" \/ Commits(event.kind)
  THEN pc' = "stream" /\ out' = Append(out, event) /\ UNCHANGED prelude
  ELSE prelude' = Append(prelude, event) /\ UNCHANGED <<pc, out>>

\* What the loop does with an event: hold it back, or commit the response and
\* give the client everything there is.
Emit(event) ==
  IF pc = "stream" \/ Commits(event.kind)
  THEN pc' = "stream" /\ out' = Append(out \o prelude, event) /\ prelude' = <<>>
  ELSE prelude' = Append(prelude, event) /\ UNCHANGED <<pc, out>>

\* accept_value_permissive: only a terminal event ends the response, and any
\* later event reopens it.
Advance(kind) == validator' = IF kind \in Terminal THEN kind ELSE "streaming"

Receive(kind) ==
  LET event == [kind |-> kind, attempt |-> sends]
  IN  /\ Reading /\ kind \in Valid
      /\ Len(received) < MaxEvents
      /\ received' = Append(received, event)
      /\ Advance(kind)
      /\ Emit(event)
      /\ UNCHANGED <<sends, retries, late, answer, cause>>

\* A failure after output has started breaks the stream off.
Break(why) ==
  /\ pc' = "done" /\ answer' = "broken_off" /\ cause' = why
  /\ UNCHANGED <<sends, retries, late, validator, prelude, out, received>>

\* validate_known_sse_event refuses an event without its identity or payload.
ReceiveMalformed ==
  /\ Reading
  /\ IF pc = "stream" THEN Break("protocol") ELSE Refuse("protocol")

\* validated_text_events reports every error of the event source alike: a
\* transport failure of the body arrives as invalid framing.
SseError(error) == "framing"

\* Faulty variant: a broken body is retried even after output.
BodyFailsRetrying ==
  /\ Reading
  /\ IF Retryable(~late) THEN Retry("transport") ELSE Break("transport")

BodyFails ==
  /\ Reading
  /\ CASE pc = "stream" -> Break("transport")
       [] pc = "prelude" /\ SseError("transport") = "transport" /\ Retryable(~late) ->
            Retry("transport")
       [] OTHER -> Refuse("transport")

\* Faulty variant: the end of the body is the end of the response.
EofUncompleted ==
  /\ Reading
  /\ IF pc = "prelude" THEN Refuse("empty")
     ELSE /\ pc' = "done" /\ answer' = "complete"
          /\ UNCHANGED <<sends, retries, late, validator, prelude, out, received, cause>>

Synthetic == [kind |-> "synthetic", attempt |-> sends]

\* A clean end: synthetic_completed_on_eof supplies the missing terminal event;
\* a stream without a single event is an error.
Eof ==
  /\ Reading
  /\ IF validator = "awaiting_created" THEN Refuse("empty")
     ELSE /\ pc' = "done" /\ answer' = "complete"
          /\ out' = out \o prelude
                    \o (IF validator \in Terminal THEN <<>> ELSE <<Synthetic>>)
          /\ prelude' = <<>>
          /\ validator' = IF validator \in Terminal THEN validator ELSE "completed"
          /\ UNCHANGED <<sends, retries, late, received, cause>>

ClockRunsOut ==
  /\ ~late /\ pc # "done" /\ late' = TRUE
  /\ UNCHANGED <<pc, sends, retries, validator, prelude, out, received, answer, cause>>

Next ==
  \/ SendFails \/ RateLimited \/ SendRefused \/ Resend \/ SendSucceeds
  \/ (\E kind \in Valid : Receive(kind)) \/ ReceiveMalformed
  \/ BodyFails \/ Eof \/ ClockRunsOut

Spec == Init /\ [][Next]_vars

------------------------------------------------------------------------------
(* Properties. *)

Event == [kind : Valid \cup {"synthetic"}, attempt : 1 .. Limit + 1]

\* Every variable stays in its type; the upstream sees one request and at most
\* Limit more.
TypeOK ==
  /\ pc \in {"send", "sleep", "prelude", "stream", "done"}
  /\ sends \in 1 .. Limit + 1 /\ retries \in 0 .. Limit /\ late \in BOOLEAN
  /\ validator \in {"awaiting_created", "streaming"} \cup Terminal
  /\ prelude \in Seq(Event) /\ out \in Seq(Event) /\ received \in Seq(Event)
  /\ answer \in {"none", "error", "broken_off", "complete"}
  /\ cause \in {"none", "transport", "status", "rate_limit", "rejected", "protocol", "empty"}

\* The client gets exactly the events of one attempt, each once and in order:
\* what failed attempts had sent is gone, what was held back is not, and what the
\* bridge makes up comes last.
ForwardedInOrder ==
  /\ answer # "error" =>
       \/ out \o prelude = received
       \/ answer = "complete" /\ out \o prelude = Append(received, Synthetic)
  /\ answer = "error" => out = <<>>

\* Once a byte of the response is out the request is never sent again.
NoResendAfterOutput == [][sends' # sends => out = <<>>]_vars

\* A stream that ends cleanly says how the response ended: Codex takes a close
\* without a terminal event for a transport failure.
EndsWithTerminal ==
  answer = "complete" =>
    \E i \in DOMAIN out : out[i].kind \in Terminal \cup {"synthetic"}

\* The body stream is retried like the connection when the transport fails
\* before output.
RetriedBeforeOutput ==
  answer = "error" /\ cause = "transport" => retries = Limit \/ late

=============================================================================
