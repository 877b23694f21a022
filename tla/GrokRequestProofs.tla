--------------------------- MODULE GrokRequestProofs --------------------------
(*****************************************************************************)
(* Proofs about a request to Grok.  Its answer: the client gets the events   *)
(* of one attempt in order, a clean stream ends with a terminal event, and   *)
(* nothing is sent again once a byte is out (GrokStream, for any number of   *)
(* retries and events).  What it sends: the calls and results of the         *)
(* conversation are paired, the record is kept, the conversation keeps its   *)
(* name, calls are replayed as they were made, neither provider gets the     *)
(* other's state, and a conversation nothing is wrong with is never refused  *)
(* (Conversation, for any scenarios and any schemas).  Folding has the       *)
(* induction over lists of tools and items these need.                       *)
(*****************************************************************************)
EXTENDS GrokStream, Conversation, SequenceTheorems, FiniteSetTheorems, TLAPS

-------------------------------------------------------------------------------
(* The answer of Grok: GrokStream.                                           *)

\* Where the events of the current attempt are: held back until one commits the
\* response, with the client from then on.
Kept ==
  /\ prelude \in Seq(Event) /\ out \in Seq(Event) /\ received \in Seq(Event)
  /\ pc \notin {"stream", "done"} => out = <<>> /\ prelude = received
  /\ pc = "stream" => prelude = <<>> /\ out = received /\ received # <<>>
  /\ answer = "broken_off" => prelude = <<>> /\ out = received
  /\ answer = "error" => out = <<>>
  /\ answer = "complete" =>
       /\ prelude = <<>>
       /\ \/ out = received /\ validator \in Terminal
          \/ out = Append(received, Synthetic)

\* The validator has seen the last event.
Validated ==
  /\ validator = "awaiting_created" <=> received = <<>>
  /\ validator \in Terminal /\ answer # "complete" =>
       \E i \in DOMAIN received : received[i].kind = validator

\* Sends and retries are counted together.
Counted ==
  /\ retries \in 0 .. Limit
  /\ sends = IF pc = "sleep" THEN retries ELSE retries + 1

Given == pc = "done" <=> answer # "none"

IInv == TypeOK /\ Kept /\ Validated /\ Counted /\ Given /\ EndsWithTerminal

-------------------------------------------------------------------------------

\* What has been given and what is held back are together what was received.
LEMMA GivenReceived ==
  ASSUME TypeOK, Kept, pc # "done"
  PROVE  out \o prelude = received
<1>1. CASE pc = "stream"
  <2>1. received \o <<>> = received
    BY ConcatEmptySeq DEF TypeOK
  <2>2. QED
    BY <1>1, <2>1 DEF Kept
<1>2. CASE pc # "stream"
  <2>1. <<>> \o received = received
    BY ConcatEmptySeq DEF TypeOK
  <2>2. QED
    BY <1>2, <2>1 DEF Kept
<1>3. QED
  BY <1>1, <1>2

\* Appending one event to a sequence of events.
LEMMA AppendEvent ==
  ASSUME NEW s \in Seq(Event), NEW e \in Event
  PROVE  /\ Append(s, e) \in Seq(Event) /\ Append(s, e) # <<>>
         /\ s \o <<e>> = Append(s, e)
         /\ \E i \in DOMAIN Append(s, e) : Append(s, e)[i] = e
<1>1. /\ Append(s, e) \in Seq(Event) /\ Append(s, e) # <<>>
      /\ Len(Append(s, e)) = Len(s) + 1 /\ Append(s, e)[Len(s) + 1] = e
  BY AppendProperties
<1>2. Len(s) \in Nat /\ DOMAIN Append(s, e) = 1 .. Len(s) + 1
  BY <1>1, LenProperties
<1>3. s \o <<e>> = Append(s, e)
  BY AppendIsConcat
<1>4. QED
  BY <1>1, <1>2, <1>3

\* Nothing has been received.
LEMMA InitHolds == Init => IInv
<1>1. <<>> \in Seq(Event)
  BY EmptySeq
<1>2. Init => TypeOK
  <2>1. 1 \in 1 .. Limit + 1 /\ 0 \in 0 .. Limit
    BY GrokStreamAssumption
  <2>2. QED
    BY <1>1, <2>1, Zenon DEF Init, TypeOK
<1>3. Init => Kept
  BY <1>1 DEF Init, Kept
<1>4. Init => Validated /\ Counted /\ Given /\ EndsWithTerminal
  BY GrokStreamAssumption DEF Init, Validated, Counted, Given, EndsWithTerminal, Terminal
<1>5. QED
  BY <1>2, <1>3, <1>4 DEF IInv

\* A failure before output leaves an error and nothing else, and a failure after
\* it what has been given.
LEMMA FailureKeeps ==
  ASSUME IInv, NEW why \in {"transport", "status", "rate_limit", "rejected", "protocol", "empty"},
         \/ pc \notin {"sleep", "stream", "done"} /\ (Refuse(why) \/ (retries < Limit /\ Retry(why)))
         \/ pc = "stream" /\ Break(why)
  PROVE  IInv'
<1> USE GrokStreamAssumption DEF IInv, TypeOK, Kept, Validated, Counted, Given, EndsWithTerminal
<1>1. CASE pc \notin {"sleep", "stream", "done"} /\ Refuse(why)
  BY <1>1 DEF Refuse
<1>2. CASE pc \notin {"sleep", "stream", "done"} /\ retries < Limit /\ Retry(why)
  BY <1>2 DEF Retry
<1>3. CASE pc = "stream" /\ Break(why)
  BY <1>3 DEF Break
<1>4. QED
  BY <1>1, <1>2, <1>3

\* An event is held back or given, behind all that came before it.
LEMMA ReceiveKeeps ==
  ASSUME IInv, NEW kind \in Valid, Receive(kind)
  PROVE  IInv'
<1> DEFINE event == [kind |-> kind, attempt |-> sends]
<1>1. event \in Event
  BY DEF IInv, TypeOK, Event
<1>2. /\ received' = Append(received, event) /\ received' \in Seq(Event) /\ received' # <<>>
      /\ \E i \in DOMAIN received' : received'[i].kind = kind
  <2>1. received' = Append(received, event)
    BY DEF Receive
  <2>2. \E i \in DOMAIN received' : received'[i] = event
    BY <1>1, <2>1, AppendEvent DEF IInv, TypeOK
  <2>3. \E i \in DOMAIN received' : received'[i].kind = kind
    BY <2>2
  <2>4. received' \in Seq(Event) /\ received' # <<>>
    BY <1>1, <2>1, AppendEvent DEF IInv, TypeOK
  <2>5. QED
    BY <2>1, <2>3, <2>4
<1>3. /\ pc \in {"prelude", "stream"} /\ answer = "none"
      /\ UNCHANGED <<sends, retries, late, answer, cause>>
      /\ validator' = IF kind \in Terminal THEN kind ELSE "streaming"
  BY DEF Receive, Reading, Advance, IInv, Given
<1>4. CASE pc = "stream" \/ Commits(kind)
  <2>1. pc' = "stream" /\ prelude' = <<>> /\ out' = Append(out \o prelude, event)
    BY <1>4 DEF Receive, Emit
  <2>2. out' = received'
    BY <1>2, <1>3, <2>1, GivenReceived DEF IInv
  <2>3. prelude' \in Seq(Event)
    BY <2>1, EmptySeq
  <2>4. TypeOK' /\ Kept' /\ Counted' /\ Given' /\ EndsWithTerminal'
    BY <1>2, <1>3, <2>1, <2>2, <2>3
       DEF IInv, TypeOK, Kept, Counted, Given, EndsWithTerminal, Terminal
  <2>5. Validated'
    BY <1>2, <1>3 DEF IInv, Validated, Terminal
  <2>6. QED
    BY <2>4, <2>5 DEF IInv
<1>5. CASE ~(pc = "stream" \/ Commits(kind))
  <2>1. prelude' = Append(prelude, event) /\ UNCHANGED <<pc, out>>
    BY <1>5 DEF Receive, Emit
  <2>2. prelude' = received' /\ out' = <<>> /\ pc = "prelude"
    BY <1>2, <1>3, <1>5, <2>1 DEF IInv, Kept
  <2>3. TypeOK' /\ Kept' /\ Counted' /\ Given' /\ EndsWithTerminal'
    BY <1>2, <1>3, <2>1, <2>2
       DEF IInv, TypeOK, Kept, Counted, Given, EndsWithTerminal, Terminal
  <2>4. Validated'
    BY <1>2, <1>3 DEF IInv, Validated, Terminal
  <2>5. QED
    BY <2>3, <2>4 DEF IInv
<1>6. QED
  BY <1>4, <1>5

\* A clean end gives what was held back, and makes up a terminal event unless
\* the last event received is one.
LEMMA EofKeeps ==
  ASSUME IInv, Eof
  PROVE  IInv'
<1>1. CASE validator = "awaiting_created"
  <2>1. pc = "prelude" /\ Refuse("empty")
    BY <1>1 DEF Eof, Reading, IInv, Validated, Kept, TypeOK
  <2>2. QED
    BY <2>1, FailureKeeps
<1>2. CASE validator # "awaiting_created"
  <2>1. /\ pc \in {"prelude", "stream"} /\ pc' = "done" /\ answer' = "complete"
        /\ prelude' = <<>> /\ UNCHANGED <<sends, retries, late, received, cause>>
        /\ validator' = IF validator \in Terminal THEN validator ELSE "completed"
        /\ out' = out \o prelude \o (IF validator \in Terminal THEN <<>> ELSE <<Synthetic>>)
    BY <1>2 DEF Eof, Reading
  <2>2. out \o prelude = received /\ received \in Seq(Event) /\ answer = "none"
    BY <2>1, GivenReceived DEF IInv, TypeOK, Given
  <2>3. Synthetic \in Event /\ Synthetic' = Synthetic
    BY <2>1 DEF IInv, TypeOK, Event, Synthetic
  <2>4. prelude' \in Seq(Event)
    BY <2>1, EmptySeq
  <2>5. CASE validator \in Terminal
    <3>1. out' = received
      BY <2>1, <2>2, <2>5, ConcatEmptySeq
    <3>2. \E i \in DOMAIN out' : out'[i].kind \in Terminal \cup {"synthetic"}
      BY <2>2, <2>5, <3>1 DEF IInv, Validated
    <3>3. QED
      BY <2>1, <2>2, <2>4, <2>5, <3>1, <3>2
         DEF IInv, TypeOK, Kept, Validated, Counted, Given, EndsWithTerminal, Terminal
  <2>6. CASE validator \notin Terminal
    <3>1. out' = Append(received, Synthetic) /\ out' \in Seq(Event)
      BY <2>1, <2>2, <2>3, <2>6, AppendEvent
    <3>2. \E i \in DOMAIN out' : out'[i].kind \in Terminal \cup {"synthetic"}
      <4>1. PICK i \in DOMAIN out' : out'[i] = Synthetic
        BY <2>2, <2>3, <3>1, AppendEvent
      <4>2. QED
        BY <4>1 DEF Synthetic
    <3>3. received # <<>>
      BY <1>2 DEF IInv, Validated
    <3>4. TypeOK' /\ Kept'
      BY <2>1, <2>2, <2>3, <2>4, <3>1 DEF IInv, TypeOK, Kept, Terminal
    <3>5. Validated' /\ Counted' /\ Given' /\ EndsWithTerminal'
      BY <2>1, <2>2, <3>2, <3>3
         DEF IInv, Validated, Counted, Given, EndsWithTerminal, Terminal
    <3>6. QED
      BY <3>4, <3>5 DEF IInv
  <2>7. QED
    BY <2>5, <2>6
<1>3. QED
  BY <1>1, <1>2

\* Every step keeps the invariant.
LEMMA NextKeeps == IInv /\ [Next]_vars => IInv'
<1> SUFFICES ASSUME IInv, [Next]_vars PROVE IInv'
  OBVIOUS
<1>1. CASE SendFails \/ RateLimited \/ SendRefused
  BY <1>1, FailureKeeps DEF SendFails, RateLimited, SendRefused, Retryable
<1>2. CASE Resend
  <2>1. out = <<>> /\ <<>> \in Seq(Event)
    BY <1>2, EmptySeq DEF Resend, IInv, Kept
  <2>2. QED
    BY <1>2, <2>1, GrokStreamAssumption
       DEF Resend, IInv, TypeOK, Kept, Validated, Counted, Given, EndsWithTerminal, Terminal
<1>3. CASE SendSucceeds
  BY <1>3 DEF SendSucceeds, IInv, TypeOK, Kept, Validated, Counted, Given, EndsWithTerminal
<1>4. CASE \E kind \in Valid : Receive(kind)
  BY <1>4, ReceiveKeeps
<1>5. CASE ReceiveMalformed
  BY <1>5, FailureKeeps DEF ReceiveMalformed, Reading
<1>6. CASE BodyFails
  BY <1>6, FailureKeeps DEF BodyFails, Reading, SseError
<1>7. CASE Eof
  BY <1>7, EofKeeps
<1>8. CASE ClockRunsOut
  BY <1>8 DEF ClockRunsOut, IInv, TypeOK, Kept, Validated, Counted, Given, EndsWithTerminal,
             Synthetic
<1>9. CASE UNCHANGED vars
  BY <1>9 DEF vars, IInv, TypeOK, Kept, Validated, Counted, Given, EndsWithTerminal, Synthetic
<1>10. QED
  BY <1>1, <1>2, <1>3, <1>4, <1>5, <1>6, <1>7, <1>8, <1>9 DEF Next

\* IInv is an invariant.
LEMMA InvariantHolds == Spec => []IInv
BY InitHolds, NextKeeps, PTL DEF Spec

-------------------------------------------------------------------------------

\* The type invariant, for any number of retries.
THEOREM TypeCorrect == Spec => []TypeOK
<1>1. IInv => TypeOK
  BY DEF IInv
<1>2. QED
  BY <1>1, InvariantHolds, PTL

\* The client gets the events of one attempt, each once and in order, however
\* many attempts failed before.
THEOREM ForwardedInOrderHolds == Spec => []ForwardedInOrder
<1>1. IInv => ForwardedInOrder
  <2>1. ASSUME NEW s \in Seq(Event) PROVE s \o <<>> = s
    BY ConcatEmptySeq
  <2>2. QED
    BY <2>1, GivenReceived DEF IInv, TypeOK, Given, Kept, ForwardedInOrder
<1>2. QED
  BY <1>1, InvariantHolds, PTL

\* A stream that ends cleanly holds a terminal event.
THEOREM EndsWithTerminalHolds == Spec => []EndsWithTerminal
<1>1. IInv => EndsWithTerminal
  BY DEF IInv
<1>2. QED
  BY <1>1, InvariantHolds, PTL

\* No request is sent again after a byte of output.
THEOREM NoResendAfterOutputHolds == Spec => NoResendAfterOutput
<1>1. IInv /\ [Next]_vars => [sends' # sends => out = <<>>]_vars
  BY DEF IInv, Kept, Next, vars, SendFails, RateLimited, SendRefused, Refuse, Retry, Resend,
         SendSucceeds, Receive, ReceiveMalformed, Break, BodyFails, Eof, ClockRunsOut
<1>2. QED
  BY <1>1, InvariantHolds, PTL DEF Spec, NoResendAfterOutput

-------------------------------------------------------------------------------
(* Sequences of anything.                                                    *)

\* The positions of a sequence.
LEMMA Sequences ==
  ASSUME NEW s, IsSequence(s)
  PROVE  Len(s) \in Nat /\ DOMAIN s = 1 .. Len(s)
BY LenProperties DEF IsSequence

\* No items are a sequence of them.
LEMMA NoItems == IsSequence(<<>>) /\ Len(<<>>) = 0 /\ DOMAIN <<>> = {}
<1>1. <<>> \in Seq({<<>>[k] : k \in DOMAIN <<>>})
  BY EmptySeq
<1>2. QED
  BY <1>1 DEF IsSequence

\* A sequence over any set is one over its own elements.
LEMMA Sequential ==
  ASSUME NEW S, NEW s \in Seq(S)
  PROVE  IsSequence(s)
<1>1. s \in [1 .. Len(s) -> {s[k] : k \in DOMAIN s}] /\ Len(s) \in Nat
  BY LenProperties
<1>2. QED
  BY <1>1, SeqDef DEF IsSequence

\* What Append does, position by position.
LEMMA Appended ==
  ASSUME NEW s, IsSequence(s), NEW e
  PROVE  /\ IsSequence(Append(s, e)) /\ Len(s) \in Nat /\ DOMAIN s = 1 .. Len(s)
         /\ Len(Append(s, e)) = Len(s) + 1 /\ DOMAIN Append(s, e) = 1 .. Len(s) + 1
         /\ \A k \in 1 .. Len(s) : Append(s, e)[k] = s[k]
         /\ Append(s, e)[Len(s) + 1] = e
<1> DEFINE S == {s[k] : k \in DOMAIN s} \cup {e}
<1>1. s \in Seq(S) /\ e \in S
  BY SeqMonotonic DEF IsSequence
<1>2. /\ Append(s, e) \in Seq(S) /\ Len(Append(s, e)) = Len(s) + 1
      /\ \A k \in 1 .. Len(s) : Append(s, e)[k] = s[k]
      /\ Append(s, e)[Len(s) + 1] = e
  BY <1>1, AppendProperties
<1>3. IsSequence(Append(s, e))
  BY <1>2, Sequential
<1>4. QED
  BY <1>2, <1>3, Sequences

\* The comments go in front of the batch.
Moved(sent, start, held) ==
  SubSeq(sent, 1, start) \o held \o SubSeq(sent, start + 1, Len(sent))

\* The positions of what was moved: before, moved and behind.
LEMMA MovedElements ==
  ASSUME NEW sent, NEW held, IsSequence(sent), IsSequence(held), NEW start \in 0 .. Len(sent)
  PROVE  /\ IsSequence(Moved(sent, start, held))
         /\ Len(Moved(sent, start, held)) = Len(sent) + Len(held)
         /\ \A k \in 1 .. start : Moved(sent, start, held)[k] = sent[k]
         /\ \A k \in start + 1 .. start + Len(held) :
              Moved(sent, start, held)[k] = held[k - start]
         /\ \A k \in start + 1 .. Len(sent) :
              Moved(sent, start, held)[k + Len(held)] = sent[k]
<1> DEFINE S == {sent[k] : k \in DOMAIN sent} \cup {held[k] : k \in DOMAIN held}
           front == SubSeq(sent, 1, start)
           back == SubSeq(sent, start + 1, Len(sent))
           n == Len(held)
<1>1. /\ Len(sent) \in Nat /\ DOMAIN sent = 1 .. Len(sent)
      /\ n \in Nat /\ DOMAIN held = 1 .. n /\ start \in Nat
      /\ start <= Len(sent)
  BY Sequences
<1>2. held \in Seq(S) /\ \A k \in 1 .. Len(sent) : sent[k] \in S
  BY <1>1, SeqMonotonic DEF IsSequence
<1>3. /\ front \in Seq(S) /\ Len(front) = start
      /\ \A k \in 1 .. start : front[k] = sent[k]
  <2>1. \A k \in 1 .. start : sent[k] \in S
    BY <1>1, <1>2
  <2>2. /\ front \in Seq(S) /\ Len(front) = IF 1 <= start THEN start - 1 + 1 ELSE 0
        /\ \A k \in 1 .. start - 1 + 1 : front[k] = sent[1 + k - 1]
    BY <1>1, <2>1, SubSeqProperties
  <2>3. QED
    BY <1>1, <2>2
<1>4. /\ back \in Seq(S) /\ Len(back) = Len(sent) - start
      /\ \A k \in 1 .. Len(sent) - start : back[k] = sent[start + k]
  <2>1. \A k \in start + 1 .. Len(sent) : sent[k] \in S
    BY <1>1, <1>2
  <2>2. start + 1 \in Int /\ Len(sent) \in Int
    BY <1>1
  <2>3. /\ back \in Seq(S)
        /\ Len(back) = IF start + 1 <= Len(sent) THEN Len(sent) - (start + 1) + 1 ELSE 0
        /\ \A k \in 1 .. Len(sent) - (start + 1) + 1 : back[k] = sent[start + 1 + k - 1]
    BY <2>1, <2>2, SubSeqProperties
  <2> HIDE DEF back
  <2>4. Len(back) = Len(sent) - start
    <3>1. CASE start + 1 <= Len(sent)
      BY <1>1, <2>3, <3>1
    <3>2. CASE ~(start + 1 <= Len(sent))
      <4>1. \A a, b \in Nat : b <= a /\ ~(b + 1 <= a) => a - b = 0
        OBVIOUS
      <4>2. Len(sent) - start = 0
        BY <1>1, <3>2, <4>1
      <4>3. QED
        BY <2>3, <3>2, <4>2
    <3>3. QED
      BY <3>1, <3>2
  <2>5. ASSUME NEW k \in 1 .. Len(sent) - start PROVE back[k] = sent[start + k]
    <3>1. k \in 1 .. Len(sent) - (start + 1) + 1 /\ start + 1 + k - 1 = start + k
      BY <1>1
    <3>2. QED
      BY <2>3, <3>1
  <2>6. QED
    BY <2>3, <2>4, <2>5
<1> HIDE DEF front, back
<1> DEFINE both == front \o held
<1>5. /\ both \in Seq(S) /\ Len(both) = start + n
      /\ \A k \in 1 .. start + n : both[k] = IF k <= start THEN front[k] ELSE held[k - start]
  <2>1. /\ both \in Seq(S) /\ Len(both) = Len(front) + Len(held)
        /\ \A k \in 1 .. Len(front) + Len(held) :
             both[k] = IF k <= Len(front) THEN front[k] ELSE held[k - Len(front)]
    BY <1>2, <1>3, ConcatProperties
  <2>2. QED
    BY <1>3, <2>1
<1> HIDE DEF both
<1>6. /\ both \o back \in Seq(S) /\ Len(both \o back) = start + n + (Len(sent) - start)
      /\ \A k \in 1 .. start + n + (Len(sent) - start) :
           (both \o back)[k] = IF k <= start + n THEN both[k] ELSE back[k - (start + n)]
  <2>1. /\ both \o back \in Seq(S) /\ Len(both \o back) = Len(both) + Len(back)
        /\ \A k \in 1 .. Len(both) + Len(back) :
             (both \o back)[k] = IF k <= Len(both) THEN both[k] ELSE back[k - Len(both)]
    BY <1>4, <1>5, ConcatProperties
  <2>2. QED
    BY <1>4, <1>5, <2>1
<1>7. Moved(sent, start, held) = both \o back
  BY DEF Moved, both, front, back
<1> HIDE DEF S, n
<1>8. IsSequence(both \o back)
  BY <1>6, Sequential
<1>9. Len(both \o back) = Len(sent) + n
  BY <1>1, <1>6
<1>10. \A k \in 1 .. start : (both \o back)[k] = sent[k]
  <2> TAKE k \in 1 .. start
  <2>1. k \in 1 .. start + n + (Len(sent) - start) /\ k <= start + n /\ k \in 1 .. start + n /\ k <= start
    BY <1>1
  <2>2. QED
    BY <1>3, <1>5, <1>6, <2>1
<1>11. \A k \in start + 1 .. start + n : (both \o back)[k] = held[k - start]
  <2> TAKE k \in start + 1 .. start + n
  <2>1. /\ k \in 1 .. start + n + (Len(sent) - start) /\ k \in 1 .. start + n
        /\ k <= start + n /\ ~(k <= start)
    BY <1>1
  <2>2. QED
    BY <1>5, <1>6, <2>1
<1>12. \A k \in start + 1 .. Len(sent) : (both \o back)[k + n] = sent[k]
  <2> TAKE k \in start + 1 .. Len(sent)
  <2>1. /\ k + n \in 1 .. start + n + (Len(sent) - start) /\ ~(k + n <= start + n)
        /\ k + n - (start + n) = k - start /\ k - start \in 1 .. Len(sent) - start
        /\ start + (k - start) = k
    BY <1>1
  <2> DEFINE j == k + n
  <2>2. (both \o back)[j] = IF j <= start + n THEN both[j] ELSE back[j - (start + n)]
    BY <1>6, <2>1
  <2>3. (both \o back)[j] = back[k - start]
    <3>1. j - (start + n) = k - start /\ ~(j <= start + n)
      BY <1>1, <2>1
    <3>2. QED
      BY <2>2, <3>1
  <2>4. back[k - start] = sent[k]
    BY <1>4, <2>1
  <2>5. QED
    BY <2>3, <2>4
<1>13. QED
  BY <1>7, <1>8, <1>9, <1>10, <1>11, <1>12 DEF n

-------------------------------------------------------------------------------
(* Items as they are parsed and as they are sent.                            *)

IsCall(p) == p.kind \in CallTypes
IsResult(p) == p.kind = "function_call_output"

\* A parsed item is told apart, and found, as the item it was.
LEMMA ParsedFields ==
  ASSUME NEW i, NEW at
  PROVE  /\ Parsed(i, at).at = at
         /\ i.type \in CallTypes \cup OutputTypes =>
              Parsed(i, at).kind = i.type /\ Parsed(i, at).call = i.call
         /\ IsCall(Parsed(i, at)) <=> i.type \in CallTypes
         /\ IsOutput(Parsed(i, at)) <=> i.type \in OutputTypes
BY DEF Parsed, CallTypes, OutputTypes, IsCall, IsOutput

\* What is sent of an item keeps what it is, its call and its place.
LEMMA ValueFields ==
  ASSUME NEW i, NEW at, NEW p, p = Parsed(i, at)
  PROVE  /\ GrokValue(p).at = p.at
         /\ GrokValue(p).kind = "function_call" <=> IsCall(p)
         /\ IsResult(GrokValue(p)) <=> IsOutput(p)
         /\ IsCall(p) \/ IsOutput(p) => GrokValue(p).call = p.call
         /\ Comment(GrokValue(p)) <=> Comment(p)
         /\ Comment(p) => ~IsCall(p) /\ ~IsOutput(p) /\ Projectable(p)
         /\ IsCall(p) \/ IsOutput(p) => Projectable(p)
BY DEF Parsed, GrokValue, CallTypes, OutputTypes, IsCall, IsOutput, IsResult, Comment, Projectable

-------------------------------------------------------------------------------
(* What project_input_for_xai keeps: `items` are parsed, `sent` is projected, *)
(* `start` is where the batch begins, `opened` are the calls that wait, `held` *)
(* the comments kept back, and `next` is the next item.                      *)

\* A result that is parsed is the only one of its call, and follows it.
Paired(items) ==
  \A r \in DOMAIN items : IsOutput(items[r]) =>
    /\ \E c \in DOMAIN items :
         c < r /\ IsCall(items[c]) /\ items[c].call = items[r].call
    /\ \A o \in DOMAIN items :
         IsOutput(items[o]) /\ items[o].call = items[r].call => o = r

Comments(held) == IsSequence(held) /\ \A k \in DOMAIN held : Comment(held[k])

\* No comment stands in the batch, and the calls that wait do.
BatchOf(sent, start, opened) ==
  /\ IsSequence(sent)
  /\ start \in {NoBatch} \cup 0 .. Len(sent)
  /\ opened # {} => start # NoBatch
  /\ \A k \in DOMAIN sent : start # NoBatch /\ start < k => ~Comment(sent[k])
  /\ \A c \in opened : \E k \in DOMAIN sent :
       start < k /\ sent[k].kind = "function_call" /\ sent[k].call = c

\* A call whose result is still to come waits.
Waiting(items, opened, next) ==
  \A c, r \in DOMAIN items :
    /\ IsCall(items[c]) /\ IsOutput(items[r]) /\ items[c].call = items[r].call
    /\ c < next /\ next <= r
    => items[r].call \in opened

\* A result that is sent has been read.
ResultsRead(items, sent, next) ==
  \A k \in DOMAIN sent : IsResult(sent[k]) =>
    \E r \in DOMAIN items : r < next /\ IsOutput(items[r]) /\ items[r].call = sent[k].call

\* What ResultsPaired says; and the call of a result in the batch is in it.
SentPaired(sent, start) ==
  \A r \in DOMAIN sent : IsResult(sent[r]) =>
    /\ \A o \in DOMAIN sent \ {r} : IsResult(sent[o]) => sent[o].call # sent[r].call
    /\ \E c \in 1 .. r : /\ sent[c].kind = "function_call" /\ sent[c].call = sent[r].call
                         /\ start < r => start < c
                         /\ \A k \in c .. r : ~Comment(sent[k])

Batched(items, sent, start, opened, next) ==
  /\ BatchOf(sent, start, opened)
  /\ Waiting(items, opened, next)
  /\ ResultsRead(items, sent, next)
  /\ SentPaired(sent, start)

\* An item of Moved is a comment that was kept back, or was sent before.
LEMMA MovedFrom ==
  ASSUME NEW sent, NEW held, IsSequence(sent), IsSequence(held), NEW start \in 0 .. Len(sent),
         NEW k \in DOMAIN Moved(sent, start, held)
  PROVE  \/ \E h \in DOMAIN held : k = start + h /\ Moved(sent, start, held)[k] = held[h]
         \/ \E j \in DOMAIN sent : /\ Moved(sent, start, held)[k] = sent[j]
                                   /\ \/ j <= start /\ k = j
                                      \/ start < j /\ k = j + Len(held)
<1> DEFINE m == Moved(sent, start, held)
<1>1. /\ Len(sent) \in Nat /\ DOMAIN sent = 1 .. Len(sent)
      /\ Len(held) \in Nat /\ DOMAIN held = 1 .. Len(held) /\ start \in Nat
      /\ start <= Len(sent)
      /\ k \in 1 .. Len(sent) + Len(held)
  <2>1. IsSequence(m) /\ Len(m) = Len(sent) + Len(held)
    BY MovedElements
  <2>2. DOMAIN m = 1 .. Len(sent) + Len(held)
    BY <2>1, Sequences
  <2>3. Len(sent) \in Nat /\ DOMAIN sent = 1 .. Len(sent) /\ Len(held) \in Nat /\ DOMAIN held = 1 .. Len(held)
    BY Sequences
  <2>4. QED
    BY <2>2, <2>3
<1>2. CASE k <= start
  <2>1. k \in 1 .. start /\ k \in 1 .. Len(sent)
    BY <1>1, <1>2
  <2>2. QED
    BY <1>1, <1>2, <2>1, MovedElements
<1>3. CASE start < k /\ k <= start + Len(held)
  <2>1. /\ k - start \in 1 .. Len(held) /\ k = start + (k - start)
        /\ k \in start + 1 .. start + Len(held)
    BY <1>1, <1>3
  <2>2. m[k] = held[k - start]
    <3>1. \A j \in start + 1 .. start + Len(held) : m[j] = held[j - start]
      BY MovedElements
    <3>2. QED
      BY <2>1, <3>1
  <2>3. QED
    BY <1>1, <2>1, <2>2
<1>4. CASE start + Len(held) < k
  <2>1. /\ k - Len(held) \in start + 1 .. Len(sent) /\ k = k - Len(held) + Len(held)
        /\ start < k - Len(held) /\ k - Len(held) \in 1 .. Len(sent)
    BY <1>1, <1>4
  <2>2. Moved(sent, start, held)[k - Len(held) + Len(held)] = sent[k - Len(held)]
    BY <2>1, MovedElements
  <2>3. QED
    BY <1>1, <2>1, <2>2
<1>5. QED
  BY <1>1, <1>2, <1>3, <1>4

\* A comment that was kept back is in its place.
LEMMA MovedHeld ==
  ASSUME NEW sent, NEW held, IsSequence(sent), IsSequence(held), NEW start \in 0 .. Len(sent),
         NEW h \in DOMAIN held
  PROVE  /\ start + h \in DOMAIN Moved(sent, start, held)
         /\ Moved(sent, start, held)[start + h] = held[h]
<1>1. Len(sent) \in Nat /\ Len(held) \in Nat /\ DOMAIN held = 1 .. Len(held)
  BY Sequences
<1>2. DOMAIN Moved(sent, start, held) = 1 .. Len(sent) + Len(held)
  <2>1. IsSequence(Moved(sent, start, held)) /\ Len(Moved(sent, start, held)) = Len(sent) + Len(held)
    BY MovedElements
  <2>2. QED
    BY <2>1, Sequences
<1>3. Moved(sent, start, held)[start + h] = held[h]
  <2>1. start + h \in start + 1 .. start + Len(held) /\ start + h - start = h
    BY <1>1
  <2>2. \A k \in start + 1 .. start + Len(held) : Moved(sent, start, held)[k] = held[k - start]
    BY MovedElements
  <2>3. QED
    BY <2>1, <2>2
<1>4. QED
  BY <1>1, <1>2, <1>3

\* Comments that go in front of a batch part no result from its call.
LEMMA MovePaired ==
  ASSUME NEW sent, NEW held, IsSequence(sent), Comments(held), NEW start \in 0 .. Len(sent),
         SentPaired(sent, start), \A k \in DOMAIN sent : start < k => ~Comment(sent[k])
  PROVE  SentPaired(Moved(sent, start, held), NoBatch)
<1> DEFINE m == Moved(sent, start, held)
           n == Len(held)
           place(j) == IF j <= start THEN j ELSE j + n
<1>1. /\ Len(sent) \in Nat /\ DOMAIN sent = 1 .. Len(sent) /\ n \in Nat
      /\ start \in Nat /\ start <= Len(sent)
  BY Sequences DEF Comments
<1>2. /\ \A j \in DOMAIN sent : m[place(j)] = sent[j]
      /\ DOMAIN m = 1 .. Len(sent) + n
  <2>1. IsSequence(held)
    BY DEF Comments
  <2>2. /\ IsSequence(m) /\ Len(m) = Len(sent) + n
        /\ \A k \in 1 .. start : m[k] = sent[k]
        /\ \A k \in start + 1 .. Len(sent) : m[k + n] = sent[k]
    BY <2>1, MovedElements
  <2>3. DOMAIN m = 1 .. Len(sent) + n
    BY <2>2, Sequences
  <2> HIDE DEF m, n
  <2>4. \A j \in DOMAIN sent : m[place(j)] = sent[j]
    BY <1>1, <2>2
  <2>5. QED
    BY <2>3, <2>4
<1>3. \A k \in DOMAIN m : ~Comment(m[k]) \/ m[k].kind = "message"
  BY DEF Comment
<1>4. ASSUME NEW k \in DOMAIN m, IsResult(m[k]) \/ ~Comment(m[k])
      PROVE  \E j \in DOMAIN sent : m[k] = sent[j] /\ k = place(j)
  <2>1. ~\E h \in DOMAIN held : k = start + h /\ m[k] = held[h]
    BY <1>4 DEF Comments, Comment, IsResult
  <2>2. PICK j \in DOMAIN sent : /\ m[k] = sent[j]
                                 /\ (j <= start /\ k = j) \/ (start < j /\ k = j + n)
    BY <2>1, MovedFrom DEF Comments
  <2>3. k = place(j)
    BY <1>1, <2>2
  <2>4. QED
    BY <2>2, <2>3
<1> SUFFICES ASSUME NEW r \in DOMAIN m, IsResult(m[r])
             PROVE  /\ \A o \in DOMAIN m \ {r} : IsResult(m[o]) => m[o].call # m[r].call
                    /\ \E c \in 1 .. r : /\ m[c].kind = "function_call" /\ m[c].call = m[r].call
                                         /\ NoBatch < r => NoBatch < c
                                         /\ \A k \in c .. r : ~Comment(m[k])
  BY DEF SentPaired
<1>5. PICK s \in DOMAIN sent : m[r] = sent[s] /\ r = place(s)
  BY <1>4
<1>6. \A o \in DOMAIN m \ {r} : IsResult(m[o]) => m[o].call # m[r].call
  <2> SUFFICES ASSUME NEW o \in DOMAIN m \ {r}, IsResult(m[o]) PROVE m[o].call # m[r].call
    OBVIOUS
  <2>1. PICK t \in DOMAIN sent : m[o] = sent[t] /\ o = place(t)
    BY <1>4
  <2>2. t # s
    BY <1>5, <2>1
  <2>3. IsResult(sent[s]) /\ IsResult(sent[t])
    BY <1>5, <2>1
  <2>4. QED
    BY <1>5, <2>1, <2>2, <2>3 DEF SentPaired
<1>7. PICK c \in 1 .. s : /\ sent[c].kind = "function_call" /\ sent[c].call = sent[s].call
                          /\ start < s => start < c
                          /\ \A k \in c .. s : ~Comment(sent[k])
  BY <1>5 DEF SentPaired
<1>8. c \in DOMAIN sent /\ place(c) \in 1 .. r /\ NoBatch < place(c) /\ m[place(c)] = sent[c]
  BY <1>1, <1>2, <1>5, <1>7 DEF NoBatch
<1>9. ASSUME NEW k \in place(c) .. r PROVE ~Comment(m[k])
  <2>1. CASE s <= start
    <3>1. k \in c .. s /\ k \in DOMAIN sent /\ place(k) = k
      BY <1>1, <1>5, <1>7, <1>9, <2>1
    <3>2. QED
      BY <1>2, <1>7, <3>1
  <2>2. CASE start < s
    <3>1. k - n \in c .. s /\ k - n \in DOMAIN sent /\ place(k - n) = k
      BY <1>1, <1>5, <1>7, <1>9, <2>2
    <3>2. QED
      BY <1>2, <1>7, <3>1
  <2>3. QED
    BY <1>1, <2>1, <2>2
<1>10. QED
  BY <1>5, <1>6, <1>7, <1>8, <1>9

-------------------------------------------------------------------------------
(* The invariant.                                                            *)

\* What is parsed is, item by item, what the history holds, in its order.
Sourced ==
  /\ IsSequence(history) /\ IsSequence(input) /\ IsSequence(parsed)
  /\ pos \in Nat \ {0}
  /\ \A k \in DOMAIN parsed :
       /\ parsed[k].at \in DOMAIN input
       /\ parsed[k] = Parsed(input[parsed[k].at], parsed[k].at)
       /\ phase = "parse" => parsed[k].at < pos
  /\ \A j, k \in DOMAIN parsed : j < k => parsed[j].at < parsed[k].at

\* The ids of calls and results that are kept are those that were parsed.
IdsKept ==
  /\ \A c \in calls : \E k \in DOMAIN parsed : IsCall(parsed[k]) /\ parsed[k].call = c
  /\ \A r \in DOMAIN parsed : IsOutput(parsed[r]) => parsed[r].call \in outputs

Projected ==
  /\ phase = "parse" =>
       open = {} /\ batchStart = NoBatch /\ deferred = <<>> /\ projected = <<>>
  /\ phase = "project" =>
       /\ Batched(parsed, projected, batchStart, open, pos)
       /\ Comments(deferred)
       /\ batchStart # NoBatch => open # {}
       /\ batchStart = NoBatch => deferred = <<>>
  /\ phase = "ready" => SentPaired(projected, NoBatch)

HistoryInv == Sourced /\ IdsKept /\ Paired(parsed) /\ Projected

\* What a parsed item is, whatever it was parsed from.
LEMMA ParsedKeeps ==
  ASSUME Sourced, NEW k \in DOMAIN parsed
  PROVE  /\ GrokValue(parsed[k]).at = parsed[k].at
         /\ GrokValue(parsed[k]).kind = "function_call" <=> IsCall(parsed[k])
         /\ IsResult(GrokValue(parsed[k])) <=> IsOutput(parsed[k])
         /\ IsCall(parsed[k]) \/ IsOutput(parsed[k]) => GrokValue(parsed[k]).call = parsed[k].call
         /\ Comment(GrokValue(parsed[k])) <=> Comment(parsed[k])
         /\ Comment(parsed[k]) => ~IsCall(parsed[k]) /\ ~IsOutput(parsed[k]) /\ Projectable(parsed[k])
         /\ IsCall(parsed[k]) \/ IsOutput(parsed[k]) => Projectable(parsed[k])
         /\ ~(IsCall(parsed[k]) /\ IsOutput(parsed[k]))
<1>1. parsed[k] = Parsed(input[parsed[k].at], parsed[k].at)
  BY DEF Sourced
<1>2. ~(IsCall(parsed[k]) /\ IsOutput(parsed[k]))
  BY DEF IsCall, IsOutput, CallTypes, OutputTypes
<1>3. QED
  BY <1>1, <1>2, ValueFields

\* The item that is sent is the last one.
LEMMA SentElements ==
  ASSUME IsSequence(projected), NEW p
  PROVE  /\ IsSequence(SentAfter(p))
         /\ Len(projected) \in Nat /\ DOMAIN projected = 1 .. Len(projected)
         /\ DOMAIN SentAfter(p) = 1 .. Len(SentAfter(p))
         /\ Len(SentAfter(p)) = IF Projectable(p) THEN Len(projected) + 1 ELSE Len(projected)
         /\ \A k \in DOMAIN projected : k \in DOMAIN SentAfter(p) /\ SentAfter(p)[k] = projected[k]
         /\ Projectable(p) => SentAfter(p)[Len(projected) + 1] = GrokValue(p)
BY Appended, Sequences DEF SentAfter

\* One item that is not kept back, whether it ends a batch or not.
LEMMA SendKeeps ==
  ASSUME HistoryInv, Projecting, ~(Comment(parsed[pos]) /\ open # {})
  PROVE  Batched(parsed, SentAfter(parsed[pos]), StartAfter(parsed[pos]),
                 OpenAfter(parsed[pos]), pos + 1)
<1> DEFINE p == parsed[pos]
           S == SentAfter(p)
           B == StartAfter(p)
           O == OpenAfter(p)
           n == Len(projected)
<1>1. /\ Sourced /\ Paired(parsed) /\ pos \in DOMAIN parsed /\ pos \in Nat
      /\ DOMAIN parsed = 1 .. Len(parsed) /\ Len(parsed) \in Nat
      /\ Batched(parsed, projected, batchStart, open, pos)
      /\ batchStart # NoBatch => open # {}
  <2>1. DOMAIN parsed = 1 .. Len(parsed) /\ Len(parsed) \in Nat
    BY Sequences DEF HistoryInv, Sourced
  <2>2. QED
    BY <2>1 DEF HistoryInv, Projecting, Projected, Sourced
<1>2. /\ GrokValue(p).kind = "function_call" <=> IsCall(p)
      /\ IsResult(GrokValue(p)) <=> IsOutput(p)
      /\ IsCall(p) \/ IsOutput(p) => GrokValue(p).call = p.call
      /\ Comment(GrokValue(p)) <=> Comment(p)
      /\ Comment(p) => ~IsCall(p) /\ ~IsOutput(p) /\ Projectable(p)
      /\ IsCall(p) \/ IsOutput(p) => Projectable(p)
      /\ ~(IsCall(p) /\ IsOutput(p))
  BY <1>1, ParsedKeeps
<1>3. /\ IsSequence(S) /\ n \in Nat /\ DOMAIN projected = 1 .. n
      /\ Len(S) = IF Projectable(p) THEN n + 1 ELSE n
      /\ DOMAIN S = 1 .. Len(S)
      /\ \A k \in 1 .. n : k \in DOMAIN S /\ S[k] = projected[k]
      /\ Projectable(p) => S[n + 1] = GrokValue(p)
  BY <1>1, SentElements DEF Batched, BatchOf
<1>4. OpensBatch(p) <=>
        IsCall(p) /\ \E r \in DOMAIN parsed : IsOutput(parsed[r]) /\ parsed[r].call = p.call
  BY DEF OpensBatch, Completed, IsCall, IsOutput
<1>5. /\ OpensBatch(p) => O = open \cup {p.call} /\ IsCall(p)
      /\ IsOutput(p) => O = open \ {p.call}
      /\ ~OpensBatch(p) /\ ~IsOutput(p) => O = open
  BY <1>2, <1>4 DEF OpenAfter, IsOutput
<1>6. /\ B = IF OpensBatch(p) /\ batchStart = NoBatch THEN n ELSE batchStart
      /\ batchStart \in {NoBatch} \cup 0 .. n
      /\ open # {} => batchStart # NoBatch
      /\ batchStart # NoBatch => open # {}
  BY <1>1, <1>3 DEF StartAfter, Batched, BatchOf
<1> HIDE DEF S, B, O
<1>7. \A k \in DOMAIN S : k \in 1 .. n \/ (k = n + 1 /\ Projectable(p) /\ S[k] = GrokValue(p))
  BY <1>3
<1>8. BatchOf(S, B, O)
  <2>1. B \in {NoBatch} \cup 0 .. Len(S)
    BY <1>3, <1>6
  <2>2. O # {} => B # NoBatch
    BY <1>1, <1>2, <1>3, <1>5, <1>6 DEF NoBatch
  <2>3. ASSUME NEW k \in DOMAIN S, B # NoBatch, B < k PROVE ~Comment(S[k])
    <3>1. CASE k \in 1 .. n
      <4>1. batchStart # NoBatch /\ batchStart < k
        BY <1>3, <1>6, <2>3, <3>1
      <4>2. QED
        BY <1>1, <1>3, <3>1, <4>1 DEF Batched, BatchOf
    <3>2. CASE k \notin 1 .. n
      <4>1. S[k] = GrokValue(p)
        BY <1>7, <3>2
      <4>2. ~Comment(p)
        BY <1>2, <1>5, <1>6, <2>3
      <4>3. QED
        BY <1>2, <4>1, <4>2
    <3>3. QED
      BY <3>1, <3>2
  <2>4. ASSUME NEW c \in O
        PROVE  \E k \in DOMAIN S : B < k /\ S[k].kind = "function_call" /\ S[k].call = c
    <3>1. CASE c \in open
      <4>1. PICK k \in DOMAIN projected :
              batchStart < k /\ projected[k].kind = "function_call" /\ projected[k].call = c
        BY <1>1, <3>1 DEF Batched, BatchOf
      <4>2. B = batchStart
        BY <1>6, <3>1
      <4>3. QED
        BY <1>3, <4>1, <4>2
    <3>2. CASE c \notin open
      <4>1. OpensBatch(p) /\ c = p.call /\ IsCall(p)
        BY <1>5, <2>4, <3>2
      <4>2. n + 1 \in DOMAIN S /\ S[n + 1] = GrokValue(p) /\ B < n + 1
        BY <1>2, <1>3, <1>6, <4>1 DEF NoBatch
      <4>3. QED
        BY <1>2, <4>1, <4>2
    <3>3. QED
      BY <3>1, <3>2
  <2>5. QED
    BY <1>3, <2>1, <2>2, <2>3, <2>4 DEF BatchOf
<1>9. Waiting(parsed, O, pos + 1)
  <2> SUFFICES ASSUME NEW c \in DOMAIN parsed, NEW r \in DOMAIN parsed,
                      IsCall(parsed[c]), IsOutput(parsed[r]), parsed[c].call = parsed[r].call,
                      c < pos + 1, pos + 1 <= r
               PROVE  parsed[r].call \in O
    BY DEF Waiting
  <2>1. CASE c < pos
    <3>1. parsed[r].call \in open
      BY <1>1, <2>1 DEF Batched, Waiting
    <3>2. ~(IsOutput(p) /\ p.call = parsed[r].call)
      BY <1>1 DEF Paired
    <3>3. QED
      BY <1>5, <3>1, <3>2
  <2>2. CASE c = pos
    BY <1>4, <1>5, <2>2
  <2>3. QED
    BY <1>1, <2>1, <2>2
<1>10. ResultsRead(parsed, S, pos + 1)
  <2> SUFFICES ASSUME NEW k \in DOMAIN S, IsResult(S[k])
               PROVE  \E r \in DOMAIN parsed : /\ r < pos + 1 /\ IsOutput(parsed[r])
                                               /\ parsed[r].call = S[k].call
    BY DEF ResultsRead
  <2>1. CASE k \in 1 .. n
    <3>1. PICK r \in DOMAIN parsed : /\ r < pos /\ IsOutput(parsed[r])
                                     /\ parsed[r].call = projected[k].call
      BY <1>1, <1>3, <2>1 DEF Batched, ResultsRead
    <3>2. QED
      BY <1>1, <1>3, <2>1, <3>1
  <2>2. CASE k \notin 1 .. n
    BY <1>1, <1>2, <1>7, <2>2
  <2>3. QED
    BY <2>1, <2>2
<1>11. SentPaired(S, B)
  <2> SUFFICES ASSUME NEW r \in DOMAIN S, IsResult(S[r])
               PROVE  /\ \A o \in DOMAIN S \ {r} : IsResult(S[o]) => S[o].call # S[r].call
                      /\ \E c \in 1 .. r :
                           /\ S[c].kind = "function_call" /\ S[c].call = S[r].call
                           /\ B < r => B < c
                           /\ \A k \in c .. r : ~Comment(S[k])
    BY DEF SentPaired
  <2>1. ASSUME NEW k \in 1 .. n, IsResult(projected[k]), IsOutput(p)
        PROVE  projected[k].call # p.call
    <3>1. PICK q \in DOMAIN parsed : /\ q < pos /\ IsOutput(parsed[q])
                                     /\ parsed[q].call = projected[k].call
      BY <1>1, <1>3, <2>1 DEF Batched, ResultsRead
    <3>2. QED
      BY <1>1, <2>1, <3>1 DEF Paired
  <2>2. \A o \in DOMAIN S \ {r} : IsResult(S[o]) => S[o].call # S[r].call
    <3> SUFFICES ASSUME NEW o \in DOMAIN S \ {r}, IsResult(S[o]) PROVE S[o].call # S[r].call
      OBVIOUS
    <3>1. CASE o \in 1 .. n /\ r \in 1 .. n
      BY <1>1, <1>3, <3>1 DEF Batched, SentPaired
    <3>2. CASE o \notin 1 .. n
      <4>1. r \in 1 .. n /\ IsOutput(p) /\ S[o].call = p.call
        BY <1>2, <1>7, <3>2
      <4>2. QED
        BY <1>3, <2>1, <4>1
    <3>3. CASE r \notin 1 .. n
      <4>1. o \in 1 .. n /\ IsOutput(p) /\ S[r].call = p.call
        BY <1>2, <1>7, <3>3
      <4>2. QED
        BY <1>3, <2>1, <4>1
    <3>4. QED
      BY <3>1, <3>2, <3>3
  <2>3. CASE r \in 1 .. n
    <3>1. PICK c \in 1 .. r : /\ projected[c].kind = "function_call"
                              /\ projected[c].call = projected[r].call
                              /\ batchStart < r => batchStart < c
                              /\ \A k \in c .. r : ~Comment(projected[k])
      BY <1>1, <1>3, <2>3 DEF Batched, SentPaired
    <3>2. B < r => B < c
      BY <1>3, <1>6, <2>3, <3>1
    <3>3. \A k \in c .. r : k \in 1 .. n
      BY <1>3, <2>3
    <3>4. S[c] = projected[c] /\ S[r] = projected[r] /\ \A k \in c .. r : S[k] = projected[k]
      BY <1>3, <2>3, <3>3
    <3>5. QED
      BY <2>2, <3>1, <3>2, <3>4
  <2>4. CASE r \notin 1 .. n
    <3>1. r = n + 1 /\ S[r] = GrokValue(p) /\ IsOutput(p) /\ S[r].call = p.call
      BY <1>2, <1>7, <2>4
    <3>2. PICK j \in DOMAIN parsed : j < pos /\ IsCall(parsed[j]) /\ parsed[j].call = p.call
      BY <1>1, <3>1 DEF Paired
    <3>3. p.call \in open
      BY <1>1, <3>1, <3>2 DEF Batched, Waiting
    <3>4. PICK c \in DOMAIN projected : /\ batchStart < c /\ projected[c].kind = "function_call"
                                        /\ projected[c].call = p.call
      BY <1>1, <3>3 DEF Batched, BatchOf
    <3>5. B = batchStart /\ batchStart # NoBatch
      BY <1>6, <3>3
    <3>6. ASSUME NEW k \in c .. r PROVE ~Comment(S[k])
      <4>1. CASE k \in 1 .. n
        <5>1. batchStart < k
          BY <1>3, <1>6, <3>4, <3>5, <3>6, <4>1 DEF NoBatch
        <5>2. QED
          BY <1>1, <1>3, <3>5, <4>1, <5>1 DEF Batched, BatchOf
      <4>2. CASE k \notin 1 .. n
        <5>1. k = r
          BY <1>3, <3>1, <3>4, <3>6, <4>2
        <5>2. QED
          BY <1>2, <3>1, <5>1
      <4>3. QED
        BY <4>1, <4>2
    <3>7. c \in 1 .. r /\ S[c] = projected[c]
      BY <1>3, <3>1, <3>4
    <3>8. QED
      BY <2>2, <3>1, <3>4, <3>5, <3>6, <3>7
  <2>5. QED
    BY <2>3, <2>4
<1>12. QED
  BY <1>8, <1>9, <1>10, <1>11 DEF Batched, S, B, O

-------------------------------------------------------------------------------
(* Every step keeps the invariant.                                           *)

\* An item that parse_input adds is the last one.
LEMMA AddKeeps ==
  ASSUME HistoryInv, Parsing, NEW item, item = Parsed(Item, pos),
         parsed' = Append(parsed, item), pos' = pos + 1,
         UNCHANGED <<input, phase, history>>
  PROVE  /\ Sourced' /\ DOMAIN parsed = 1 .. Len(parsed) /\ Len(parsed) \in Nat
         /\ DOMAIN parsed' = 1 .. Len(parsed) + 1
         /\ \A k \in 1 .. Len(parsed) : parsed'[k] = parsed[k]
         /\ parsed'[Len(parsed) + 1] = item
<1> DEFINE n == Len(parsed)
<1>1. Sourced /\ phase = "parse" /\ pos <= Len(input) /\ DOMAIN input = 1 .. Len(input)
      /\ Len(input) \in Nat /\ pos \in Nat \ {0}
  BY Sequences DEF HistoryInv, Parsing, Sourced
<1>2. /\ IsSequence(parsed') /\ n \in Nat /\ DOMAIN parsed = 1 .. n
      /\ DOMAIN parsed' = 1 .. n + 1
      /\ \A k \in 1 .. n : parsed'[k] = parsed[k]
      /\ parsed'[n + 1] = item
  BY <1>1, Appended DEF Sourced
<1>3. item.at = pos /\ pos \in DOMAIN input /\ item = Parsed(input[pos], pos)
  BY <1>1, ParsedFields DEF Item
<1> HIDE DEF n
<1>4. ASSUME NEW k \in DOMAIN parsed'
      PROVE  /\ parsed'[k].at \in DOMAIN input'
             /\ parsed'[k] = Parsed(input'[parsed'[k].at], parsed'[k].at)
             /\ parsed'[k].at < pos'
             /\ k # n + 1 => parsed'[k].at < pos
  <2>1. CASE k \in 1 .. n
    <3>1. /\ parsed[k].at \in DOMAIN input /\ parsed[k].at < pos
          /\ parsed[k] = Parsed(input[parsed[k].at], parsed[k].at)
      BY <1>1, <1>2, <2>1 DEF Sourced
    <3>2. parsed[k].at \in Nat
      BY <1>1, <3>1
    <3>3. QED
      BY <1>1, <1>2, <2>1, <3>1, <3>2
  <2>2. CASE k = n + 1
    BY <1>1, <1>2, <1>3, <2>2
  <2>3. QED
    BY <1>2, <2>1, <2>2
<1>5. ASSUME NEW j \in DOMAIN parsed', NEW k \in DOMAIN parsed', j < k
      PROVE  parsed'[j].at < parsed'[k].at
  <2>1. CASE k \in 1 .. n
    <3>1. j \in 1 .. n
      BY <1>2, <1>5, <2>1
    <3>2. QED
      BY <1>1, <1>2, <1>5, <2>1, <3>1 DEF Sourced
  <2>2. CASE k = n + 1
    <3>1. j # n + 1 /\ parsed'[k].at = pos
      BY <1>2, <1>3, <1>5, <2>2
    <3>2. QED
      BY <1>4, <3>1
  <2>3. QED
    BY <1>2, <2>1, <2>2
<1>6. IsSequence(history)' /\ IsSequence(input)' /\ pos' \in Nat \ {0}
  BY <1>1 DEF Sourced, IsSequence
<1>7. Sourced'
  BY <1>1, <1>2, <1>4, <1>5, <1>6 DEF Sourced
<1>8. QED
  BY <1>2, <1>7 DEF n

\* parse_input.
LEMMA ParseKeeps ==
  ASSUME HistoryInv, Parse, UNCHANGED history
  PROVE  HistoryInv'
<1> DEFINE n == Len(parsed)
<1>1. Sourced /\ IdsKept /\ Paired(parsed) /\ Projected /\ phase = "parse"
  BY DEF HistoryInv, Parse, SkipUnknown, RejectMalformed, RejectUnmatched, DropDuplicate,
         AcceptOutput, AcceptCall, AcceptOther, ParsedAll, Parsing
<1>2. CASE SkipUnknown \/ DropDuplicate
  <2>1. UNCHANGED <<history, input, phase, calls, outputs, parsed, projectVars>> /\ pos' = pos + 1
    BY <1>2 DEF SkipUnknown, DropDuplicate
  <2>2. \A k \in DOMAIN parsed : parsed[k].at \in Nat
    BY <1>1, Sequences DEF Sourced
  <2>3. \A k \in DOMAIN parsed : parsed[k].at < pos'
    BY <1>1, <2>1, <2>2 DEF Sourced
  <2>4. IsSequence(history)' /\ IsSequence(input)' /\ IsSequence(parsed)' /\ pos' \in Nat \ {0}
    BY <1>1, <2>1 DEF Sourced, IsSequence
  <2>5. Sourced'
    BY <1>1, <2>1, <2>3, <2>4 DEF Sourced
  <2>6. QED
    BY <1>1, <2>1, <2>5 DEF HistoryInv, IdsKept, Paired, Projected, projectVars
<1>3. CASE RejectMalformed \/ RejectUnmatched
  <2>1. /\ UNCHANGED <<history, input, pos, calls, outputs, parsed, projectVars>>
        /\ phase' = "rejected"
    BY <1>3 DEF RejectMalformed, RejectUnmatched
  <2>2. Sourced'
    BY <1>1, <2>1 DEF Sourced, IsSequence
  <2>3. QED
    BY <1>1, <2>1, <2>2 DEF HistoryInv, IdsKept, Paired, Projected
<1>4. CASE AcceptOutput \/ AcceptCall \/ AcceptOther
  <2> DEFINE item == Parsed(Item, pos)
  <2>1. /\ Parsing /\ parsed' = Append(parsed, item) /\ pos' = pos + 1
        /\ UNCHANGED <<history, input, phase, projectVars>>
    BY <1>4 DEF AcceptOutput, AcceptCall, AcceptOther
  <2>2. /\ Sourced' /\ DOMAIN parsed = 1 .. n /\ n \in Nat
        /\ DOMAIN parsed' = 1 .. n + 1
        /\ \A k \in 1 .. n : parsed'[k] = parsed[k]
        /\ parsed'[n + 1] = item
    BY <2>1, AddKeeps
  <2>3. Projected'
    BY <1>1, <2>1 DEF Projected, projectVars
  <2>4. /\ IsCall(item) <=> Item.type \in CallTypes
        /\ IsOutput(item) <=> Item.type \in OutputTypes
        /\ Item.type \in CallTypes \cup OutputTypes => item.call = Item.call
    BY ParsedFields
  <2> HIDE DEF n, item
  <2>5. IdsKept'
    <3>1. /\ calls' = IF IsCall(item) THEN calls \cup {item.call} ELSE calls
          /\ IsOutput(item) => item.call \in outputs'
          /\ outputs \subseteq outputs'
      BY <1>4, <2>4 DEF AcceptOutput, AcceptCall, AcceptOther, CallTypes, OutputTypes
    <3>2. ASSUME NEW c \in calls'
          PROVE  \E k \in DOMAIN parsed' : IsCall(parsed'[k]) /\ parsed'[k].call = c
      <4>1. CASE c \in calls
        <5>1. PICK k \in DOMAIN parsed : IsCall(parsed[k]) /\ parsed[k].call = c
          BY <1>1, <4>1 DEF IdsKept
        <5>2. QED
          BY <2>2, <5>1
      <4>2. CASE c \notin calls
        <5>1. IsCall(item) /\ item.call = c /\ n + 1 \in DOMAIN parsed'
          BY <2>2, <3>1, <3>2, <4>2
        <5>2. QED
          BY <2>2, <5>1
      <4>3. QED
        BY <4>1, <4>2
    <3>3. ASSUME NEW r \in DOMAIN parsed', IsOutput(parsed'[r])
          PROVE  parsed'[r].call \in outputs'
      <4>1. CASE r \in 1 .. n
        BY <1>1, <2>2, <3>1, <3>3, <4>1 DEF IdsKept
      <4>2. CASE r = n + 1
        BY <2>2, <3>1, <3>3, <4>2
      <4>3. QED
        BY <2>2, <4>1, <4>2
    <3>4. QED
      BY <3>2, <3>3 DEF IdsKept
  <2>6. Paired(parsed')
    <3>1. IsOutput(item) => item.call \in calls /\ item.call \notin outputs
      BY <1>4, <2>4 DEF AcceptOutput, AcceptCall, AcceptOther, CallTypes, OutputTypes
    <3> SUFFICES ASSUME NEW r \in DOMAIN parsed', IsOutput(parsed'[r])
                 PROVE  /\ \E c \in DOMAIN parsed' :
                             /\ c < r /\ IsCall(parsed'[c])
                             /\ parsed'[c].call = parsed'[r].call
                        /\ \A o \in DOMAIN parsed' :
                             /\ IsOutput(parsed'[o]) /\ parsed'[o].call = parsed'[r].call => o = r
      BY DEF Paired
    <3>2. ASSUME NEW k \in 1 .. n, IsOutput(parsed[k]), IsOutput(item)
          PROVE  parsed[k].call # item.call
      BY <1>1, <2>2, <3>1, <3>2 DEF IdsKept
    <3>3. \E c \in DOMAIN parsed' :
            c < r /\ IsCall(parsed'[c]) /\ parsed'[c].call = parsed'[r].call
      <4>1. CASE r \in 1 .. n
        <5>1. PICK c \in DOMAIN parsed : c < r /\ IsCall(parsed[c]) /\ parsed[c].call = parsed[r].call
          BY <1>1, <2>2, <4>1 DEF Paired
        <5>2. QED
          BY <2>2, <4>1, <5>1
      <4>2. CASE r = n + 1
        <5>1. PICK c \in DOMAIN parsed : IsCall(parsed[c]) /\ parsed[c].call = item.call
          BY <1>1, <2>2, <3>1, <4>2 DEF IdsKept
        <5>2. QED
          BY <2>2, <4>2, <5>1
      <4>3. QED
        BY <2>2, <4>1, <4>2
    <3>4. ASSUME NEW o \in DOMAIN parsed', IsOutput(parsed'[o]), parsed'[o].call = parsed'[r].call
          PROVE  o = r
      <4>1. CASE o \in 1 .. n /\ r \in 1 .. n
        BY <1>1, <2>2, <3>4, <4>1 DEF Paired
      <4>2. CASE o = n + 1 /\ r \in 1 .. n
        BY <2>2, <3>2, <3>4, <4>2
      <4>3. CASE o \in 1 .. n /\ r = n + 1
        BY <2>2, <3>2, <3>4, <4>3
      <4>4. QED
        BY <2>2, <4>1, <4>2, <4>3
    <3>5. QED
      BY <3>3, <3>4
  <2>7. QED
    BY <2>2, <2>3, <2>5, <2>6 DEF HistoryInv, Paired
<1>5. CASE ParsedAll
  <2>1. /\ phase' = "project" /\ pos' = 1
        /\ UNCHANGED <<history, input, calls, outputs, parsed, projectVars>>
    BY <1>5 DEF ParsedAll
  <2>2. Sourced'
    BY <1>1, <2>1 DEF Sourced, IsSequence
  <2>3. open' = {} /\ batchStart' = NoBatch /\ deferred' = <<>> /\ projected' = <<>>
    BY <1>1, <2>1 DEF Projected, projectVars
  <2>4. Batched(parsed', <<>>, NoBatch, {}, 1)
    <3>1. \A c \in DOMAIN parsed' : ~(c < 1)
      <4>1. DOMAIN parsed' = 1 .. Len(parsed')
        BY <2>2, Sequences DEF Sourced
      <4>2. QED
        BY <4>1
    <3>2. QED
      BY <3>1, NoItems DEF Batched, BatchOf, Waiting, ResultsRead, SentPaired
  <2>5. Comments(<<>>)
    BY NoItems DEF Comments
  <2>6. Projected'
    BY <2>1, <2>3, <2>4, <2>5 DEF Projected
  <2>7. QED
    BY <1>1, <2>1, <2>2, <2>6 DEF HistoryInv, IdsKept, Paired
<1>6. QED
  BY <1>2, <1>3, <1>4, <1>5 DEF Parse

\* A batch that is over, with its comments in front of it.
LEMMA MoveKeeps ==
  ASSUME NEW items, NEW sent, NEW held, NEW start \in 0 .. Len(sent), NEW next,
         Batched(items, sent, start, {}, next), Comments(held)
  PROVE  Batched(items, Moved(sent, start, held), NoBatch, {}, next)
<1> DEFINE m == Moved(sent, start, held)
<1>1. IsSequence(sent) /\ IsSequence(held) /\ start # NoBatch
  <2>1. Len(sent) \in Nat
    BY Sequences DEF Batched, BatchOf
  <2>2. QED
    BY <2>1 DEF Batched, BatchOf, Comments, NoBatch
<1>2. IsSequence(m)
  BY <1>1, MovedElements
<1>3. BatchOf(m, NoBatch, {})
  BY <1>2 DEF BatchOf
<1>4. SentPaired(m, NoBatch)
  BY <1>1, MovePaired DEF Batched, BatchOf
<1>5. ResultsRead(items, m, next)
  <2> SUFFICES ASSUME NEW k \in DOMAIN m, IsResult(m[k])
               PROVE  \E r \in DOMAIN items : /\ r < next /\ IsOutput(items[r])
                                              /\ items[r].call = m[k].call
    BY DEF ResultsRead
  <2>1. ~\E h \in DOMAIN held : k = start + h /\ m[k] = held[h]
    BY DEF Comments, Comment, IsResult
  <2>2. PICK j \in DOMAIN sent : m[k] = sent[j]
    BY <1>1, <2>1, MovedFrom
  <2>3. QED
    BY <2>2 DEF Batched, ResultsRead
<1>6. QED
  BY <1>3, <1>4, <1>5 DEF Batched

\* project_input_for_xai.
LEMMA ProjectKeeps ==
  ASSUME HistoryInv, Project, UNCHANGED history
  PROVE  HistoryInv'
<1>1. /\ Sourced /\ IdsKept /\ Paired(parsed) /\ Projected /\ phase = "project"
      /\ UNCHANGED <<input, calls, outputs, parsed>> /\ phase' \in {"project", "ready"}
      /\ pos' \in {pos, pos + 1}
  BY DEF HistoryInv, Project, DeferComment, ProjectItem, ProjectedAll, Projecting, parseVars
<1>2. Sourced' /\ IdsKept' /\ Paired(parsed')
  <2>1. pos' \in Nat \ {0}
    BY <1>1 DEF Sourced
  <2>2. Sourced'
    BY <1>1, <2>1 DEF Sourced, IsSequence
  <2>3. QED
    BY <1>1, <2>2 DEF IdsKept, Paired
<1>3. /\ Batched(parsed, projected, batchStart, open, pos)
      /\ Comments(deferred)
      /\ batchStart # NoBatch => open # {}
      /\ batchStart = NoBatch => deferred = <<>>
  BY <1>1 DEF Projected
<1>4. CASE DeferComment
  <2> DEFINE p == parsed[pos]
  <2>1. /\ Projecting /\ Comment(p) /\ open # {}
        /\ deferred' = Append(deferred, GrokValue(p)) /\ pos' = pos + 1
        /\ UNCHANGED <<phase, open, batchStart, projected>>
    BY <1>4 DEF DeferComment
  <2>2. pos \in DOMAIN parsed /\ pos \in Nat /\ DOMAIN parsed \subseteq Nat
    <3>1. DOMAIN parsed = 1 .. Len(parsed) /\ Len(parsed) \in Nat
      BY <1>1, Sequences DEF Sourced
    <3>2. QED
      BY <1>1, <2>1, <3>1 DEF Sourced, Projecting
  <2>3. Comment(GrokValue(p)) /\ ~IsCall(p)
    BY <1>1, <2>1, <2>2, ParsedKeeps
  <2>4. Comments(deferred')
    <3>1. /\ IsSequence(deferred') /\ DOMAIN deferred = 1 .. Len(deferred) /\ Len(deferred) \in Nat
          /\ DOMAIN deferred' = 1 .. Len(deferred) + 1
          /\ \A k \in 1 .. Len(deferred) : deferred'[k] = deferred[k]
          /\ deferred'[Len(deferred) + 1] = GrokValue(p)
      BY <1>3, <2>1, Appended DEF Comments
    <3>2. ASSUME NEW k \in DOMAIN deferred' PROVE Comment(deferred'[k])
      <4>1. CASE k \in 1 .. Len(deferred)
        BY <1>3, <3>1, <4>1 DEF Comments
      <4>2. CASE k = Len(deferred) + 1
        BY <2>3, <3>1, <4>2
      <4>3. QED
        BY <3>1, <4>1, <4>2
    <3>3. QED
      BY <3>1, <3>2 DEF Comments
  <2>5. Waiting(parsed, open, pos + 1)
    <3> SUFFICES ASSUME NEW c \in DOMAIN parsed, NEW r \in DOMAIN parsed,
                        IsCall(parsed[c]), IsOutput(parsed[r]), parsed[c].call = parsed[r].call,
                        c < pos + 1, pos + 1 <= r
                 PROVE  parsed[r].call \in open
      BY DEF Waiting
    <3>1. c # pos /\ c \in Nat /\ r \in Nat
      BY <2>2, <2>3
    <3>2. c < pos /\ pos <= r
      BY <2>2, <3>1
    <3>3. QED
      BY <1>3, <3>2 DEF Batched, Waiting
  <2>6. ResultsRead(parsed, projected, pos + 1)
    <3>1. \A r \in DOMAIN parsed : r < pos => r < pos + 1
      BY <2>2
    <3>2. QED
      BY <1>3, <3>1 DEF Batched, ResultsRead
  <2>7. Batched(parsed, projected, batchStart, open, pos + 1)
    BY <1>3, <2>5, <2>6 DEF Batched
  <2>8. batchStart # NoBatch
    BY <1>3, <2>1 DEF Batched, BatchOf
  <2>9. Projected'
    BY <1>1, <1>3, <2>1, <2>4, <2>7, <2>8 DEF Projected
  <2>10. QED
    BY <1>2, <2>9 DEF HistoryInv
<1>5. CASE ProjectItem
  <2> DEFINE p == parsed[pos]
  <2>1. /\ Projecting /\ ~(Comment(p) /\ open # {}) /\ open' = OpenAfter(p) /\ pos' = pos + 1
        /\ phase' = "project"
    BY <1>1, <1>5 DEF ProjectItem
  <2>2. Batched(parsed, SentAfter(p), StartAfter(p), OpenAfter(p), pos + 1)
    BY <2>1, SendKeeps
  <2>3. CASE OpenAfter(p) = {} /\ StartAfter(p) # NoBatch
    <3>1. /\ projected' = Moved(SentAfter(p), StartAfter(p), deferred)
          /\ deferred' = <<>> /\ batchStart' = NoBatch
      BY <1>5, <2>3 DEF ProjectItem, CommentsMoved, Moved
    <3>2. StartAfter(p) \in 0 .. Len(SentAfter(p))
      BY <2>2, <2>3 DEF Batched, BatchOf
    <3>3. Batched(parsed, projected', NoBatch, {}, pos + 1)
      BY <1>3, <2>2, <2>3, <3>1, <3>2, MoveKeeps
    <3>4. Projected'
      BY <1>1, <2>1, <2>3, <3>1, <3>3, NoItems DEF Projected, Comments
    <3>5. QED
      BY <1>2, <3>4 DEF HistoryInv
  <2>4. CASE ~(OpenAfter(p) = {} /\ StartAfter(p) # NoBatch)
    <3>1. projected' = SentAfter(p) /\ batchStart' = StartAfter(p) /\ deferred' = deferred
      BY <1>5, <2>4 DEF ProjectItem
    <3>2. batchStart' # NoBatch => open' # {}
      BY <2>1, <2>4, <3>1
    <3>3. batchStart' = NoBatch => batchStart = NoBatch
      BY <3>1 DEF StartAfter
    <3>4. Projected'
      BY <1>1, <1>3, <2>1, <2>2, <3>1, <3>2, <3>3 DEF Projected
    <3>5. QED
      BY <1>2, <3>4 DEF HistoryInv
  <2>5. QED
    BY <2>3, <2>4
<1>6. CASE ProjectedAll
  <2>1. phase' = "ready" /\ projected' = IF batchStart = NoBatch THEN projected
                                         ELSE Moved(projected, batchStart, deferred)
    BY <1>6 DEF ProjectedAll, CommentsMoved, Moved
  <2>2. SentPaired(projected', NoBatch)
    <3>1. CASE batchStart = NoBatch
      BY <1>3, <2>1, <3>1 DEF Batched
    <3>2. CASE batchStart # NoBatch
      <4>1. batchStart \in 0 .. Len(projected)
        BY <1>3, <3>2 DEF Batched, BatchOf
      <4>2. QED
        BY <1>3, <2>1, <3>2, <4>1, MovePaired DEF Batched, BatchOf
    <3>3. QED
      BY <3>1, <3>2
  <2>3. QED
    BY <1>2, <2>1, <2>2 DEF HistoryInv, Projected
<1>7. QED
  BY <1>4, <1>5, <1>6 DEF Project

-------------------------------------------------------------------------------
(* What RecordKept needs besides, as long as no two calls have one id.       *)

CallsOnce ==
  \A i, j \in DOMAIN input :
    input[i].type \in CallTypes /\ input[j].type \in CallTypes /\ input[i].call = input[j].call
      => i = j

Single(items) ==
  \A i, j \in DOMAIN items :
    IsCall(items[i]) /\ IsCall(items[j]) /\ items[i].call = items[j].call => i = j

Times(s) == {s[k].at : k \in DOMAIN s}

\* Nothing that is read is lost, neither what is sent nor what is kept back.
Complete(items, sent, held, next) ==
  Times(sent) \cup Times(held) =
    {items[k].at : k \in {j \in DOMAIN items : j < next /\ Projectable(items[j])}}

\* All the time a call was waiting.
RunningFrom(items, first, last) ==
  \A at \in first .. last :
    \E c, r \in DOMAIN items :
      /\ IsCall(items[c]) /\ IsOutput(items[r]) /\ items[c].call = items[r].call
      /\ items[c].at <= at /\ at < items[r].at

\* What RecordKept says of the order.
Ordered(items, sent) ==
  \A i, j \in DOMAIN sent : i < j =>
    \/ sent[i].at < sent[j].at
    \/ /\ Comment(sent[i]) /\ ~Comment(sent[j]) /\ sent[j].at < sent[i].at
       /\ RunningFrom(items, sent[j].at, sent[i].at - 1)

\* The comments kept back are in order and behind all that stands before the
\* batch, and a call ran since whatever they follow in it.
HeldBack(items, sent, start, held) ==
  /\ \A i, j \in DOMAIN held : i < j => held[i].at < held[j].at
  /\ \A i \in DOMAIN held, k \in DOMAIN sent :
       /\ sent[k].at # held[i].at
       /\ k <= start => sent[k].at < held[i].at
       /\ start < k /\ sent[k].at < held[i].at =>
            RunningFrom(items, sent[k].at, held[i].at - 1)

\* The result of a call that waits is still to come.
Awaited(items, opened, next) ==
  \A c \in opened : \E j, r \in DOMAIN items :
    /\ IsCall(items[j]) /\ IsOutput(items[r])
    /\ items[j].call = c /\ items[r].call = c /\ j < next /\ next <= r

\* Since the batch began, a call has been running.
RunningSince(items, sent, start, next) ==
  start # NoBatch /\ next \in DOMAIN items =>
    \A k \in DOMAIN sent : start < k => RunningFrom(items, sent[k].at, items[next].at - 1)

Retained(items, sent, start, opened, held, next) ==
  /\ Complete(items, sent, held, next)
  /\ Ordered(items, sent)
  /\ HeldBack(items, sent, start, held)
  /\ Awaited(items, opened, next)
  /\ opened # {} => RunningSince(items, sent, start, next)

RecordInv ==
  Single(parsed) =>
    /\ phase = "project" => Retained(parsed, projected, batchStart, open, deferred, pos)
    /\ phase = "ready" =>
         /\ Complete(parsed, projected, <<>>, Len(parsed) + 1)
         /\ Ordered(parsed, projected)

\* While a call waits, it runs from the item before to the next one.
LEMMA Span ==
  ASSUME Sourced, NEW opened, NEW next \in DOMAIN parsed, next - 1 \in DOMAIN parsed,
         Awaited(parsed, opened, next), opened # {}
  PROVE  RunningFrom(parsed, parsed[next - 1].at, parsed[next].at - 1)
<1>1. PICK j \in DOMAIN parsed : \E r \in DOMAIN parsed :
        /\ IsCall(parsed[j]) /\ IsOutput(parsed[r])
        /\ parsed[j].call = parsed[r].call /\ j < next /\ next <= r
  BY DEF Awaited
<1>2. PICK r \in DOMAIN parsed :
        /\ IsCall(parsed[j]) /\ IsOutput(parsed[r])
        /\ parsed[j].call = parsed[r].call /\ j < next /\ next <= r
  BY <1>1
<1>3. DOMAIN parsed = 1 .. Len(parsed) /\ Len(parsed) \in Nat
  BY Sequences DEF Sourced
<1>4. \A k \in DOMAIN parsed : parsed[k].at \in Nat
  BY Sequences DEF Sourced
<1>5. parsed[j].at <= parsed[next - 1].at
  <2>1. j = next - 1 \/ j < next - 1
    BY <1>2, <1>3
  <2>2. QED
    BY <1>4, <2>1 DEF Sourced
<1>6. parsed[next].at <= parsed[r].at
  <2>1. r = next \/ next < r
    BY <1>2, <1>3
  <2>2. QED
    BY <1>4, <2>1 DEF Sourced
<1>7. ASSUME NEW at \in parsed[next - 1].at .. parsed[next].at - 1
      PROVE  parsed[j].at <= at /\ at < parsed[r].at
  BY <1>4, <1>5, <1>6, <1>7
<1>8. QED
  BY <1>2, <1>7 DEF RunningFrom

\* A call that ran up to an item, and one that ran from there.
LEMMA RunningOn ==
  ASSUME NEW items, NEW first \in Nat, NEW middle \in Nat, NEW last \in Nat,
         RunningFrom(items, first, middle - 1), RunningFrom(items, middle, last - 1)
  PROVE  RunningFrom(items, first, last - 1)
<1> SUFFICES ASSUME NEW at \in first .. last - 1
             PROVE  \E c, r \in DOMAIN items :
                      /\ IsCall(items[c]) /\ IsOutput(items[r]) /\ items[c].call = items[r].call
                      /\ items[c].at <= at /\ at < items[r].at
  BY DEF RunningFrom
<1>1. at \in first .. middle - 1 \/ at \in middle .. last - 1
  OBVIOUS
<1>2. QED
  BY <1>1 DEF RunningFrom

\* What is sent, or kept back, was recorded before the next item.
LEMMA SentBefore ==
  ASSUME Sourced, NEW sent, NEW held, NEW next \in DOMAIN parsed,
         Complete(parsed, sent, held, next)
  PROVE  /\ parsed[next].at \in Nat
         /\ \A k \in DOMAIN sent : sent[k].at \in Nat /\ sent[k].at < parsed[next].at
         /\ \A k \in DOMAIN held : held[k].at \in Nat /\ held[k].at < parsed[next].at
<1>1. \A k \in DOMAIN parsed : parsed[k].at \in Nat
  BY Sequences DEF Sourced
<1>2. ASSUME NEW t \in Times(sent) \cup Times(held) PROVE t \in Nat /\ t < parsed[next].at
  <2>1. PICK j \in DOMAIN parsed : j < next /\ t = parsed[j].at
    BY <1>2 DEF Complete
  <2>2. QED
    BY <1>1, <2>1 DEF Sourced
<1>3. QED
  BY <1>1, <1>2 DEF Times

\* One item that is sent.
LEMMA RecordSend ==
  ASSUME HistoryInv, Projecting, ~(Comment(parsed[pos]) /\ open # {}), Single(parsed),
         Retained(parsed, projected, batchStart, open, deferred, pos)
  PROVE  Retained(parsed, SentAfter(parsed[pos]), StartAfter(parsed[pos]),
              OpenAfter(parsed[pos]), deferred, pos + 1)
<1> DEFINE p == parsed[pos]
           S == SentAfter(p)
           B == StartAfter(p)
           O == OpenAfter(p)
           n == Len(projected)
<1>1. /\ Sourced /\ Paired(parsed) /\ pos \in DOMAIN parsed /\ pos \in Nat
      /\ DOMAIN parsed = 1 .. Len(parsed) /\ Len(parsed) \in Nat
      /\ Batched(parsed, projected, batchStart, open, pos)
      /\ batchStart # NoBatch => open # {}
      /\ batchStart = NoBatch => deferred = <<>>
  <2>1. DOMAIN parsed = 1 .. Len(parsed) /\ Len(parsed) \in Nat
    BY Sequences DEF HistoryInv, Sourced
  <2>2. QED
    BY <2>1 DEF HistoryInv, Projecting, Projected, Sourced
<1>2. GrokValue(p).at = p.at /\ ~(IsCall(p) /\ IsOutput(p))
  BY <1>1, ParsedKeeps
<1>3. /\ n \in Nat /\ DOMAIN projected = 1 .. n
      /\ Len(S) = IF Projectable(p) THEN n + 1 ELSE n
      /\ DOMAIN S = 1 .. Len(S)
      /\ \A k \in 1 .. n : k \in DOMAIN S /\ S[k] = projected[k]
      /\ Projectable(p) => S[n + 1] = GrokValue(p)
  BY <1>1, SentElements DEF Batched, BatchOf
<1>4. OpensBatch(p) <=>
        IsCall(p) /\ \E r \in DOMAIN parsed : IsOutput(parsed[r]) /\ parsed[r].call = p.call
  BY DEF OpensBatch, Completed, IsCall, IsOutput
<1>5. /\ OpensBatch(p) => O = open \cup {p.call} /\ IsCall(p)
      /\ IsOutput(p) => O = open \ {p.call}
      /\ ~OpensBatch(p) /\ ~IsOutput(p) => O = open
  BY <1>2, <1>4 DEF OpenAfter, IsOutput
<1>6. /\ B = IF OpensBatch(p) /\ batchStart = NoBatch THEN n ELSE batchStart
      /\ batchStart \in {NoBatch} \cup 0 .. n
      /\ open # {} => batchStart # NoBatch
      /\ batchStart # NoBatch => open # {}
  BY <1>1, <1>3 DEF StartAfter, Batched, BatchOf
<1>7. /\ p.at \in Nat
      /\ \A k \in 1 .. n : projected[k].at \in Nat /\ projected[k].at < p.at
      /\ \A k \in DOMAIN deferred : deferred[k].at \in Nat /\ deferred[k].at < p.at
  BY <1>1, <1>3, SentBefore DEF Retained
<1> HIDE DEF S, B, O
<1>8. \A k \in DOMAIN S : k \in 1 .. n \/ (k = n + 1 /\ Projectable(p) /\ S[k].at = p.at)
  BY <1>2, <1>3
<1>9. Complete(parsed, S, deferred, pos + 1)
  <2>1. Times(S) = Times(projected) \cup (IF Projectable(p) THEN {p.at} ELSE {})
    <3>1. ASSUME NEW t \in Times(S)
          PROVE  t \in Times(projected) \cup (IF Projectable(p) THEN {p.at} ELSE {})
      <4>1. PICK k \in DOMAIN S : t = S[k].at
        BY <3>1 DEF Times
      <4>2. QED
        BY <1>3, <1>8, <4>1 DEF Times
    <3>2. ASSUME NEW t \in Times(projected) PROVE t \in Times(S)
      <4>1. PICK k \in DOMAIN projected : t = projected[k].at
        BY <3>2 DEF Times
      <4>2. QED
        BY <1>3, <4>1 DEF Times
    <3>3. ASSUME Projectable(p) PROVE p.at \in Times(S)
      <4>1. n + 1 \in DOMAIN S /\ S[n + 1].at = p.at
        BY <1>2, <1>3, <3>3
      <4>2. QED
        BY <4>1 DEF Times
    <3>4. QED
      BY <3>1, <3>2, <3>3
  <2> DEFINE read(next) == {j \in DOMAIN parsed : j < next /\ Projectable(parsed[j])}
  <2>2. read(pos + 1) = read(pos) \cup (IF Projectable(p) THEN {pos} ELSE {})
    BY <1>1
  <2>3. {parsed[k].at : k \in read(pos + 1)} =
          {parsed[k].at : k \in read(pos)} \cup (IF Projectable(p) THEN {p.at} ELSE {})
    BY <2>2
  <2>4. QED
    BY <2>1, <2>3 DEF Retained, Complete
<1>10. Ordered(parsed, S)
  <2> SUFFICES ASSUME NEW i \in DOMAIN S, NEW j \in DOMAIN S, i < j
               PROVE  \/ S[i].at < S[j].at
                      \/ /\ Comment(S[i]) /\ ~Comment(S[j]) /\ S[j].at < S[i].at
                         /\ RunningFrom(parsed, S[j].at, S[i].at - 1)
    BY DEF Ordered
  <2>1. CASE j \in 1 .. n
    <3>1. i \in 1 .. n
      BY <1>3, <2>1
    <3>2. QED
      BY <1>3, <2>1, <3>1 DEF Retained, Ordered
  <2>2. CASE j \notin 1 .. n
    <3>1. j = n + 1 /\ S[j].at = p.at /\ i \in 1 .. n
      BY <1>3, <1>8, <2>2
    <3>2. QED
      BY <1>3, <1>7, <3>1
  <2>3. QED
    BY <2>1, <2>2
<1>11. HeldBack(parsed, S, B, deferred)
  <2>1. ASSUME NEW i \in DOMAIN deferred, NEW k \in DOMAIN S
        PROVE  /\ S[k].at # deferred[i].at
               /\ k <= B => S[k].at < deferred[i].at
               /\ B < k /\ S[k].at < deferred[i].at =>
                    RunningFrom(parsed, S[k].at, deferred[i].at - 1)
    <3>1. batchStart # NoBatch /\ B = batchStart
      BY <1>1, <1>6, <2>1, NoItems
    <3>2. CASE k \in 1 .. n
      BY <1>3, <3>1, <3>2 DEF Retained, HeldBack
    <3>3. CASE k \notin 1 .. n
      <4>1. k = n + 1 /\ S[k].at = p.at
        BY <1>8, <3>3
      <4>2. deferred[i].at < p.at /\ deferred[i].at \in Nat
        BY <1>7
      <4>3. QED
        BY <1>3, <1>6, <1>7, <3>1, <4>1, <4>2
    <3>4. QED
      BY <3>2, <3>3
  <2>2. QED
    BY <2>1 DEF Retained, HeldBack
<1>12. Awaited(parsed, O, pos + 1)
  <2> SUFFICES ASSUME NEW c \in O
               PROVE  \E j, r \in DOMAIN parsed :
                        /\ IsCall(parsed[j]) /\ IsOutput(parsed[r])
                        /\ parsed[j].call = c /\ parsed[r].call = c
                        /\ j < pos + 1 /\ pos + 1 <= r
    BY DEF Awaited
  <2>1. CASE c \in open
    <3>1. PICK j \in DOMAIN parsed, r \in DOMAIN parsed :
            /\ IsCall(parsed[j]) /\ IsOutput(parsed[r])
            /\ parsed[j].call = c /\ parsed[r].call = c /\ j < pos /\ pos <= r
      BY <2>1 DEF Retained, Awaited
    <3>2. r # pos
      BY <1>5, <3>1
    <3>3. QED
      BY <1>1, <3>1, <3>2
  <2>2. CASE c \notin open
    <3>1. OpensBatch(p) /\ IsCall(p) /\ c = p.call
      BY <1>5, <2>2
    <3>2. PICK r \in DOMAIN parsed : IsOutput(parsed[r]) /\ parsed[r].call = c
      BY <1>4, <3>1
    <3>3. PICK j \in DOMAIN parsed : j < r /\ IsCall(parsed[j]) /\ parsed[j].call = c
      BY <3>2 DEF HistoryInv, Paired
    <3>4. j = pos
      BY <1>1, <3>1, <3>3 DEF Single
    <3>5. QED
      BY <1>1, <3>2, <3>3, <3>4
  <2>3. QED
    BY <2>1, <2>2
<1>13. ASSUME O # {} PROVE RunningSince(parsed, S, B, pos + 1)
  <2> SUFFICES ASSUME B # NoBatch, pos + 1 \in DOMAIN parsed, NEW k \in DOMAIN S, B < k
               PROVE  RunningFrom(parsed, S[k].at, parsed[pos + 1].at - 1)
    BY DEF RunningSince
  <2>1. RunningFrom(parsed, p.at, parsed[pos + 1].at - 1) /\ parsed[pos + 1].at \in Nat
    <3>1. pos + 1 - 1 = pos
      BY <1>1
    <3>2. parsed[pos + 1].at \in Nat
      BY <1>1, <1>9, SentBefore
    <3>3. QED
      BY <1>1, <1>12, <1>13, <3>1, <3>2, Span
  <2>2. CASE k \in 1 .. n
    <3>1. B = batchStart /\ batchStart # NoBatch /\ open # {}
      BY <1>3, <1>6, <2>2
    <3>2. RunningFrom(parsed, projected[k].at, p.at - 1)
      BY <1>1, <1>3, <2>2, <3>1 DEF Retained, RunningSince
    <3>3. projected[k].at \in Nat
      BY <1>7, <2>2
    <3>4. QED
      BY <1>3, <1>7, <2>1, <2>2, <3>2, <3>3, RunningOn
  <2>3. CASE k \notin 1 .. n
    BY <1>8, <2>1, <2>3
  <2>4. QED
    BY <2>2, <2>3
<1>14. QED
  BY <1>9, <1>10, <1>11, <1>12, <1>13 DEF Retained, S, B, O

\* One comment that is kept back.
LEMMA RecordDefer ==
  ASSUME HistoryInv, Projecting, Comment(parsed[pos]), open # {},
         Retained(parsed, projected, batchStart, open, deferred, pos)
  PROVE  Retained(parsed, projected, batchStart, open,
                  Append(deferred, GrokValue(parsed[pos])), pos + 1)
<1> DEFINE p == parsed[pos]
           D == Append(deferred, GrokValue(p))
           n == Len(deferred)
<1>1. /\ Sourced /\ pos \in DOMAIN parsed /\ pos \in Nat /\ DOMAIN parsed \subseteq Nat
      /\ batchStart # NoBatch /\ IsSequence(deferred)
  <2>1. DOMAIN parsed = 1 .. Len(parsed) /\ Len(parsed) \in Nat
    BY Sequences DEF HistoryInv, Sourced
  <2>2. QED
    BY <2>1 DEF HistoryInv, Projecting, Projected, Sourced, Comments, Batched, BatchOf
<1>2. GrokValue(p).at = p.at /\ ~IsCall(p) /\ ~IsOutput(p) /\ Projectable(p)
  BY <1>1, ParsedKeeps
<1>3. /\ n \in Nat /\ DOMAIN deferred = 1 .. n /\ DOMAIN D = 1 .. n + 1
      /\ \A k \in 1 .. n : D[k] = deferred[k]
      /\ D[n + 1] = GrokValue(p)
  BY <1>1, Appended
<1>4. /\ p.at \in Nat
      /\ \A k \in DOMAIN projected : projected[k].at \in Nat /\ projected[k].at < p.at
      /\ \A k \in DOMAIN deferred : deferred[k].at \in Nat /\ deferred[k].at < p.at
  BY <1>1, SentBefore DEF Retained
<1> HIDE DEF D, n
<1>5. \A k \in DOMAIN D : k \in 1 .. n \/ (k = n + 1 /\ D[k].at = p.at)
  BY <1>2, <1>3
<1>6. Complete(parsed, projected, D, pos + 1)
  <2>1. Times(D) = Times(deferred) \cup {p.at}
    <3>1. ASSUME NEW t \in Times(D) PROVE t \in Times(deferred) \cup {p.at}
      <4>1. PICK k \in DOMAIN D : t = D[k].at
        BY <3>1 DEF Times
      <4>2. QED
        BY <1>3, <1>5, <4>1 DEF Times
    <3>2. ASSUME NEW t \in Times(deferred) PROVE t \in Times(D)
      <4>1. PICK k \in DOMAIN deferred : t = deferred[k].at
        BY <3>2 DEF Times
      <4>2. k \in DOMAIN D /\ D[k] = deferred[k]
        BY <1>3
      <4>3. QED
        BY <4>1, <4>2 DEF Times
    <3>3. p.at \in Times(D)
      <4>1. n + 1 \in DOMAIN D /\ D[n + 1].at = p.at
        BY <1>2, <1>3
      <4>2. QED
        BY <4>1 DEF Times
    <3>4. QED
      BY <3>1, <3>2, <3>3
  <2> DEFINE read(next) == {j \in DOMAIN parsed : j < next /\ Projectable(parsed[j])}
  <2>2. read(pos + 1) = read(pos) \cup {pos}
    BY <1>1, <1>2
  <2>3. {parsed[k].at : k \in read(pos + 1)} = {parsed[k].at : k \in read(pos)} \cup {p.at}
    BY <2>2
  <2>4. QED
    BY <2>1, <2>3 DEF Retained, Complete
<1>7. HeldBack(parsed, projected, batchStart, D)
  <2>1. ASSUME NEW i \in DOMAIN D, NEW j \in DOMAIN D, i < j PROVE D[i].at < D[j].at
    <3>1. CASE j \in 1 .. n
      <4>1. i \in 1 .. n
        BY <1>3, <2>1, <3>1
      <4>2. QED
        BY <1>3, <2>1, <3>1, <4>1 DEF Retained, HeldBack
    <3>2. CASE j \notin 1 .. n
      <4>1. j = n + 1 /\ D[j].at = p.at /\ i \in 1 .. n
        BY <1>3, <1>5, <2>1, <3>2
      <4>2. QED
        BY <1>3, <1>4, <4>1
    <3>3. QED
      BY <3>1, <3>2
  <2>2. ASSUME NEW i \in DOMAIN D, NEW k \in DOMAIN projected
        PROVE  /\ projected[k].at # D[i].at
               /\ k <= batchStart => projected[k].at < D[i].at
               /\ batchStart < k /\ projected[k].at < D[i].at =>
                    RunningFrom(parsed, projected[k].at, D[i].at - 1)
    <3>1. CASE i \in 1 .. n
      BY <1>3, <3>1 DEF Retained, HeldBack
    <3>2. CASE i \notin 1 .. n
      <4>1. D[i].at = p.at /\ projected[k].at < p.at /\ projected[k].at \in Nat
        BY <1>4, <1>5, <3>2
      <4>2. batchStart < k => RunningFrom(parsed, projected[k].at, p.at - 1)
        BY <1>1 DEF Retained, RunningSince
      <4>3. QED
        BY <1>4, <4>1, <4>2
    <3>3. QED
      BY <3>1, <3>2
  <2>3. QED
    BY <2>1, <2>2 DEF HeldBack
<1>8. Awaited(parsed, open, pos + 1)
  <2> SUFFICES ASSUME NEW c \in open
               PROVE  \E j, r \in DOMAIN parsed :
                        /\ IsCall(parsed[j]) /\ IsOutput(parsed[r])
                        /\ parsed[j].call = c /\ parsed[r].call = c
                        /\ j < pos + 1 /\ pos + 1 <= r
    BY DEF Awaited
  <2>1. PICK j \in DOMAIN parsed, r \in DOMAIN parsed :
          /\ IsCall(parsed[j]) /\ IsOutput(parsed[r])
          /\ parsed[j].call = c /\ parsed[r].call = c /\ j < pos /\ pos <= r
    BY DEF Retained, Awaited
  <2>2. r # pos
    BY <1>2, <2>1
  <2>3. QED
    BY <1>1, <2>1, <2>2
<1>9. RunningSince(parsed, projected, batchStart, pos + 1)
  <2> SUFFICES ASSUME pos + 1 \in DOMAIN parsed, NEW k \in DOMAIN projected, batchStart < k
               PROVE  RunningFrom(parsed, projected[k].at, parsed[pos + 1].at - 1)
    BY DEF RunningSince
  <2>1. RunningFrom(parsed, p.at, parsed[pos + 1].at - 1) /\ parsed[pos + 1].at \in Nat
    <3>1. pos + 1 - 1 = pos
      BY <1>1
    <3>2. parsed[pos + 1].at \in Nat
      BY <1>1, <1>6, SentBefore
    <3>3. QED
      BY <1>1, <1>8, <3>1, <3>2, Span
  <2>2. RunningFrom(parsed, projected[k].at, p.at - 1)
    BY <1>1 DEF Retained, RunningSince
  <2>3. projected[k].at \in Nat
    BY <1>4
  <2>4. QED
    BY <1>4, <2>1, <2>2, <2>3, RunningOn
<1>10. QED
  BY <1>6, <1>7, <1>8, <1>9 DEF Retained, D

\* The comments that go in front of a batch.
LEMMA RecordMove ==
  ASSUME NEW items, NEW sent, NEW held, NEW start \in 0 .. Len(sent), NEW next,
         IsSequence(sent), Comments(held),
         \A k \in DOMAIN sent : start < k => ~Comment(sent[k]),
         \A k \in DOMAIN sent : sent[k].at \in Nat,
         \A k \in DOMAIN held : held[k].at \in Nat,
         Complete(items, sent, held, next), Ordered(items, sent),
         HeldBack(items, sent, start, held)
  PROVE  /\ Complete(items, Moved(sent, start, held), <<>>, next)
         /\ Ordered(items, Moved(sent, start, held))
<1> DEFINE m == Moved(sent, start, held)
           n == Len(held)
<1>1. /\ Len(sent) \in Nat /\ DOMAIN sent = 1 .. Len(sent) /\ n \in Nat
      /\ DOMAIN held = 1 .. n /\ start \in Nat /\ start <= Len(sent)
      /\ IsSequence(held)
  BY Sequences DEF Comments
<1>2. /\ DOMAIN m = 1 .. Len(sent) + n
      /\ \A k \in 1 .. start : m[k] = sent[k]
      /\ \A k \in start + 1 .. Len(sent) : m[k + n] = sent[k]
  <2>1. IsSequence(m) /\ Len(m) = Len(sent) + n
    BY <1>1, MovedElements
  <2>3. \A k \in 1 .. start : m[k] = sent[k]
    BY <1>1, MovedElements
  <2>4. \A k \in start + 1 .. Len(sent) : m[k + n] = sent[k]
    BY <1>1, MovedElements
  <2>2. DOMAIN m = 1 .. Len(sent) + n
    BY <2>1, Sequences
  <2>5. QED
    BY <2>2, <2>3, <2>4
<1>3. ASSUME NEW k \in DOMAIN m
      PROVE  \/ \E h \in DOMAIN held : k = start + h /\ m[k] = held[h]
             \/ \E j \in DOMAIN sent : /\ m[k] = sent[j]
                                       /\ \/ j <= start /\ k = j
                                          \/ start < j /\ k = j + n
  BY <1>1, MovedFrom
<1> HIDE DEF m, n
<1>4. Times(m) \cup Times(<<>>) = Times(sent) \cup Times(held)
  <2>1. ASSUME NEW t \in Times(m) PROVE t \in Times(sent) \cup Times(held)
    <3>1. PICK k \in DOMAIN m : t = m[k].at
      BY <2>1 DEF Times
    <3>2. QED
      BY <1>3, <3>1 DEF Times
  <2>2. ASSUME NEW t \in Times(sent) PROVE t \in Times(m)
    <3>1. PICK k \in DOMAIN sent : t = sent[k].at
      BY <2>2 DEF Times
    <3>2. \E j \in DOMAIN m : m[j] = sent[k]
      <4>1. CASE k <= start
        <5>1. k \in 1 .. start /\ k \in DOMAIN m
          BY <1>1, <1>2, <4>1
        <5>2. QED
          BY <1>2, <5>1
      <4>2. CASE ~(k <= start)
        <5>1. k \in start + 1 .. Len(sent) /\ k + n \in DOMAIN m
          BY <1>1, <1>2, <4>2
        <5>2. QED
          BY <1>2, <5>1
      <4>3. QED
        BY <4>1, <4>2
    <3>3. QED
      BY <3>1, <3>2 DEF Times
  <2>3. ASSUME NEW t \in Times(held) PROVE t \in Times(m)
    <3>1. PICK k \in DOMAIN held : t = held[k].at
      BY <2>3 DEF Times
    <3>2. start + k \in DOMAIN m /\ m[start + k] = held[k]
      BY <1>1, MovedHeld DEF m
    <3>3. QED
      BY <3>1, <3>2 DEF Times
  <2>4. Times(<<>>) = {}
    BY NoItems DEF Times
  <2>5. QED
    BY <2>1, <2>2, <2>3, <2>4
<1>5. Complete(items, m, <<>>, next)
  BY <1>4 DEF Complete
<1>6. Ordered(items, m)
  <2> SUFFICES ASSUME NEW i \in DOMAIN m, NEW j \in DOMAIN m, i < j
               PROVE  \/ m[i].at < m[j].at
                      \/ /\ Comment(m[i]) /\ ~Comment(m[j]) /\ m[j].at < m[i].at
                         /\ RunningFrom(items, m[j].at, m[i].at - 1)
    BY DEF Ordered
  <2> DEFINE FromHeld(k, h) == k = start + h /\ m[k] = held[h]
             FromSent(k, s) == /\ m[k] = sent[s]
                               /\ (s <= start /\ k = s) \/ (start < s /\ k = s + n)
  <2>1. CASE \E h, g \in DOMAIN held : FromHeld(i, h) /\ FromHeld(j, g)
    <3>1. PICK h \in DOMAIN held, g \in DOMAIN held : FromHeld(i, h) /\ FromHeld(j, g)
      BY <2>1
    <3>2. h < g
      BY <1>1, <3>1
    <3>3. QED
      BY <3>1, <3>2 DEF HeldBack
  <2>2. CASE \E h \in DOMAIN held, s \in DOMAIN sent : FromHeld(i, h) /\ FromSent(j, s)
    <3>1. PICK h \in DOMAIN held, s \in DOMAIN sent : FromHeld(i, h) /\ FromSent(j, s)
      BY <2>2
    <3>2. start < s
      BY <1>1, <3>1
    <3>3. /\ sent[s].at \in Nat /\ held[h].at \in Nat /\ sent[s].at # held[h].at
          /\ Comment(held[h]) /\ ~Comment(sent[s])
          /\ sent[s].at < held[h].at => RunningFrom(items, sent[s].at, held[h].at - 1)
      BY <3>2 DEF HeldBack, Comments
    <3>4. held[h].at < sent[s].at \/ sent[s].at < held[h].at
      BY <3>3
    <3>5. QED
      BY <3>1, <3>3, <3>4
  <2>3. CASE \E s \in DOMAIN sent, h \in DOMAIN held : FromSent(i, s) /\ FromHeld(j, h)
    <3>1. PICK s \in DOMAIN sent, h \in DOMAIN held : FromSent(i, s) /\ FromHeld(j, h)
      BY <2>3
    <3>2. s <= start
      BY <1>1, <3>1
    <3>3. QED
      BY <3>1, <3>2 DEF HeldBack
  <2>4. CASE \E s, t \in DOMAIN sent : FromSent(i, s) /\ FromSent(j, t)
    <3>1. PICK s \in DOMAIN sent, t \in DOMAIN sent : FromSent(i, s) /\ FromSent(j, t)
      BY <2>4
    <3>2. s < t
      BY <1>1, <3>1
    <3>3. QED
      BY <3>1, <3>2 DEF Ordered
  <2>5. QED
    BY <1>3, <2>1, <2>2, <2>3, <2>4
<1>7. QED
  BY <1>5, <1>6 DEF m

\* Every step of a request keeps its record.
LEMMA RecordKeeps ==
  ASSUME HistoryInv, RecordInv, HistoryStep, UNCHANGED history
  PROVE  RecordInv'
<1>1. CASE phase = "parse"
  <2>1. Parse /\ phase' \in {"parse", "rejected", "project"}
    BY <1>1 DEF HistoryStep, Project, DeferComment, ProjectItem, ProjectedAll, Projecting,
                Parse, SkipUnknown, RejectMalformed, RejectUnmatched, DropDuplicate,
                AcceptOutput, AcceptCall, AcceptOther, ParsedAll
  <2>2. CASE phase' = "project"
    <3>1. ParsedAll
      BY <1>1, <2>1, <2>2
         DEF Parse, SkipUnknown, RejectMalformed, RejectUnmatched, DropDuplicate,
                AcceptOutput, AcceptCall, AcceptOther
    <3>2. /\ pos' = 1 /\ open' = {} /\ batchStart' = NoBatch /\ deferred' = <<>>
          /\ projected' = <<>> /\ parsed' = parsed
      BY <1>1, <3>1 DEF ParsedAll, HistoryInv, Projected, projectVars
    <3>3. \A j \in DOMAIN parsed : ~(j < 1)
      <4>1. DOMAIN parsed = 1 .. Len(parsed)
        BY Sequences DEF HistoryInv, Sourced
      <4>2. QED
        BY <4>1
    <3>4. Retained(parsed, <<>>, NoBatch, {}, <<>>, 1)
      BY <3>3, NoItems DEF Retained, Complete, Times, Ordered, HeldBack, Awaited
    <3>5. QED
      BY <2>2, <3>2, <3>4 DEF RecordInv
  <2>3. QED
    BY <2>1, <2>2 DEF RecordInv
<1>2. CASE phase # "parse"
  <2>1. Project /\ phase = "project" /\ parsed' = parsed
    BY <1>2 DEF HistoryStep, Project, DeferComment, ProjectItem, ProjectedAll, Projecting,
                Parse, SkipUnknown, RejectMalformed, RejectUnmatched, DropDuplicate,
                AcceptOutput, AcceptCall, AcceptOther, ParsedAll, Parsing, parseVars
  <2> SUFFICES ASSUME Single(parsed)
               PROVE  /\ phase' = "project" =>
                           Retained(parsed, projected', batchStart', open', deferred', pos')
                      /\ phase' = "ready" =>
                           /\ Complete(parsed, projected', <<>>, Len(parsed) + 1)
                           /\ Ordered(parsed, projected')
    BY <2>1 DEF RecordInv
  <2>2. /\ Retained(parsed, projected, batchStart, open, deferred, pos)
        /\ Batched(parsed, projected, batchStart, open, pos)
        /\ Comments(deferred) /\ Sourced
        /\ batchStart = NoBatch => deferred = <<>>
        /\ DOMAIN parsed = 1 .. Len(parsed) /\ Len(parsed) \in Nat
        /\ pos \in Nat \ {0}
    BY <2>1, Sequences DEF RecordInv, HistoryInv, Projected, Sourced
  <2>3. CASE DeferComment
    <3>1. /\ Projecting /\ Comment(parsed[pos]) /\ open # {}
          /\ deferred' = Append(deferred, GrokValue(parsed[pos])) /\ pos' = pos + 1
          /\ UNCHANGED <<phase, open, batchStart, projected>>
      BY <2>3 DEF DeferComment
    <3>2. QED
      BY <2>1, <2>2, <3>1, RecordDefer
  <2>4. CASE ProjectItem
    <3> DEFINE p == parsed[pos]
    <3>1. /\ Projecting /\ ~(Comment(p) /\ open # {}) /\ open' = OpenAfter(p) /\ pos' = pos + 1
          /\ phase' = "project"
      BY <2>1, <2>4 DEF ProjectItem
    <3>2. /\ Batched(parsed, SentAfter(p), StartAfter(p), OpenAfter(p), pos + 1)
          /\ Retained(parsed, SentAfter(p), StartAfter(p), OpenAfter(p), deferred, pos + 1)
      BY <2>2, <3>1, SendKeeps, RecordSend
    <3>3. CASE OpenAfter(p) = {} /\ StartAfter(p) # NoBatch
      <4>1. /\ projected' = Moved(SentAfter(p), StartAfter(p), deferred)
            /\ deferred' = <<>> /\ batchStart' = NoBatch
        BY <2>4, <3>3 DEF ProjectItem, CommentsMoved, Moved
      <4>2. /\ StartAfter(p) \in 0 .. Len(SentAfter(p)) /\ IsSequence(SentAfter(p))
            /\ \A k \in DOMAIN SentAfter(p) : StartAfter(p) < k => ~Comment(SentAfter(p)[k])
        BY <3>2, <3>3 DEF Batched, BatchOf
      <4>3. /\ \A k \in DOMAIN SentAfter(p) : SentAfter(p)[k].at \in Nat
            /\ \A k \in DOMAIN deferred : deferred[k].at \in Nat
        <5>1. \A k \in DOMAIN parsed : parsed[k].at \in Nat
          BY <2>2, Sequences DEF Sourced
        <5>2. \A t \in Times(SentAfter(p)) \cup Times(deferred) : t \in Nat
          BY <3>2, <5>1 DEF Retained, Complete
        <5>3. QED
          BY <5>2 DEF Times
      <4>4. /\ Complete(parsed, projected', <<>>, pos + 1)
            /\ Ordered(parsed, projected')
        BY <2>2, <3>2, <4>1, <4>2, <4>3, RecordMove DEF Retained
      <4>5. Retained(parsed, projected', NoBatch, {}, <<>>, pos + 1)
        BY <4>4, NoItems DEF Retained, HeldBack, Awaited
      <4>6. QED
        BY <3>1, <3>3, <4>1, <4>5
    <3>4. CASE ~(OpenAfter(p) = {} /\ StartAfter(p) # NoBatch)
      <4>1. projected' = SentAfter(p) /\ batchStart' = StartAfter(p) /\ deferred' = deferred
        BY <2>4, <3>4 DEF ProjectItem
      <4>2. QED
        BY <3>1, <3>2, <4>1
    <3>5. QED
      BY <3>3, <3>4
  <2>5. CASE ProjectedAll
    <3>1. /\ phase' = "ready" /\ pos > Len(parsed)
          /\ projected' = IF batchStart = NoBatch THEN projected
                          ELSE Moved(projected, batchStart, deferred)
      BY <2>5 DEF ProjectedAll, CommentsMoved, Moved
    <3>2. ASSUME NEW sent, NEW held
          PROVE  Complete(parsed, sent, held, pos) => Complete(parsed, sent, held, Len(parsed) + 1)
      <4>1. \A j \in DOMAIN parsed : j < pos /\ j < Len(parsed) + 1
        BY <2>2, <3>1
      <4>2. {j \in DOMAIN parsed : j < pos /\ Projectable(parsed[j])} =
              {j \in DOMAIN parsed : j < Len(parsed) + 1 /\ Projectable(parsed[j])}
        BY <4>1
      <4>3. QED
        BY <4>2 DEF Complete
    <3>3. Complete(parsed, projected', <<>>, pos) /\ Ordered(parsed, projected')
      <4>1. CASE batchStart = NoBatch
        BY <2>2, <3>1, <4>1 DEF Retained
      <4>2. CASE batchStart # NoBatch
        <5>1. /\ batchStart \in 0 .. Len(projected) /\ IsSequence(projected)
              /\ \A k \in DOMAIN projected : batchStart < k => ~Comment(projected[k])
          BY <2>2, <4>2 DEF Batched, BatchOf
        <5>2. /\ \A k \in DOMAIN projected : projected[k].at \in Nat
              /\ \A k \in DOMAIN deferred : deferred[k].at \in Nat
          <6>1. \A k \in DOMAIN parsed : parsed[k].at \in Nat
            BY <2>2, Sequences DEF Sourced
          <6>2. \A t \in Times(projected) \cup Times(deferred) : t \in Nat
            BY <2>2, <6>1 DEF Retained, Complete
          <6>3. QED
            BY <6>2 DEF Times
        <5>3. QED
          BY <2>2, <3>1, <4>2, <5>1, <5>2, RecordMove DEF Retained
      <4>3. QED
        BY <4>1, <4>2
    <3>4. QED
      BY <3>1, <3>2, <3>3
  <2>6. QED
    BY <2>1, <2>3, <2>4, <2>5 DEF Project
<1>3. QED
  BY <1>1, <1>2

-------------------------------------------------------------------------------
(* The opening of a history, which the conversation id is derived from.      *)

Opens(i) == i.type \in KnownTypes \ OutputTypes /\ Projectable(Parsed(i, 0))

OpensAt(k) == Opens(history[k]) /\ \A j \in 1 .. k - 1 : ~Opens(history[j])

\* No item that opens a history is passed over.
OpeningsRead ==
  /\ phase = "parse" =>
       /\ pos <= Len(input) + 1
       /\ \A j \in 1 .. pos - 1 : Opens(input[j]) => \E k \in DOMAIN parsed : parsed[k].at = j
  /\ phase \in {"project", "ready"} =>
       \A j \in DOMAIN input : Opens(input[j]) => \E k \in DOMAIN parsed : parsed[k].at = j

\* A request is made of the history there is.
Requested == turn = "grok" => input = history

Anchored ==
  \A a \in anchors : \E k \in DOMAIN history : OpensAt(k) /\ a = GrokValue(Parsed(history[k], k))

ConversationInv == HistoryInv /\ RecordInv /\ OpeningsRead /\ Requested /\ Anchored

\* An item opens a history or not, wherever it stands.
LEMMA OpensAnywhere ==
  ASSUME NEW i, NEW at, i.type \in KnownTypes \ OutputTypes
  PROVE  Projectable(Parsed(i, at)) <=> Opens(i)
BY DEF Parsed, Projectable, Opens, CallTypes, OutputTypes, KnownTypes

\* Items of other types are no opening.
LEMMA ParsedKnown ==
  ASSUME NEW i, NEW at, Projectable(Parsed(i, at))
  PROVE  i.type \in KnownTypes
BY DEF Parsed, Projectable, CallTypes, OutputTypes, KnownTypes, ForeignTypes

\* parse_input passes over unknown items and second results only.
LEMMA OpeningsKeep ==
  ASSUME HistoryInv, OpeningsRead, HistoryStep, UNCHANGED history
  PROVE  OpeningsRead'
<1>1. /\ Sourced /\ IsSequence(input) /\ DOMAIN input = 1 .. Len(input) /\ Len(input) \in Nat
      /\ pos \in Nat \ {0} /\ input' = input
  BY Sequences
     DEF HistoryInv, Sourced, HistoryStep, Project, DeferComment, ProjectItem, ProjectedAll,
            Parse, SkipUnknown, RejectMalformed, RejectUnmatched, DropDuplicate,
            AcceptOutput, AcceptCall, AcceptOther, ParsedAll, parseVars
<1>2. CASE SkipUnknown \/ DropDuplicate
  <2>1. /\ phase = "parse" /\ pos <= Len(input) /\ pos' = pos + 1 /\ phase' = phase
        /\ parsed' = parsed /\ ~Opens(input[pos])
    BY <1>2 DEF SkipUnknown, DropDuplicate, Parsing, Item, Opens, OutputTypes
  <2>2. \A j \in 1 .. pos' - 1 : j \in 1 .. pos - 1 \/ j = pos
    BY <1>1, <2>1
  <2>3. QED
    BY <1>1, <2>1, <2>2 DEF OpeningsRead
<1>3. CASE RejectMalformed \/ RejectUnmatched
  BY <1>3 DEF RejectMalformed, RejectUnmatched, OpeningsRead
<1>4. CASE AcceptOutput \/ AcceptCall \/ AcceptOther
  <2> DEFINE item == Parsed(Item, pos)
             n == Len(parsed)
  <2>1. /\ Parsing /\ parsed' = Append(parsed, item) /\ pos' = pos + 1
        /\ UNCHANGED <<history, input, phase>>
    BY <1>4 DEF AcceptOutput, AcceptCall, AcceptOther
  <2>2. /\ DOMAIN parsed = 1 .. n /\ n \in Nat
        /\ DOMAIN parsed' = 1 .. n + 1
        /\ \A k \in 1 .. n : parsed'[k] = parsed[k]
        /\ parsed'[n + 1] = item
    BY <2>1, AddKeeps
  <2>3. item.at = pos
    BY ParsedFields
  <2> HIDE DEF item, n
  <2>4. phase = "parse" /\ pos <= Len(input)
    BY <2>1 DEF Parsing
  <2>5. ASSUME NEW j \in 1 .. pos' - 1, Opens(input[j])
        PROVE  \E k \in DOMAIN parsed' : parsed'[k].at = j
    <3>1. CASE j \in 1 .. pos - 1
      <4>1. PICK k \in DOMAIN parsed : parsed[k].at = j
        BY <2>4, <2>5, <3>1 DEF OpeningsRead
      <4>2. QED
        BY <2>2, <4>1
    <3>2. CASE j = pos
      BY <2>2, <2>3, <3>2
    <3>3. QED
      BY <1>1, <2>1, <3>1, <3>2
  <2>6. QED
    BY <1>1, <2>1, <2>4, <2>5 DEF OpeningsRead
<1>5. CASE ParsedAll
  <2>1. phase = "parse" /\ pos > Len(input) /\ phase' = "project" /\ parsed' = parsed
    BY <1>5 DEF ParsedAll
  <2>2. \A j \in DOMAIN input : j \in 1 .. pos - 1
    BY <1>1, <2>1
  <2>3. QED
    BY <1>1, <2>1, <2>2 DEF OpeningsRead
<1>6. CASE Project
  <2>1. phase = "project" /\ phase' \in {"project", "ready"} /\ parsed' = parsed
    BY <1>6 DEF Project, DeferComment, ProjectItem, ProjectedAll, Projecting, parseVars
  <2>2. QED
    BY <1>1, <2>1 DEF OpeningsRead
<1>7. QED
  BY <1>2, <1>3, <1>4, <1>5, <1>6 DEF HistoryStep, Parse

\* The first item that is sent opens the history.
LEMMA AnchorOpens ==
  ASSUME HistoryInv, OpeningsRead, Requested, turn = "grok", phase = "ready", NEW a \in Anchor
  PROVE  \E k \in DOMAIN history : OpensAt(k) /\ a = GrokValue(Parsed(history[k], k))
<1>1. /\ Sourced /\ Paired(parsed) /\ input = history
      /\ DOMAIN parsed = 1 .. Len(parsed) /\ Len(parsed) \in Nat
      /\ DOMAIN history = 1 .. Len(history) /\ Len(history) \in Nat
  BY Sequences DEF HistoryInv, Sourced, Requested
<1>2. PICK f \in DOMAIN parsed :
        /\ Projectable(parsed[f]) /\ a = GrokValue(parsed[f])
        /\ \A o \in DOMAIN parsed : Projectable(parsed[o]) => f <= o
  BY DEF Anchor
<1> DEFINE k == parsed[f].at
<1>3. k \in DOMAIN history /\ parsed[f] = Parsed(history[k], k) /\ k \in Nat
  BY <1>1 DEF Sourced
<1>4. ~IsOutput(parsed[f])
  <2> SUFFICES ASSUME IsOutput(parsed[f]) PROVE FALSE
    OBVIOUS
  <2>1. PICK c \in DOMAIN parsed : c < f /\ IsCall(parsed[c])
    BY <1>1 DEF Paired
  <2>2. Projectable(parsed[c])
    BY <1>1, <2>1, ParsedKeeps
  <2>3. QED
    BY <1>1, <1>2, <2>1, <2>2
<1>5. Opens(history[k])
  <2>1. history[k].type \in KnownTypes \ OutputTypes
    BY <1>2, <1>3, <1>4, ParsedKnown, ParsedFields
  <2>2. QED
    BY <1>2, <1>3, <2>1, OpensAnywhere
<1>6. ASSUME NEW j \in 1 .. k - 1, Opens(history[j]) PROVE FALSE
  <2>1. j \in DOMAIN history /\ j < k
    BY <1>1, <1>3
  <2>2. PICK o \in DOMAIN parsed : parsed[o].at = j
    BY <1>1, <1>6, <2>1 DEF OpeningsRead
  <2>3. parsed[o] = Parsed(history[j], j)
    BY <1>1, <2>2 DEF Sourced
  <2>4. Projectable(parsed[o])
    <3>1. history[j].type \in KnownTypes \ OutputTypes
      BY <1>6 DEF Opens
    <3>2. QED
      BY <1>6, <2>3, <3>1, OpensAnywhere
  <2>5. f <= o
    BY <1>2, <2>4
  <2>6. k <= j
    <3>1. f = o \/ f < o
      BY <1>1, <2>5
    <3>2. QED
      BY <1>1, <1>3, <2>1, <2>2, <3>1 DEF Sourced
  <2>7. QED
    BY <1>3, <2>1, <2>6
<1>7. QED
  BY <1>2, <1>3, <1>5, <1>6 DEF OpensAt

\* What Codex appends to a history leaves its opening.
LEMMA AnchorsStay ==
  ASSUME IsSequence(history), Anchored, anchors' = anchors, NEW i,
         history' = Append(history, i)
  PROVE  IsSequence(history') /\ Anchored'
<1>1. /\ IsSequence(history') /\ Len(history) \in Nat /\ DOMAIN history = 1 .. Len(history)
      /\ DOMAIN history' = 1 .. Len(history) + 1
      /\ \A k \in 1 .. Len(history) : history'[k] = history[k]
  BY Appended
<1> SUFFICES ASSUME NEW a \in anchors
             PROVE  \E k \in DOMAIN history' :
                      OpensAt(k)' /\ a = GrokValue(Parsed(history'[k], k))
  BY <1>1 DEF Anchored
<1>2. PICK k \in DOMAIN history : OpensAt(k) /\ a = GrokValue(Parsed(history[k], k))
  BY DEF Anchored
<1>3. k \in DOMAIN history' /\ history'[k] = history[k]
  BY <1>1
<1>4. \A j \in 1 .. k - 1 : history'[j] = history[j]
  BY <1>1
<1>5. OpensAt(k)'
  BY <1>2, <1>3, <1>4 DEF OpensAt
<1>6. QED
  BY <1>2, <1>3, <1>5

-------------------------------------------------------------------------------
(* The conversation.                                                         *)

\* What is no step of the request leaves it alone.
LEMMA RequestStays ==
  ASSUME HistoryInv, RecordInv, OpeningsRead, UNCHANGED historyVars, IsSequence(history')
  PROVE  HistoryInv' /\ RecordInv' /\ OpeningsRead'
<1>1. UNCHANGED <<input, phase, pos, map, calls, outputs, parsed, open, batchStart, deferred, projected>>
  BY DEF historyVars
<1>2. Sourced'
  BY <1>1 DEF HistoryInv, Sourced, IsSequence
<1>3. IdsKept' /\ Paired(parsed') /\ Projected'
  BY <1>1 DEF HistoryInv, IdsKept, Paired, Projected
<1>4. RecordInv' /\ OpeningsRead'
  BY <1>1 DEF RecordInv, OpeningsRead
<1>5. QED
  BY <1>2, <1>3, <1>4 DEF HistoryInv

\* A request that begins, or is over.
LEMMA BlankKeeps ==
  ASSUME NEW items, NEW next \in {"parse", "idle"}, NEW declared, Blank(items, next, declared),
         IsSequence(items), IsSequence(history')
  PROVE  HistoryInv' /\ RecordInv' /\ OpeningsRead'
<1>1. /\ input' = items /\ phase' = next /\ pos' = 1 /\ calls' = {} /\ outputs' = {}
      /\ parsed' = <<>> /\ open' = {} /\ batchStart' = NoBatch /\ deferred' = <<>>
      /\ projected' = <<>>
  BY DEF Blank
<1>2. IsSequence(parsed') /\ DOMAIN parsed' = {}
  BY <1>1, NoItems
<1>3. IsSequence(input') /\ Len(input') \in Nat
  BY <1>1, Sequences
<1>4. Sourced'
  BY <1>1, <1>2, <1>3 DEF Sourced, IsSequence
<1>5. IdsKept' /\ Paired(parsed') /\ Projected'
  BY <1>1, <1>2 DEF IdsKept, Paired, Projected
<1>6. OpeningsRead'
  <2>1. 1 .. 1 - 1 = {} /\ 1 <= Len(input') + 1
    BY <1>3
  <2>2. QED
    BY <1>1, <2>1 DEF OpeningsRead
<1>7. RecordInv'
  BY <1>1 DEF RecordInv
<1>8. QED
  BY <1>4, <1>5, <1>6, <1>7 DEF HistoryInv

\* Before the first turn nothing was read, sent or refused.
LEMMA ConversationInitHolds == ConversationInit => ConversationInv
<1> SUFFICES ASSUME ConversationInit PROVE ConversationInv
  OBVIOUS
<1>1. /\ input = <<>> /\ phase = "idle" /\ pos = 1 /\ calls = {} /\ outputs = {} /\ parsed = <<>>
      /\ turn = "codex" /\ anchors = {} /\ scenario \in DOMAIN Scenarios
      /\ history \in Scenarios[scenario].seeds
  BY DEF ConversationInit, HistoryInit, Case
<1>2. IsSequence(history)
  BY <1>1, ScenariosAssumption DEF IsSequence
<1>3. HistoryInv
  BY <1>1, <1>2, NoItems DEF HistoryInv, Sourced, IdsKept, Paired, Projected
<1>4. QED
  BY <1>1, <1>3 DEF ConversationInv, RecordInv, OpeningsRead, Requested, Anchored

\* Every step of Codex, of the models and of the bridge keeps the invariant.
LEMMA ConversationNextKeeps ==
  ConversationInv /\ [ConversationNext]_conversationVars => ConversationInv'
<1> SUFFICES ASSUME ConversationInv, [ConversationNext]_conversationVars PROVE ConversationInv'
  OBVIOUS
<1>1. /\ HistoryInv /\ RecordInv /\ OpeningsRead /\ Requested /\ Anchored /\ IsSequence(history)
  BY DEF ConversationInv, HistoryInv, Sourced
<1>2. CASE CodexRecords \/ GrokAnswers \/ NativeAnswers
  <2>1. UNCHANGED historyVars /\ anchors' = anchors /\ turn' = turn /\ turn # "grok"
    BY <1>2 DEF CodexRecords, GrokAnswers, NativeAnswers
  <2>2. \E i : history' = Append(history, i)
    <3>1. CASE CodexRecords
      <4>1. CASE UserSays
        BY <4>1 DEF UserSays
      <4>2. CASE ToolReturns
        BY <4>2 DEF ToolReturns
      <4>3. CASE OddItem
        BY <4>3 DEF OddItem
      <4>4. QED
        BY <3>1, <4>1, <4>2, <4>3 DEF CodexRecords
    <3>2. CASE GrokAnswers
      BY <3>2 DEF GrokAnswers
    <3>3. CASE NativeAnswers
      BY <3>3 DEF NativeAnswers
    <3>4. QED
      BY <1>2, <3>1, <3>2, <3>3
  <2>3. IsSequence(history') /\ Anchored'
    BY <1>1, <2>1, <2>2, AnchorsStay
  <2>4. HistoryInv' /\ RecordInv' /\ OpeningsRead'
    BY <1>1, <2>1, <2>3, RequestStays
  <2>5. Requested'
    BY <2>1 DEF Requested
  <2>6. QED
    BY <2>3, <2>4, <2>5 DEF ConversationInv
<1>3. CASE StartGrok
  <2>1. history' = history /\ anchors' = anchors /\ turn = "codex"
    BY <1>3 DEF StartGrok
  <2>2. Anchored'
    BY <1>1, <2>1 DEF Anchored, OpensAt
  <2>3. CASE \E declared : Begin(history, declared) /\ turn' = "grok"
    <3>1. PICK declared : Blank(history, "parse", declared) /\ turn' = "grok"
      BY <2>3 DEF Begin
    <3>2. HistoryInv' /\ RecordInv' /\ OpeningsRead'
      BY <1>1, <2>1, <3>1, BlankKeeps
    <3>3. Requested'
      BY <2>1, <3>1 DEF Requested, Blank
    <3>4. QED
      BY <2>2, <3>2, <3>3 DEF ConversationInv
  <2>4. CASE UNCHANGED historyVars /\ turn' = turn
    <3>1. HistoryInv' /\ RecordInv' /\ OpeningsRead'
      BY <1>1, <2>1, <2>4, RequestStays
    <3>2. Requested'
      BY <2>1, <2>4 DEF Requested
    <3>3. QED
      BY <2>2, <3>1, <3>2 DEF ConversationInv
  <2>5. QED
    BY <1>3, <2>3, <2>4 DEF StartGrok
<1>4. CASE Prepare
  <2>1. HistoryStep /\ history' = history /\ anchors' = anchors /\ turn' = turn
    BY <1>4 DEF Prepare, codexVars
  <2>2. HistoryInv'
    BY <1>1, <2>1, ParseKeeps, ProjectKeeps DEF HistoryStep
  <2>3. RecordInv' /\ OpeningsRead'
    BY <1>1, <2>1, RecordKeeps, OpeningsKeep
  <2>4. Requested' /\ Anchored'
    <3>1. input' = input
      BY <2>1
         DEF HistoryStep, Project, DeferComment, ProjectItem, ProjectedAll, Parse, SkipUnknown,
             RejectMalformed, RejectUnmatched, DropDuplicate, AcceptOutput, AcceptCall, AcceptOther,
             ParsedAll, parseVars
    <3>2. QED
      BY <1>1, <2>1, <3>1 DEF Requested, Anchored, OpensAt
  <2>5. QED
    BY <2>2, <2>3, <2>4 DEF ConversationInv
<1>5. CASE RefuseHistory \/ EndTurn
  <2>1. /\ Blank(<<>>, "idle", {}) /\ history' = history /\ anchors' = anchors /\ turn' = "codex"
    BY <1>5 DEF RefuseHistory, EndTurn, Drop
  <2>2. HistoryInv' /\ RecordInv' /\ OpeningsRead'
    BY <1>1, <2>1, BlankKeeps, NoItems
  <2>3. Requested' /\ Anchored'
    BY <1>1, <2>1 DEF Requested, Anchored, OpensAt
  <2>4. QED
    BY <2>2, <2>3 DEF ConversationInv
<1>6. CASE SendToGrok
  <2>1. /\ UNCHANGED historyVars /\ history' = history /\ turn = "grok" /\ phase = "ready"
        /\ turn' = "answer" /\ anchors' = anchors \cup Anchor
    BY <1>6 DEF SendToGrok, codexVars
  <2>2. HistoryInv' /\ RecordInv' /\ OpeningsRead'
    BY <1>1, <2>1, RequestStays
  <2>3. ASSUME NEW a \in anchors'
        PROVE  \E k \in DOMAIN history : OpensAt(k) /\ a = GrokValue(Parsed(history[k], k))
    BY <1>1, <2>1, <2>3, AnchorOpens DEF Anchored
  <2>4. Requested' /\ Anchored'
    BY <2>1, <2>3 DEF Requested, Anchored, OpensAt
  <2>5. QED
    BY <2>2, <2>4 DEF ConversationInv
<1>7. CASE StartNative \/ UNCHANGED conversationVars
  <2>1. /\ UNCHANGED historyVars /\ history' = history /\ anchors' = anchors
        /\ turn' = turn \/ turn' = "native"
    BY <1>7 DEF StartNative, codexVars, conversationVars
  <2>2. HistoryInv' /\ RecordInv' /\ OpeningsRead'
    BY <1>1, <2>1, RequestStays
  <2>3. Requested' /\ Anchored'
    BY <1>1, <2>1 DEF Requested, Anchored, OpensAt, historyVars
  <2>4. QED
    BY <2>2, <2>3 DEF ConversationInv
<1>8. QED
  BY <1>2, <1>3, <1>4, <1>5, <1>6, <1>7 DEF ConversationNext

\* ConversationInv is an invariant.
LEMMA ConversationInvariant == ConversationSpec => []ConversationInv
BY ConversationInitHolds, ConversationNextKeeps, PTL DEF ConversationSpec

-------------------------------------------------------------------------------

\* Whatever a history holds, every result that Grok is sent follows its call, is
\* the only one of its call, and no comment of the assistant parts the two.
THEOREM ResultsPairedHolds == ConversationSpec => []ResultsPaired
<1>1. ConversationInv => ResultsPaired
  <2> SUFFICES ASSUME ConversationInv, phase = "ready", NEW r \in DOMAIN projected,
                      projected[r].kind = "function_call_output"
               PROVE  /\ \A o \in DOMAIN projected \ {r} :
                           projected[o].kind = "function_call_output" =>
                             projected[o].call # projected[r].call
                      /\ \E c \in 1 .. r : /\ projected[c].kind = "function_call"
                                           /\ projected[c].call = projected[r].call
                                           /\ \A k \in c .. r : ~Comment(projected[k])
    BY DEF ResultsPaired
  <2>1. SentPaired(projected, NoBatch)
    BY DEF ConversationInv, HistoryInv, Projected
  <2>2. QED
    BY <2>1 DEF SentPaired, IsResult
<1>2. QED
  BY <1>1, ConversationInvariant, PTL

\* As long as no two calls of a history have one id, Grok is sent all that can be
\* sent, in the order it was recorded but for comments that go in front of the
\* calls that were running.
THEOREM RecordKeptHolds == ConversationSpec => [](CallsOnce => RecordKept)
<1>1. ConversationInv => (CallsOnce => RecordKept)
  <2> SUFFICES ASSUME ConversationInv, CallsOnce, phase = "ready" PROVE RecordKept
    BY DEF RecordKept
  <2>1. Sourced /\ RecordInv /\ DOMAIN parsed = 1 .. Len(parsed) /\ Len(parsed) \in Nat
    BY Sequences DEF ConversationInv, HistoryInv, Sourced
  <2>2. Single(parsed)
    <3> SUFFICES ASSUME NEW i \in DOMAIN parsed, NEW j \in DOMAIN parsed,
                        IsCall(parsed[i]), IsCall(parsed[j]), parsed[i].call = parsed[j].call
                 PROVE  i = j
      BY DEF Single
    <3> DEFINE a == parsed[i].at
               b == parsed[j].at
    <3>1. /\ a \in DOMAIN input /\ parsed[i] = Parsed(input[a], a)
          /\ b \in DOMAIN input /\ parsed[j] = Parsed(input[b], b)
      BY <2>1 DEF Sourced
    <3>2. /\ input[a].type \in CallTypes /\ parsed[i].call = input[a].call
          /\ input[b].type \in CallTypes /\ parsed[j].call = input[b].call
      BY <3>1, ParsedFields
    <3>3. a = b
      BY <3>1, <3>2 DEF CallsOnce
    <3>4. a \in Nat
      BY <2>1, <3>1, Sequences DEF Sourced
    <3>5. ~(i < j) /\ ~(j < i)
      BY <2>1, <3>3, <3>4 DEF Sourced
    <3>6. QED
      BY <2>1, <3>5
  <2>3. Complete(parsed, projected, <<>>, Len(parsed) + 1) /\ Ordered(parsed, projected)
    BY <2>1, <2>2 DEF RecordInv
  <2>4. {projected[k].at : k \in DOMAIN projected} =
          {parsed[k].at : k \in {j \in DOMAIN parsed : Projectable(parsed[j])}}
    <3>1. {j \in DOMAIN parsed : j < Len(parsed) + 1 /\ Projectable(parsed[j])} =
            {j \in DOMAIN parsed : Projectable(parsed[j])}
      BY <2>1
    <3>2. Times(<<>>) = {}
      BY NoItems DEF Times
    <3>3. QED
      BY <2>3, <3>1, <3>2 DEF Complete, Times
  <2>5. ASSUME NEW first, NEW last, RunningFrom(parsed, first, last)
        PROVE  \A at \in first .. last : CallRunning(at)
    BY <2>5 DEF RunningFrom, CallRunning, IsCall
  <2>6. ASSUME NEW i \in DOMAIN projected, NEW j \in DOMAIN projected, i < j
        PROVE  \/ projected[i].at < projected[j].at
               \/ /\ Comment(projected[i]) /\ ~Comment(projected[j])
                  /\ projected[j].at < projected[i].at
                  /\ \A at \in projected[j].at .. projected[i].at - 1 : CallRunning(at)
    BY <2>3, <2>5, <2>6 DEF Ordered
  <2>7. QED
    BY <2>4, <2>6 DEF RecordKept
<1>2. QED
  BY <1>1, ConversationInvariant, PTL

\* All Grok turns of a conversation have one conversation id, however long its
\* history grows and whatever tools are declared.
THEOREM ConversationKeptHolds == ConversationSpec => []ConversationKept
<1>1. ConversationInv => ConversationKept
  <2> SUFFICES ASSUME ConversationInv PROVE ConversationKept
    OBVIOUS
  <2>1. DOMAIN history = 1 .. Len(history) /\ Len(history) \in Nat
    BY Sequences DEF ConversationInv, HistoryInv, Sourced
  <2>2. ASSUME NEW a \in anchors, NEW b \in anchors PROVE a = b
    <3>1. PICK k \in DOMAIN history : OpensAt(k) /\ a = GrokValue(Parsed(history[k], k))
      BY DEF ConversationInv, Anchored
    <3>2. PICK j \in DOMAIN history : OpensAt(j) /\ b = GrokValue(Parsed(history[j], j))
      BY DEF ConversationInv, Anchored
    <3>3. j \notin 1 .. k - 1 /\ k \notin 1 .. j - 1
      BY <3>1, <3>2 DEF OpensAt
    <3>4. j = k
      BY <2>1, <3>3
    <3>5. QED
      BY <3>1, <3>2, <3>4
  <2>3. CASE anchors = {}
    BY <2>3, FS_EmptySet DEF ConversationKept
  <2>4. CASE anchors # {}
    <3>1. PICK a \in anchors : anchors = {a}
      BY <2>2, <2>4
    <3>2. Cardinality(anchors) = 1
      BY <3>1, FS_Singleton
    <3>3. QED
      BY <3>2 DEF ConversationKept
  <2>5. QED
    BY <2>3, <2>4
<1>2. QED
  BY <1>1, ConversationInvariant, PTL

-------------------------------------------------------------------------------
(* The tools of a request.                                                   *)

EntriesMade(names) == \A e \in names : e = Entry(e.namespace, e.name)

\* Two tools a list may not both have.
Alike(x, y) == x.kind = y.kind /\ (x.kind = "function" => x.name = y.name)

IsTool(x) == x.kind = "function" \/ x = [kind |-> "web_search"]

\* The list has each tool once; the map, and the mark of the search tool, are
\* about its functions.
ToolsMade(t) ==
  /\ {"ok", "list", "map", "search"} \subseteq DOMAIN t
  /\ IsSequence(t.list) /\ EntriesMade(t.map) /\ t.search \in BOOLEAN
  /\ \A k \in DOMAIN t.list : IsTool(t.list[k])
  /\ \A j, k \in DOMAIN t.list : Alike(t.list[j], t.list[k]) => j = k
  /\ \A e \in t.map : e.provider \in FunctionNames(t.list)
  /\ t.search => SearchName \in FunctionNames(t.list)

\* The folds that admit tools, one step each.
Members == INSTANCE Folding WITH
  Op <- LAMBDA c, t, m : WithMember(t, c, m), Holds <- LAMBDA c, s, t : ToolsMade(t)
Tools == INSTANCE Folding WITH
  Op <- LAMBDA c, t, tool : WithTool(t, tool), Holds <- LAMBDA c, s, t : ToolsMade(t)
Additions == INSTANCE Folding WITH
  Op <- LAMBDA c, t, tool : WithDiscovered(t, tool, c), Holds <- LAMBDA c, s, t : ToolsMade(t)
Findings == INSTANCE Folding WITH
  Op <- LAMBDA c, t, spec : WithFound(t, spec, c), Holds <- LAMBDA c, s, t : ToolsMade(t)
Outputs == INSTANCE Folding WITH
  Op <- LAMBDA c, t, item : WithOutput(t, item, c), Holds <- LAMBDA c, s, t : ToolsMade(t)

\* parse_tools goes through the members of a namespace one by one.
LEMMA MembersFold ==
  ASSUME NEW t, NEW namespace, NEW list
  PROVE  FoldLeft(LAMBDA s, m : WithMember(s, namespace, m), t, list) =
           Members!Fold(namespace, t, list)
<1>1. FoldLeft(LAMBDA s, m : WithMember(s, namespace, m), t, list) =
        Members!Iter(namespace, t, list)[DOMAIN list]
  BY DEF FoldLeft, MapThenFoldSet, Members!Iter, Members!Folded, Members!Max, Max
<1>2. QED
  BY <1>1, Members!FoldIs

\* It goes through the declared tools one by one.
LEMMA ToolsFold ==
  ASSUME NEW t, NEW list
  PROVE  FoldLeft(WithTool, t, list) = Tools!Fold(0, t, list)
<1>1. FoldLeft(WithTool, t, list) = Tools!Iter(0, t, list)[DOMAIN list]
  BY DEF FoldLeft, MapThenFoldSet, Tools!Iter, Tools!Folded, Tools!Max, Max
<1>2. QED
  BY <1>1, Tools!FoldIs

\* merge_discovered_tool is called for one found tool after the other,
LEMMA AdditionsFold ==
  ASSUME NEW t, NEW found, NEW list
  PROVE  FoldLeft(LAMBDA s, tool : WithDiscovered(s, tool, found), t, list) =
           Additions!Fold(found, t, list)
<1>1. FoldLeft(LAMBDA s, tool : WithDiscovered(s, tool, found), t, list) =
        Additions!Iter(found, t, list)[DOMAIN list]
  BY DEF FoldLeft, MapThenFoldSet, Additions!Iter, Additions!Folded, Additions!Max, Max
<1>2. QED
  BY <1>1, Additions!FoldIs

\* for one specification after the other,
LEMMA FindingsFold ==
  ASSUME NEW t, NEW field, NEW list
  PROVE  FoldLeft(LAMBDA s, spec : WithFound(s, spec, field), t, list) =
           Findings!Fold(field, t, list)
<1>1. FoldLeft(LAMBDA s, spec : WithFound(s, spec, field), t, list) =
        Findings!Iter(field, t, list)[DOMAIN list]
  BY DEF FoldLeft, MapThenFoldSet, Findings!Iter, Findings!Folded, Findings!Max, Max
<1>2. QED
  BY <1>1, Findings!FoldIs

\* and for one item of the history after the other.
LEMMA OutputsFold ==
  ASSUME NEW t, NEW field, NEW items
  PROVE  FoldLeft(LAMBDA s, item : WithOutput(s, item, field), t, items) =
           Outputs!Fold(field, t, items)
<1>1. FoldLeft(LAMBDA s, item : WithOutput(s, item, field), t, items) =
        Outputs!Iter(field, t, items)[DOMAIN items]
  BY DEF FoldLeft, MapThenFoldSet, Outputs!Iter, Outputs!Folded, Outputs!Max, Max
<1>2. QED
  BY <1>1, Outputs!FoldIs

\* A refused request keeps the map it had.
LEMMA RefusedMade == ASSUME NEW t, ToolsMade(t) PROVE ToolsMade(Refused(t))
<1>1. /\ DOMAIN Refused(t) = DOMAIN t /\ Refused(t).list = t.list
      /\ Refused(t).map = t.map /\ Refused(t).search = t.search
  BY DEF Refused, ToolsMade
<1>2. QED
  BY <1>1 DEF ToolsMade

\* What was refused is not in order.
LEMMA RefusedNot == ASSUME NEW t, "ok" \in DOMAIN t PROVE Refused(t).ok = FALSE
BY DEF Refused

\* A request without tools has an empty map.
LEMMA NoToolsMade == ToolsMade(NoTools)
BY NoItems DEF ToolsMade, NoTools, EntriesMade, FunctionNames

\* The names of a list with one more tool.
LEMMA NamesAppended ==
  ASSUME NEW list, IsSequence(list), NEW tool
  PROVE  FunctionNames(Append(list, tool)) =
           FunctionNames(list) \cup (IF tool.kind = "function" THEN {tool.name} ELSE {})
<1> DEFINE n == Len(list)
           more == Append(list, tool)
<1>1. /\ n \in Nat /\ DOMAIN list = 1 .. n /\ DOMAIN more = 1 .. n + 1
      /\ \A k \in 1 .. n : more[k] = list[k]
      /\ more[n + 1] = tool
  BY Appended
<1> HIDE DEF n, more
<1>2. \A k : k \in 1 .. n + 1 <=> k \in 1 .. n \/ k = n + 1
  BY <1>1
<1>3. ASSUME NEW name
      PROVE  name \in FunctionNames(more) <=>
               name \in FunctionNames(list) \/ (tool.kind = "function" /\ name = tool.name)
  BY <1>1, <1>2 DEF FunctionNames
<1>4. QED
  BY <1>3 DEF more

\* A tool is added, with the entries and the mark it brings.
LEMMA AddedMade ==
  ASSUME NEW t, ToolsMade(t),
         NEW tool, IsTool(tool), \A k \in DOMAIN t.list : ~Alike(t.list[k], tool),
         NEW u, {"ok", "list", "map", "search"} \subseteq DOMAIN u,
         u.list = Append(t.list, tool), EntriesMade(u.map), u.search \in BOOLEAN,
         \A e \in u.map : e \in t.map \/ (tool.kind = "function" /\ e.provider = tool.name),
         u.search => t.search \/ (tool.kind = "function" /\ tool.name = SearchName)
  PROVE  ToolsMade(u)
<1> DEFINE n == Len(t.list)
<1>1. /\ IsSequence(u.list) /\ n \in Nat /\ DOMAIN t.list = 1 .. n /\ DOMAIN u.list = 1 .. n + 1
      /\ \A k \in 1 .. n : u.list[k] = t.list[k]
      /\ u.list[n + 1] = tool
  BY Appended DEF ToolsMade
<1> HIDE DEF n
<1>2. \A k \in 1 .. n + 1 : k \in 1 .. n \/ k = n + 1
  BY <1>1
<1>3. \A k \in DOMAIN u.list : IsTool(u.list[k])
  BY <1>1, <1>2 DEF ToolsMade
<1>4. ASSUME NEW j \in DOMAIN u.list, NEW k \in DOMAIN u.list, Alike(u.list[j], u.list[k])
      PROVE  j = k
  <2>1. \A x, y : Alike(x, y) => Alike(y, x)
    BY DEF Alike
  <2>2. QED
    BY <1>1, <1>2, <1>4, <2>1 DEF ToolsMade
<1>5. FunctionNames(u.list) =
        FunctionNames(t.list) \cup (IF tool.kind = "function" THEN {tool.name} ELSE {})
  BY NamesAppended DEF ToolsMade
<1>6. /\ \A e \in u.map : e.provider \in FunctionNames(u.list)
      /\ u.search => SearchName \in FunctionNames(u.list)
  BY <1>5 DEF ToolsMade
<1>7. QED
  BY <1>1, <1>3, <1>4, <1>6 DEF ToolsMade

\* A function whose name is new is none of the list.
LEMMA NewName ==
  ASSUME NEW list, NEW tool, tool.kind = "function", tool.name \notin FunctionNames(list)
  PROVE  \A k \in DOMAIN list : ~Alike(list[k], tool)
BY DEF FunctionNames, Alike

\* A function without a namespace brings no entry.
LEMMA WithFunctionMade ==
  ASSUME NEW t, ToolsMade(t), NEW name, NEW tool
  PROVE  /\ ToolsMade(WithFunction(t, name, tool))
         /\ WithFunction(t, name, tool).ok =>
              name \in FunctionNames(WithFunction(t, name, tool).list)
<1> DEFINE f == Function(name, tool.spec)
           u == [t EXCEPT !.list = Append(@, f)]
<1>1. f.kind = "function" /\ f.name = name
  BY DEF Function
<1>2. CASE name \in FunctionNames(t.list)
  <2>1. WithFunction(t, name, tool) = Refused(t)
    BY <1>2 DEF WithFunction
  <2>2. QED
    BY <2>1, RefusedMade, RefusedNot DEF ToolsMade
<1>3. CASE name \notin FunctionNames(t.list)
  <2>1. /\ {"ok", "list", "map", "search"} \subseteq DOMAIN u /\ u.list = Append(t.list, f)
        /\ u.map = t.map /\ u.search = t.search
    BY DEF ToolsMade
  <2>2. IsTool(f) /\ \A k \in DOMAIN t.list : ~Alike(t.list[k], f)
    BY <1>1, <1>3, NewName DEF IsTool
  <2> HIDE DEF f, u
  <2>3. ToolsMade(u)
    BY <2>1, <2>2, AddedMade DEF ToolsMade
  <2>4. name \in FunctionNames(u.list)
    BY <1>1, <2>1, NamesAppended DEF ToolsMade
  <2>5. WithFunction(t, name, tool) \in {Refused(t), u}
    BY DEF WithFunction, f, u
  <2>6. QED
    BY <2>3, <2>4, <2>5, RefusedMade, RefusedNot DEF ToolsMade
<1>4. QED
  BY <1>2, <1>3

\* A member brings the entry of its pair.
LEMMA WithMemberMade ==
  ASSUME NEW t, ToolsMade(t), NEW namespace, NEW tool
  PROVE  ToolsMade(WithMember(t, namespace, tool))
<1> DEFINE flat == Flat(namespace, tool.name)
           added == WithFunction(t, flat, tool)
           entry == Entry(namespace, tool.name)
           u == [added EXCEPT !.map = @ \cup {entry}]
<1>1. ToolsMade(added) /\ (added.ok => flat \in FunctionNames(added.list))
  BY WithFunctionMade
<1>2. EntriesMade({entry}) /\ entry.provider = flat
  BY DEF Entry, EntriesMade
<1>3. WithMember(t, namespace, tool) \in {Refused(t), u} /\
        (WithMember(t, namespace, tool) = u \/ WithMember(t, namespace, tool) = Refused(t))
  BY DEF WithMember
<1>4. ~added.ok => WithMember(t, namespace, tool) = Refused(t)
  BY DEF WithMember
<1> HIDE DEF flat, added, entry
<1>5. ASSUME added.ok PROVE ToolsMade(u)
  <2>1. /\ DOMAIN u = DOMAIN added /\ u.list = added.list /\ u.search = added.search
        /\ u.map = added.map \cup {entry}
    BY <1>1 DEF ToolsMade
  <2> HIDE DEF u
  <2>2. EntriesMade(u.map) /\ \A e \in u.map : e.provider \in FunctionNames(u.list)
    BY <1>1, <1>2, <1>5, <2>1 DEF ToolsMade, EntriesMade
  <2>3. QED
    BY <1>1, <2>1, <2>2 DEF ToolsMade
<1>6. QED
  BY <1>3, <1>4, <1>5, RefusedMade

\* A declared tool of any type.
LEMMA WithToolMade ==
  ASSUME NEW t, ToolsMade(t), NEW tool, tool.type = "namespace" => IsSequence(tool.members)
  PROVE  ToolsMade(WithTool(t, tool))
<1>1. ToolsMade(WithFunction(t, tool.name, tool))
  BY WithFunctionMade
<1>2. ToolsMade(Refused(t))
  BY RefusedMade
<1>3. ToolsMade(WithSearch(t, tool))
  <2> DEFINE found == Function(SearchName, [tool.spec EXCEPT !.schema = OfferedSchema(@)])
             u == [t EXCEPT !.search = TRUE, !.list = Append(@, found)]
  <2>1. CASE SearchName \in FunctionNames(t.list)
    BY <1>2, <2>1 DEF WithSearch
  <2>2. CASE SearchName \notin FunctionNames(t.list)
    <3>1. found.kind = "function" /\ found.name = SearchName /\ IsTool(found)
      BY DEF Function, IsTool
    <3>2. /\ {"ok", "list", "map", "search"} \subseteq DOMAIN u /\ u.list = Append(t.list, found)
          /\ u.map = t.map /\ u.search = TRUE
      BY DEF ToolsMade
    <3>3. WithSearch(t, tool) \in {Refused(t), u}
      BY DEF WithSearch
    <3> HIDE DEF found, u
    <3>4. \A k \in DOMAIN t.list : ~Alike(t.list[k], found)
      BY <2>2, <3>1, NewName
    <3>5. ToolsMade(u)
      BY <3>1, <3>2, <3>4, AddedMade DEF ToolsMade
    <3>6. QED
      BY <1>2, <3>3, <3>5
  <2>3. QED
    BY <2>1, <2>2
<1>4. ToolsMade(WithWebSearch(t, tool))
  <2> DEFINE web == [kind |-> "web_search"]
             u == [t EXCEPT !.list = Append(@, web)]
  <2>1. CASE HasWebSearch(t.list)
    BY <1>2, <2>1 DEF WithWebSearch
  <2>2. CASE ~HasWebSearch(t.list)
    <3>1. web.kind = "web_search" /\ IsTool(web)
      BY DEF IsTool
    <3>2. /\ {"ok", "list", "map", "search"} \subseteq DOMAIN u /\ u.list = Append(t.list, web)
          /\ u.map = t.map /\ u.search = t.search
      BY DEF ToolsMade
    <3>3. WithWebSearch(t, tool) \in {Refused(t), u}
      BY DEF WithWebSearch
    <3> HIDE DEF web, u
    <3>4. \A k \in DOMAIN t.list : ~Alike(t.list[k], web)
      BY <2>2, <3>1 DEF HasWebSearch, Alike
    <3>5. ToolsMade(u)
      BY <3>1, <3>2, <3>4, AddedMade DEF ToolsMade
    <3>6. QED
      BY <1>2, <3>3, <3>5
  <2>3. QED
    BY <2>1, <2>2
<1>5. ASSUME tool.type = "namespace"
      PROVE  ToolsMade(FoldLeft(LAMBDA s, m : WithMember(s, tool.name, m), t, tool.members))
  <2>1. tool.members \in Seq({tool.members[k] : k \in DOMAIN tool.members})
    BY <1>5 DEF IsSequence
  <2>2. \A m, s : ToolsMade(s) => ToolsMade(WithMember(s, tool.name, m))
    BY WithMemberMade
  <2>3. ToolsMade(Members!Fold(tool.name, t, tool.members))
    BY <2>1, <2>2, Members!FoldKeeps
  <2>4. QED
    BY <2>3, MembersFold
<1>6. QED
  BY <1>1, <1>2, <1>3, <1>4, <1>5 DEF WithTool

\* A whole list of tools, by induction over the list.
LEMMA ParsedToolsMade ==
  ASSUME NEW list, IsToolList(list)
  PROVE  ToolsMade(ParsedTools(list))
<1> DEFINE S == {list[k] : k \in DOMAIN list}
           t == FoldLeft(WithTool, NoTools, list)
<1>1. list \in Seq(S) /\ \A x \in S : x.type = "namespace" => IsSequence(x.members)
  BY DEF IsToolList, IsSequence
<1>2. \A x \in S : \A s : ToolsMade(s) => ToolsMade(WithTool(s, x))
  BY <1>1, WithToolMade
<1>3. ToolsMade(Tools!Fold(0, NoTools, list))
  <2> HIDE DEF S
  <2>1. QED
    BY <1>1, <1>2, NoToolsMade, Tools!FoldKeeps
<1>4. ToolsMade(t)
  BY <1>3, ToolsFold
<1>5. QED
  BY <1>4, RefusedMade DEF ParsedTools

\* A found tool brings entries of the map it was parsed with.
LEMMA WithDiscoveredMade ==
  ASSUME NEW t, ToolsMade(t), NEW found, ToolsMade(found), NEW tool, IsTool(tool)
  PROVE  ToolsMade(WithDiscovered(t, tool, found))
<1> DEFINE there == {e \in found.map : e.provider = tool.name}
           searchThere == found.search /\ tool.name = SearchName
           u == [t EXCEPT !.list = Append(@, tool), !.map = @ \cup there,
                          !.search = @ \/ searchThere]
           w == [t EXCEPT !.list = Append(@, tool)]
<1>1. EntriesMade(t.map \cup there) /\ ToolsMade(Refused(t))
  BY RefusedMade DEF ToolsMade, EntriesMade
<1>2. CASE tool.kind = "function"
  <2>1. WithDiscovered(t, tool, found) \in {t, WithDiscoveredFunction(t, tool, found)}
    BY <1>2 DEF WithDiscovered
  <2>2. CASE tool.name \in FunctionNames(t.list)
    <3>1. WithDiscoveredFunction(t, tool, found) \in {t, Refused(t)}
      BY <2>2 DEF WithDiscoveredFunction
    <3>2. QED
      BY <1>1, <2>1, <3>1
  <2>3. CASE tool.name \notin FunctionNames(t.list)
    <3>1. WithDiscoveredFunction(t, tool, found) \in {t, Refused(t), u}
      BY <2>3 DEF WithDiscoveredFunction
    <3>2. /\ {"ok", "list", "map", "search"} \subseteq DOMAIN u /\ u.list = Append(t.list, tool)
          /\ u.map = t.map \cup there /\ u.search = (t.search \/ searchThere)
      BY DEF ToolsMade
    <3>3. \A k \in DOMAIN t.list : ~Alike(t.list[k], tool)
      BY <1>2, <2>3, NewName
    <3>4. /\ searchThere => tool.name = SearchName
          /\ (t.search \/ searchThere) \in BOOLEAN
          /\ \A e \in there : e.provider = tool.name
      OBVIOUS
    <3> HIDE DEF u, there, searchThere
    <3>5. ToolsMade(u)
      BY <1>1, <1>2, <3>2, <3>3, <3>4, AddedMade
    <3>6. QED
      BY <1>1, <2>1, <3>1, <3>5
  <2>4. QED
    BY <2>2, <2>3
<1>3. CASE tool.kind # "function"
  <2>1. tool.kind = "web_search"
    BY <1>3 DEF IsTool
  <2>2. WithDiscovered(t, tool, found) = t \/ ~HasWebSearch(t.list)
    BY <1>3 DEF WithDiscovered
  <2>3. WithDiscovered(t, tool, found) \in {t, Refused(t), w}
    BY <1>3 DEF WithDiscovered
  <2>4. /\ {"ok", "list", "map", "search"} \subseteq DOMAIN w /\ w.list = Append(t.list, tool)
        /\ w.map = t.map /\ w.search = t.search
    BY DEF ToolsMade
  <2> HIDE DEF w
  <2>5. ASSUME ~HasWebSearch(t.list) PROVE ToolsMade(w)
    <3>1. \A k \in DOMAIN t.list : ~Alike(t.list[k], tool)
      BY <2>1, <2>5 DEF HasWebSearch, Alike
    <3>2. QED
      BY <2>1, <2>4, <3>1, AddedMade DEF ToolsMade
  <2>6. QED
    BY <1>1, <2>2, <2>3, <2>5
<1>4. QED
  BY <1>2, <1>3

\* One specification that is a list of tools by itself.
LEMMA SingleMade ==
  ASSUME NEW spec, spec.type = "namespace" => IsSequence(spec.members)
  PROVE  ToolsMade(ParsedTools(<<spec>>))
<1>1. <<spec>> \in Seq({spec}) /\ Len(<<spec>>) = 1 /\ <<spec>>[1] = spec
  OBVIOUS
<1>2. IsSequence(<<spec>>)
  BY <1>1, Sequential
<1>3. DOMAIN <<spec>> = {1}
  BY <1>1, <1>2, Sequences
<1>4. IsToolList(<<spec>>)
  BY <1>1, <1>2, <1>3 DEF IsToolList
<1>5. QED
  BY <1>4, ParsedToolsMade

\* The tools of one found specification.
LEMMA WithFoundMade ==
  ASSUME NEW t, ToolsMade(t), NEW field,
         NEW spec, spec.type = "namespace" => IsSequence(spec.members)
  PROVE  ToolsMade(WithFound(t, spec, field))
<1> DEFINE found == ParsedTools(<<spec>>)
           S == {found.list[k] : k \in DOMAIN found.list}
<1>1. ToolsMade(found)
  BY SingleMade
<1> HIDE DEF found
<1>2. found.list \in Seq(S)
  BY <1>1 DEF ToolsMade, IsSequence
<1>3. \A tool \in S : \A s : ToolsMade(s) => ToolsMade(WithDiscovered(s, tool, found))
  BY <1>1, WithDiscoveredMade DEF ToolsMade
<1>4. ToolsMade(Additions!Fold(found, t, found.list))
  <2> HIDE DEF S
  <2>1. QED
    BY <1>2, <1>3, Additions!FoldKeeps
<1>5. ToolsMade(FoldLeft(LAMBDA s, tool : WithDiscovered(s, tool, found), t, found.list))
  BY <1>4, AdditionsFold
<1>6. QED
  BY <1>5, RefusedMade DEF WithFound, found

\* The specifications of one item.
LEMMA WithOutputMade ==
  ASSUME NEW t, ToolsMade(t), NEW field, NEW item, Genuine(item)
  PROVE  ToolsMade(WithOutput(t, item, field))
<1>1. ASSUME item.type = "tool_search_output"
      PROVE  ToolsMade(FoldLeft(LAMBDA s, spec : WithFound(s, spec, field), t, item.tools))
  <2> DEFINE S == {item.tools[k] : k \in DOMAIN item.tools}
  <2>1. item.tools \in Seq(S) /\ \A x \in S : x.type = "namespace" => IsSequence(x.members)
    BY <1>1 DEF Genuine, IsToolList, IsSequence
  <2>2. \A x \in S : \A s : ToolsMade(s) => ToolsMade(WithFound(s, x, field))
    BY <2>1, WithFoundMade
  <2>3. ToolsMade(Findings!Fold(field, t, item.tools))
    <3> HIDE DEF S
    <3>1. QED
      BY <2>1, <2>2, Findings!FoldKeeps
  <2>4. QED
    BY <2>3, FindingsFold
<1>2. QED
  BY <1>1, RefusedMade DEF WithOutput

\* Every name in the map of a request is made of the pair it stands for.
LEMMA AdmittedMade ==
  ASSUME NEW field, NEW declared, IsToolList(declared),
         NEW items, IsSequence(items), \A k \in DOMAIN items : Genuine(items[k])
  PROVE  EntriesMade(AdmittedTools(field, declared, items).map)
<1> DEFINE S == {items[k] : k \in DOMAIN items}
           start == IF field = "list" THEN ParsedTools(declared) ELSE NoTools
<1>1. items \in Seq(S) /\ \A x \in S : Genuine(x)
  BY DEF IsSequence
<1>2. ToolsMade(start)
  BY ParsedToolsMade, NoToolsMade
<1> HIDE DEF S, start
<1>3. \A x \in S : \A s : ToolsMade(s) => ToolsMade(WithOutput(s, x, field))
  BY <1>1, WithOutputMade
<1>4. ToolsMade(Outputs!Fold(field, start, items))
  BY <1>1, <1>2, <1>3, Outputs!FoldKeeps
<1>5. AdmittedTools(field, declared, items) = Outputs!Fold(field, start, items)
  BY OutputsFold DEF AdmittedTools, start
<1>6. QED
  BY <1>4, <1>5 DEF ToolsMade

-------------------------------------------------------------------------------
(* The items of a conversation say the truth of themselves.                  *)

\* A number that is an integer's, or no integer's: as a float, the power of two
\* behind MaxInt is taken for MaxInt (integer_valued_json_number).
Exact(n) ==
  n.halves \in Int /\ n.float \in BOOLEAN /\ ~(n.float /\ n.halves = 2 * (MaxInt + 1))

\* A call has the arguments the model wrote.
NumberKept(i) ==
  i.type \in CallTypes => Exact(i.number) /\ i.number.halves = i.made.number.halves

\* No model of any conversation, and no other client, writes that power of two.
ExactNumbers ==
  \A s \in DOMAIN Scenarios :
    LET c == Scenarios[s] IN
    /\ \A n \in c.numbers : Exact(n)
    /\ \A h \in c.seeds : \A k \in DOMAIN h : NumberKept(h[k])
    /\ \A i \in c.odd : NumberKept(i)

Honest(i) == Genuine(i) /\ (ExactNumbers => NumberKept(i))

HonestItems(items) == \A k \in DOMAIN items : Honest(items[k])

\* What is sent, and what is kept back, was parsed.
FromParsed(p) == \E k \in DOMAIN parsed : Projectable(parsed[k]) /\ p = GrokValue(parsed[k])

ValuesSent ==
  /\ \A k \in DOMAIN projected : FromParsed(projected[k])
  /\ \A k \in DOMAIN deferred : FromParsed(deferred[k])

HonestInv ==
  /\ scenario \in DOMAIN Scenarios
  /\ HonestItems(history) /\ HonestItems(input) /\ EntriesMade(map) /\ ValuesSent

\* integer_valued_json_number keeps the value of the numbers it is exact for.
LEMMA CanonicalKeeps ==
  ASSUME NEW n, Exact(n)
  PROVE  Exact(Canonical(n)) /\ Canonical(n).halves = n.halves
<1> DEFINE integer == Saturated(n.halves)
<1>1. MaxInt \in Nat /\ n.halves \in Int
  BY MaxIntAssumption DEF Exact
<1>2. CASE n.float /\ InRange(n.halves) /\ 2 * AsFloat(integer) = n.halves
  <2>1. Canonical(n) = [float |-> FALSE, halves |-> 2 * integer]
    BY <1>2 DEF Canonical
  <2>2. integer # MaxInt
    BY <1>1, <1>2 DEF Exact, AsFloat
  <2>3. 2 * integer = n.halves
    BY <1>2, <2>2 DEF AsFloat
  <2>4. QED
    BY <1>1, <2>1, <2>3 DEF Exact
<1>3. CASE ~(n.float /\ InRange(n.halves) /\ 2 * AsFloat(integer) = n.halves)
  BY <1>3 DEF Canonical
<1>4. QED
  BY <1>2, <1>3

\* A name in the map of a request stands for the pair it is made of.
LEMMA RestoredName ==
  ASSUME EntriesMade(map), NEW provider
  PROVE  Flat(Restored(map, provider).namespace, Restored(map, provider).name) = provider
<1>1. CASE Taken(map, provider)
  <2> DEFINE e == CHOOSE x \in map : x.provider = provider
  <2>1. e \in map /\ e.provider = provider
    BY <1>1 DEF Taken
  <2> HIDE DEF e
  <2>2. e.provider = Flat(e.namespace, e.name)
    <3>1. e = Entry(e.namespace, e.name)
      BY <2>1 DEF EntriesMade
    <3>2. Entry(e.namespace, e.name).provider = Flat(e.namespace, e.name)
      BY DEF Entry
    <3>3. QED
      BY <3>1, <3>2
  <2>3. Restored(map, provider) = [namespace |-> e.namespace, name |-> e.name]
    BY <1>1 DEF Restored, e
  <2>4. QED
    BY <2>1, <2>2, <2>3
<1>2. CASE ~Taken(map, provider)
  BY <1>2 DEF Restored, Flat
<1>3. QED
  BY <1>1, <1>2

\* What Codex records by itself.
LEMMA CodexItems ==
  ASSUME scenario \in DOMAIN Scenarios
  PROVE  /\ Honest(UserMessage)
         /\ \A call : Honest(Output(call)) /\ Honest(CustomOutput(call))
         /\ \A call, found : found \in Case.finds => Honest(SearchOutput(call, found))
         /\ \A i \in Case.odd : Honest(i)
<1>1. Honest(UserMessage)
  BY DEF Honest, Genuine, NumberKept, UserMessage, CallTypes, OutputTypes
<1>2. ASSUME NEW call PROVE Honest(Output(call)) /\ Honest(CustomOutput(call))
  BY DEF Honest, Genuine, NumberKept, Output, CustomOutput, CallTypes, OutputTypes
<1>3. ASSUME NEW call, NEW found, found \in Case.finds PROVE Honest(SearchOutput(call, found))
  <2>1. IsToolList(found)
    BY <1>3, ScenariosAssumption DEF Case
  <2>2. QED
    BY <2>1 DEF Honest, Genuine, NumberKept, SearchOutput, CallTypes, OutputTypes
<1>4. ASSUME NEW i \in Case.odd PROVE Honest(i)
  <2>1. Genuine(i)
    BY <1>4, ScenariosAssumption DEF Case
  <2>2. ExactNumbers => NumberKept(i)
    BY <1>4 DEF ExactNumbers, Case
  <2>3. QED
    BY <2>1, <2>2 DEF Honest
<1>5. QED
  BY <1>1, <1>2, <1>3, <1>4

\* A call of either kind, as a model made it.
LEMMA CallItems ==
  ASSUME NEW by, NEW named, NEW made, NEW call
  PROVE  /\ made.name = Flat(named.namespace, named.name) =>
              Genuine(Call(by, named, made, call))
         /\ made.name = SearchName /\ by \in {"none", "grok", "native"} =>
              Genuine(SearchCall(by, made, call))
         /\ Exact(made.number) =>
              NumberKept(Call(by, named, made, call)) /\ NumberKept(SearchCall(by, made, call))
<1>1. made.name = Flat(named.namespace, named.name) => Genuine(Call(by, named, made, call))
  BY DEF Call, Genuine, CallTypes, OutputTypes
<1>2. made.name = SearchName /\ by \in {"none", "grok", "native"} =>
        Genuine(SearchCall(by, made, call))
  BY DEF SearchCall, Genuine, CallTypes, OutputTypes
<1>3. ASSUME Exact(made.number)
      PROVE  NumberKept(Call(by, named, made, call)) /\ NumberKept(SearchCall(by, made, call))
  <2>1. Exact(Canonical(made.number)) /\ Canonical(made.number).halves = made.number.halves
    BY <1>3, CanonicalKeeps
  <2>2. QED
    BY <2>1 DEF Call, SearchCall, NumberKept
<1>4. QED
  BY <1>1, <1>2, <1>3

\* The same as the model itself wrote it.
LEMMA NativeItems ==
  ASSUME NEW by, NEW named, NEW made, NEW call
  PROVE  /\ made.name = Flat(named.namespace, named.name) =>
              Genuine(NativeCall(Call(by, named, made, call)))
         /\ made.name = SearchName /\ by \in {"none", "grok", "native"} =>
              Genuine(NativeCall(SearchCall(by, made, call)))
         /\ Exact(made.number) =>
              /\ NumberKept(NativeCall(Call(by, named, made, call)))
              /\ NumberKept(NativeCall(SearchCall(by, made, call)))
<1>1. made.name = Flat(named.namespace, named.name) =>
        Genuine(NativeCall(Call(by, named, made, call)))
  BY DEF NativeCall, Call, Genuine, CallTypes, OutputTypes
<1>2. made.name = SearchName /\ by \in {"none", "grok", "native"} =>
        Genuine(NativeCall(SearchCall(by, made, call)))
  BY DEF NativeCall, SearchCall, Genuine, CallTypes, OutputTypes
<1>3. ASSUME Exact(made.number)
      PROVE  /\ NumberKept(NativeCall(Call(by, named, made, call)))
             /\ NumberKept(NativeCall(SearchCall(by, made, call)))
  BY <1>3 DEF NativeCall, Call, SearchCall, NumberKept
<1>4. QED
  BY <1>1, <1>2, <1>3

\* What either model answers.
LEMMA AnswerItems ==
  ASSUME scenario \in DOMAIN Scenarios, EntriesMade(map)
  PROVE  /\ \A by : Honest(AssistantMessage(by)) /\ Honest(WebSearchCall(by))
         /\ \A call : Honest(CustomCall(call))
         /\ \A cipher \in Case.ciphers : Honest(Reasoning("grok", Marked(cipher)))
         /\ Honest(Reasoning("native", "foreign"))
         /\ \A name, n : n \in Case.numbers => Honest(RestoredCall([name |-> name, number |-> n]))
         /\ Honest(NativeCall(SearchCall("native", Made(SearchName), Fresh)))
         /\ \A n : Honest(NativeCall(Call("native", n, Made(Flat(n.namespace, n.name)), Fresh)))
<1>1. ASSUME NEW by PROVE Honest(AssistantMessage(by)) /\ Honest(WebSearchCall(by))
  BY DEF Honest, Genuine, NumberKept, AssistantMessage, WebSearchCall, CallTypes, OutputTypes
<1>2. ASSUME NEW call PROVE Honest(CustomCall(call))
  BY DEF Honest, Genuine, NumberKept, CustomCall, CallTypes, OutputTypes
<1>3. ASSUME NEW cipher \in Case.ciphers PROVE Honest(Reasoning("grok", Marked(cipher)))
  <2>1. cipher \in {"raw", "null"}
    BY <1>3, ScenariosAssumption DEF Case
  <2>2. Marked(cipher) \in {"grok", "null"}
    BY <2>1 DEF Marked
  <2>3. QED
    BY <2>2 DEF Honest, Genuine, NumberKept, Reasoning, CallTypes, OutputTypes
<1>4. Honest(Reasoning("native", "foreign"))
  BY DEF Honest, Genuine, NumberKept, Reasoning, CallTypes, OutputTypes
<1>5. ASSUME NEW n, n \in Case.numbers, ExactNumbers PROVE Exact(n)
  BY <1>5 DEF ExactNumbers, Case
<1>6. ASSUME NEW name, NEW n, n \in Case.numbers
      PROVE  Honest(RestoredCall([name |-> name, number |-> n]))
  <2> DEFINE made == [name |-> name, number |-> n]
  <2>1. made.name = name /\ made.number = n
    OBVIOUS
  <2> HIDE DEF made
  <2>2. CASE tools.search /\ name = SearchName
    <3>1. RestoredCall(made) = SearchCall("none", made, Fresh)
      BY <2>1, <2>2 DEF RestoredCall
    <3>2. Genuine(SearchCall("none", made, Fresh))
      BY <2>1, <2>2, CallItems
    <3>3. ExactNumbers => NumberKept(SearchCall("none", made, Fresh))
      BY <1>5, <1>6, <2>1, CallItems
    <3>4. QED
      BY <3>1, <3>2, <3>3 DEF Honest, made
  <2>3. CASE ~(tools.search /\ name = SearchName)
    <3>1. RestoredCall(made) = Call("grok", Restored(map, name), made, Fresh)
      BY <2>1, <2>3 DEF RestoredCall
    <3>2. made.name = Flat(Restored(map, name).namespace, Restored(map, name).name)
      BY <2>1, RestoredName
    <3>3. Genuine(Call("grok", Restored(map, name), made, Fresh))
      BY <3>2, CallItems
    <3>4. ExactNumbers => NumberKept(Call("grok", Restored(map, name), made, Fresh))
      BY <1>5, <1>6, <2>1, CallItems
    <3>5. QED
      BY <3>1, <3>3, <3>4 DEF Honest, made
  <2>4. QED
    BY <2>2, <2>3
<1>7. ASSUME NEW name PROVE Made(name).name = name /\ (ExactNumbers => Exact(Made(name).number))
  <2> DEFINE n == CHOOSE m \in Case.numbers : TRUE
  <2>1. n \in Case.numbers
    BY ScenariosAssumption DEF Case
  <2>2. Made(name) = [name |-> name, number |-> n]
    BY DEF Made
  <2> HIDE DEF n
  <2>3. QED
    BY <1>5, <2>1, <2>2
<1>8. Honest(NativeCall(SearchCall("native", Made(SearchName), Fresh)))
  <2>1. Genuine(NativeCall(SearchCall("native", Made(SearchName), Fresh)))
    BY <1>7, NativeItems
  <2>2. ExactNumbers => NumberKept(NativeCall(SearchCall("native", Made(SearchName), Fresh)))
    BY <1>7, NativeItems
  <2>3. QED
    BY <2>1, <2>2 DEF Honest
<1>9. ASSUME NEW n
      PROVE  Honest(NativeCall(Call("native", n, Made(Flat(n.namespace, n.name)), Fresh)))
  <2> DEFINE made == Made(Flat(n.namespace, n.name))
  <2>1. made.name = Flat(n.namespace, n.name) /\ (ExactNumbers => Exact(made.number))
    BY <1>7
  <2> HIDE DEF made
  <2>2. Genuine(NativeCall(Call("native", n, made, Fresh)))
    BY <2>1, NativeItems
  <2>3. ExactNumbers => NumberKept(NativeCall(Call("native", n, made, Fresh)))
    BY <2>1, NativeItems
  <2>4. QED
    BY <2>2, <2>3 DEF Honest, made
<1>10. QED
  BY <1>1, <1>2, <1>3, <1>4, <1>6, <1>8, <1>9

\* Whoever appends to a history, appends what is true.
LEMMA AppendedHonest ==
  ASSUME scenario \in DOMAIN Scenarios, EntriesMade(map),
         CodexRecords \/ GrokAnswers \/ NativeAnswers
  PROVE  \E i : Honest(i) /\ history' = Append(history, i)
<1>1. CASE CodexRecords
  <2>1. CASE UserSays
    BY <2>1, CodexItems DEF UserSays
  <2>2. CASE ToolReturns
    BY <2>2, CodexItems DEF ToolReturns
  <2>3. CASE OddItem
    BY <2>3, CodexItems DEF OddItem
  <2>4. QED
    BY <1>1, <2>1, <2>2, <2>3 DEF CodexRecords
<1>2. CASE GrokAnswers
  <2>1. CASE history' = Append(history, AssistantMessage("grok"))
    BY <2>1, AnswerItems
  <2>2. CASE \E cipher \in Case.ciphers :
               history' = Append(history, Reasoning("grok", Marked(cipher)))
    BY <2>2, AnswerItems
  <2>3. ASSUME NEW k \in DOMAIN OfferedTools(tools.list), NEW n \in Case.numbers, NEW tool,
               history' = Append(history, IF tool.kind = "function"
                                          THEN RestoredCall([name |-> tool.name, number |-> n])
                                          ELSE WebSearchCall("grok"))
        PROVE  \E i : Honest(i) /\ history' = Append(history, i)
    <3>1. Honest(RestoredCall([name |-> tool.name, number |-> n])) /\ Honest(WebSearchCall("grok"))
      BY AnswerItems
    <3>2. QED
      BY <2>3, <3>1
  <2>4. QED
    BY <1>2, <2>1, <2>2, <2>3 DEF GrokAnswers
<1>3. CASE NativeAnswers
  <2>1. PICK i \in {AssistantMessage("native"), Reasoning("native", "foreign"),
                    WebSearchCall("native"), CustomCall(Fresh),
                    NativeCall(SearchCall("native", Made(SearchName), Fresh))} \cup
                   {NativeCall(Call("native", n, Made(Flat(n.namespace, n.name)), Fresh)) :
                      n \in Case.names} : history' = Append(history, i)
    BY <1>3 DEF NativeAnswers
  <2>2. Honest(i)
    <3>1. CASE i \in {NativeCall(Call("native", n, Made(Flat(n.namespace, n.name)), Fresh)) :
                        n \in Case.names}
      BY <3>1, AnswerItems
    <3>2. CASE i \in {AssistantMessage("native"), Reasoning("native", "foreign"),
                      WebSearchCall("native"), CustomCall(Fresh),
                      NativeCall(SearchCall("native", Made(SearchName), Fresh))}
      BY <3>2, AnswerItems
    <3>3. QED
      BY <3>1, <3>2
  <2>3. QED
    BY <2>1, <2>2
<1>4. QED
  BY <1>1, <1>2, <1>3

\* An item of Moved was sent before, or kept back.
LEMMA MovedSent ==
  ASSUME NEW sent, NEW held, IsSequence(sent), IsSequence(held), NEW start \in 0 .. Len(sent),
         \A k \in DOMAIN sent : FromParsed(sent[k]), \A k \in DOMAIN held : FromParsed(held[k])
  PROVE  \A k \in DOMAIN Moved(sent, start, held) : FromParsed(Moved(sent, start, held)[k])
BY MovedFrom

\* One more item that is parsed.
LEMMA FromParsedStays ==
  ASSUME IsSequence(parsed), NEW i, parsed' = parsed \/ parsed' = Append(parsed, i),
         NEW p, FromParsed(p)
  PROVE  FromParsed(p)'
<1>1. PICK k \in DOMAIN parsed : Projectable(parsed[k]) /\ p = GrokValue(parsed[k])
  BY DEF FromParsed
<1>2. k \in DOMAIN parsed' /\ parsed'[k] = parsed[k]
  BY Appended
<1>3. QED
  BY <1>1, <1>2 DEF FromParsed

\* parse_input and project_input_for_xai keep the numbers.
LEMMA ValuesKeep ==
  ASSUME HistoryInv, ValuesSent, HistoryStep
  PROVE  ValuesSent'
<1>1. Sourced /\ Projected /\ IsSequence(parsed) /\ DOMAIN parsed = 1 .. Len(parsed)
  BY Sequences DEF HistoryInv, Sourced
<1>2. CASE Parse
  <2>1. /\ UNCHANGED <<deferred, projected>>
        /\ \E i : parsed' = parsed \/ parsed' = Append(parsed, i)
    BY <1>2
       DEF Parse, SkipUnknown, RejectMalformed, RejectUnmatched, DropDuplicate, AcceptOutput,
           AcceptCall, AcceptOther, ParsedAll, projectVars
  <2>2. PICK i : parsed' = parsed \/ parsed' = Append(parsed, i)
    BY <2>1
  <2>3. \A p : FromParsed(p) => FromParsed(p)'
    BY <1>1, <2>2, FromParsedStays
  <2>4. QED
    BY <2>1, <2>3 DEF ValuesSent
<1>3. CASE Project
  <2>1. parsed' = parsed /\ phase = "project"
    BY <1>3 DEF Project, DeferComment, ProjectItem, ProjectedAll, Projecting, parseVars
  <2>2. \A p : FromParsed(p) <=> FromParsed(p)'
    BY <2>1 DEF FromParsed
  <2>3. /\ IsSequence(projected) /\ IsSequence(deferred)
        /\ batchStart \in {NoBatch} \cup 0 .. Len(projected)
    BY <1>1, <2>1 DEF Projected, Batched, BatchOf, Comments
  <2>4. CASE DeferComment
    <3>1. /\ Projecting /\ Comment(parsed[pos])
          /\ deferred' = Append(deferred, GrokValue(parsed[pos])) /\ projected' = projected
      BY <2>4 DEF DeferComment
    <3>2. FromParsed(GrokValue(parsed[pos]))
      <4>1. pos \in DOMAIN parsed
        BY <1>1, <3>1, Sequences DEF Projecting, Sourced
      <4>2. QED
        BY <3>1, <4>1 DEF FromParsed, Comment, Projectable
    <3>3. \A k \in DOMAIN deferred' : FromParsed(deferred'[k])
      <4>1. /\ DOMAIN deferred = 1 .. Len(deferred) /\ DOMAIN deferred' = 1 .. Len(deferred) + 1
            /\ Len(deferred) \in Nat
            /\ \A k \in 1 .. Len(deferred) : deferred'[k] = deferred[k]
            /\ deferred'[Len(deferred) + 1] = GrokValue(parsed[pos])
        BY <2>3, <3>1, Appended
      <4>2. \A k \in DOMAIN deferred' : k \in DOMAIN deferred \/ k = Len(deferred) + 1
        BY <4>1
      <4>3. QED
        BY <3>2, <4>1, <4>2 DEF ValuesSent
    <3>4. QED
      BY <2>2, <3>1, <3>3 DEF ValuesSent
  <2>5. CASE ProjectItem
    <3> DEFINE p == parsed[pos]
    <3>1. Projecting /\ pos \in DOMAIN parsed
      <4>1. Projecting
        BY <2>5 DEF ProjectItem
      <4>2. QED
        BY <1>1, <4>1, Sequences DEF Projecting, Sourced
    <3>2. /\ IsSequence(SentAfter(p))
          /\ \A k \in DOMAIN SentAfter(p) : FromParsed(SentAfter(p)[k])
      <4>1. /\ IsSequence(SentAfter(p)) /\ Len(projected) \in Nat
            /\ DOMAIN projected = 1 .. Len(projected)
            /\ DOMAIN SentAfter(p) = 1 .. Len(SentAfter(p))
            /\ Len(SentAfter(p)) = IF Projectable(p) THEN Len(projected) + 1 ELSE Len(projected)
            /\ \A k \in DOMAIN projected : SentAfter(p)[k] = projected[k]
            /\ Projectable(p) => SentAfter(p)[Len(projected) + 1] = GrokValue(p)
        BY <2>3, SentElements
      <4> HIDE DEF p
      <4>2. \A k \in DOMAIN SentAfter(p) :
              k \in DOMAIN projected \/ (k = Len(projected) + 1 /\ Projectable(p))
        BY <4>1
      <4>3. Projectable(p) => FromParsed(GrokValue(p))
        BY <3>1 DEF FromParsed, p
      <4>4. QED
        BY <4>1, <4>2, <4>3 DEF ValuesSent
    <3>3. CASE OpenAfter(p) = {} /\ StartAfter(p) # NoBatch
      <4>1. projected' = Moved(SentAfter(p), StartAfter(p), deferred) /\ deferred' = <<>>
        BY <2>5, <3>3 DEF ProjectItem, CommentsMoved, Moved
      <4>2. StartAfter(p) \in 0 .. Len(SentAfter(p))
        <5>1. Batched(parsed, SentAfter(p), StartAfter(p), OpenAfter(p), pos + 1)
          BY <2>5, <3>1, SendKeeps DEF ProjectItem
        <5>2. QED
          BY <3>3, <5>1 DEF Batched, BatchOf
      <4>3. \A k \in DOMAIN projected' : FromParsed(projected'[k])
        BY <2>3, <3>2, <4>1, <4>2, MovedSent DEF ValuesSent
      <4>4. QED
        BY <2>2, <4>1, <4>3, NoItems DEF ValuesSent
    <3>4. CASE ~(OpenAfter(p) = {} /\ StartAfter(p) # NoBatch)
      <4>1. projected' = SentAfter(p) /\ deferred' = deferred
        BY <2>5, <3>4 DEF ProjectItem
      <4>2. QED
        BY <2>2, <3>2, <4>1 DEF ValuesSent
    <3>5. QED
      BY <3>3, <3>4
  <2>6. CASE ProjectedAll
    <3>1. CASE batchStart = NoBatch
      <4>1. projected' = projected /\ deferred' = deferred
        BY <2>6, <3>1 DEF ProjectedAll
      <4>2. QED
        BY <2>2, <4>1 DEF ValuesSent
    <3>2. CASE batchStart # NoBatch
      <4>1. projected' = Moved(projected, batchStart, deferred) /\ deferred' = <<>>
        BY <2>6, <3>2 DEF ProjectedAll, CommentsMoved, Moved
      <4>2. \A k \in DOMAIN projected' : FromParsed(projected'[k])
        BY <2>3, <3>2, <4>1, MovedSent DEF ValuesSent
      <4>3. QED
        BY <2>2, <4>1, <4>2, NoItems DEF ValuesSent
    <3>3. QED
      BY <3>1, <3>2
  <2>7. QED
    BY <1>3, <2>4, <2>5, <2>6 DEF Project
<1>4. QED
  BY <1>2, <1>3 DEF HistoryStep

\* ensure_provider_name enters the flat name of the pair.
LEMMA MapKeeps ==
  ASSUME EntriesMade(map), HistoryStep
  PROVE  EntriesMade(map')
<1>1. map' = map \/ map' = MapAfter(Item)
  BY DEF HistoryStep, Project, DeferComment, ProjectItem, ProjectedAll, parseVars, Parse,
     SkipUnknown, RejectMalformed, RejectUnmatched, DropDuplicate, AcceptOutput, AcceptCall,
     AcceptOther, ParsedAll
<1>2. EntriesMade(MapAfter(Item))
  <2>1. ASSUME NEW e \in MapAfter(Item) PROVE e \in map \/ \E namespace, name : e = Entry(namespace, name)
    BY <2>1 DEF MapAfter, Ensured
  <2>2. \A namespace, name : LET e == Entry(namespace, name) IN e = Entry(e.namespace, e.name)
    BY DEF Entry
  <2>3. QED
    BY <2>1, <2>2 DEF EntriesMade
<1>3. QED
  BY <1>1, <1>2

\* The history a conversation begins with is genuine.
LEMMA HonestInitHolds == ConversationInit => HonestInv
<1> SUFFICES ASSUME ConversationInit PROVE HonestInv
  OBVIOUS
<1>1. /\ input = <<>> /\ map = {} /\ deferred = <<>> /\ projected = <<>>
      /\ scenario \in DOMAIN Scenarios /\ history \in Scenarios[scenario].seeds
  BY DEF ConversationInit, HistoryInit, Case
<1>2. HonestItems(history)
  BY <1>1, ScenariosAssumption DEF HonestItems, Honest, ExactNumbers
<1>3. HonestItems(input) /\ EntriesMade(map) /\ ValuesSent
  BY <1>1, NoItems DEF HonestItems, EntriesMade, ValuesSent
<1>4. QED
  BY <1>1, <1>2, <1>3 DEF HonestInv

\* Every step keeps it genuine, and the map right.
LEMMA HonestKeeps ==
  ConversationInv /\ HonestInv /\ [ConversationNext]_conversationVars => HonestInv'
<1> SUFFICES ASSUME ConversationInv, HonestInv, [ConversationNext]_conversationVars
             PROVE  HonestInv'
  OBVIOUS
<1>1. /\ HistoryInv /\ IsSequence(history) /\ scenario \in DOMAIN Scenarios
      /\ HonestItems(history) /\ HonestItems(input) /\ EntriesMade(map) /\ ValuesSent
  BY DEF ConversationInv, HistoryInv, Sourced, HonestInv
<1>2. scenario' = scenario
  BY DEF ConversationNext, CodexRecords, StartGrok, Prepare, RefuseHistory, SendToGrok,
     GrokAnswers, StartNative, NativeAnswers, EndTurn, codexVars, conversationVars
<1>3. ASSUME UNCHANGED historyVars
      PROVE  HonestItems(input)' /\ EntriesMade(map)' /\ ValuesSent'
  <2>1. UNCHANGED <<input, map, parsed, deferred, projected>>
    BY <1>3 DEF historyVars
  <2>2. QED
    BY <1>1, <2>1 DEF HonestItems, EntriesMade, ValuesSent, FromParsed
<1>4. ASSUME NEW items, NEW next, NEW declared, Blank(items, next, declared),
             HonestItems(items), EntriesMade(declared)
      PROVE  HonestItems(input)' /\ EntriesMade(map)' /\ ValuesSent'
  <2>1. input' = items /\ map' = declared /\ deferred' = <<>> /\ projected' = <<>>
    BY <1>4 DEF Blank
  <2>2. QED
    BY <1>4, <2>1, NoItems DEF HonestItems, EntriesMade, ValuesSent
<1>5. CASE CodexRecords \/ GrokAnswers \/ NativeAnswers
  <2>1. UNCHANGED historyVars
    BY <1>5 DEF CodexRecords, GrokAnswers, NativeAnswers
  <2>2. PICK i : Honest(i) /\ history' = Append(history, i)
    BY <1>1, <1>5, AppendedHonest
  <2>3. HonestItems(history)'
    <3>1. /\ DOMAIN history = 1 .. Len(history) /\ DOMAIN history' = 1 .. Len(history) + 1
          /\ Len(history) \in Nat
          /\ \A k \in 1 .. Len(history) : history'[k] = history[k]
          /\ history'[Len(history) + 1] = i
      BY <1>1, <2>2, Appended
    <3>2. \A k \in DOMAIN history' : k \in DOMAIN history \/ k = Len(history) + 1
      BY <3>1
    <3>3. QED
      BY <1>1, <2>2, <3>1, <3>2 DEF HonestItems
  <2>4. QED
    BY <1>1, <1>2, <1>3, <2>1, <2>3 DEF HonestInv
<1>6. CASE StartGrok
  <2>1. history' = history
    BY <1>6 DEF StartGrok
  <2>2. CASE UNCHANGED historyVars
    BY <1>1, <1>2, <1>3, <2>1, <2>2 DEF HonestInv
  <2>3. ASSUME NEW c \in Case.catalogs, Begin(history, AdmittedTools(c.field, c.list, history).map)
        PROVE  HonestInv'
    <3>1. IsToolList(c.list)
      BY <1>1, ScenariosAssumption DEF Case
    <3>2. \A k \in DOMAIN history : Genuine(history[k])
      BY <1>1 DEF HonestItems, Honest
    <3>3. EntriesMade(AdmittedTools(c.field, c.list, history).map)
      BY <1>1, <3>1, <3>2, AdmittedMade
    <3>4. HonestItems(input)' /\ EntriesMade(map)' /\ ValuesSent'
      BY <1>1, <1>4, <2>3, <3>3 DEF Begin
    <3>5. QED
      BY <1>1, <1>2, <2>1, <3>4 DEF HonestInv
  <2>4. QED
    BY <1>6, <2>2, <2>3 DEF StartGrok
<1>7. CASE Prepare
  <2>1. HistoryStep /\ history' = history
    BY <1>7 DEF Prepare, codexVars
  <2>2. input' = input
    BY <2>1
       DEF HistoryStep, Project, DeferComment, ProjectItem, ProjectedAll, Parse, SkipUnknown,
           RejectMalformed, RejectUnmatched, DropDuplicate, AcceptOutput, AcceptCall, AcceptOther,
           ParsedAll, parseVars
  <2>3. EntriesMade(map)' /\ ValuesSent'
    BY <1>1, <2>1, MapKeeps, ValuesKeep
  <2>4. QED
    BY <1>1, <1>2, <2>1, <2>2, <2>3 DEF HonestInv, HonestItems
<1>8. CASE RefuseHistory \/ EndTurn
  <2>1. Blank(<<>>, "idle", {}) /\ history' = history
    BY <1>8 DEF RefuseHistory, EndTurn, Drop
  <2>2. HonestItems(<<>>) /\ EntriesMade({})
    BY NoItems DEF HonestItems, EntriesMade
  <2>3. HonestItems(input)' /\ EntriesMade(map)' /\ ValuesSent'
    BY <1>4, <2>1, <2>2
  <2>4. QED
    BY <1>1, <1>2, <2>1, <2>3 DEF HonestInv
<1>9. CASE SendToGrok \/ StartNative \/ UNCHANGED conversationVars
  <2>1. UNCHANGED historyVars /\ history' = history
    BY <1>9 DEF SendToGrok, StartNative, codexVars, conversationVars
  <2>2. QED
    BY <1>1, <1>2, <1>3, <2>1 DEF HonestInv
<1>10. QED
  BY <1>5, <1>6, <1>7, <1>8, <1>9 DEF ConversationNext

\* HonestInv is an invariant, beside the one of the projection.
LEMMA HonestInvariant == ConversationSpec => [](ConversationInv /\ HonestInv)
<1>1. ConversationInit => ConversationInv /\ HonestInv
  BY ConversationInitHolds, HonestInitHolds
<1>2. ConversationInv /\ HonestInv /\ [ConversationNext]_conversationVars =>
        ConversationInv' /\ HonestInv'
  BY ConversationNextKeeps, HonestKeeps
<1>3. QED
  BY <1>1, <1>2, PTL DEF ConversationSpec

\* Whatever becomes of the tools, a call a model made goes back to Grok under the
\* name the model called and with arguments of the same value, as long as no
\* argument is the one power of two that changes.
THEOREM CallsReplayedHolds == ConversationSpec => [](ExactNumbers => CallsReplayed)
<1>1. ConversationInv /\ HonestInv => (ExactNumbers => CallsReplayed)
  <2> SUFFICES ASSUME ConversationInv, HonestInv, ExactNumbers,
                      NEW k \in DOMAIN projected, projected[k].kind = "function_call"
               PROVE  LET made == input[projected[k].at].made
                      IN  /\ projected[k].name = made.name
                          /\ projected[k].number.halves = made.number.halves
    BY DEF CallsReplayed
  <2>1. PICK j \in DOMAIN parsed : Projectable(parsed[j]) /\ projected[k] = GrokValue(parsed[j])
    BY DEF HonestInv, ValuesSent, FromParsed
  <2> DEFINE at == parsed[j].at
             i == input[at]
  <2>2. Sourced /\ at \in DOMAIN input /\ parsed[j] = Parsed(i, at)
    BY DEF ConversationInv, HistoryInv, Sourced
  <2>3. projected[k].at = at /\ IsCall(parsed[j])
    BY <2>1, <2>2, ParsedKeeps
  <2>4. Genuine(i) /\ NumberKept(i)
    BY <2>2 DEF HonestInv, HonestItems, Honest
  <2> HIDE DEF at, i
  <2>5. i.type \in CallTypes
    BY <2>2, <2>3, ParsedFields
  <2>6. Canonical(i.number).halves = i.made.number.halves
    BY <2>4, <2>5, CanonicalKeeps DEF NumberKept
  <2>7. CASE i.type = "function_call"
    <3>1. parsed[j] = [kind |-> "function_call", call |-> i.call, at |-> at,
                       name |-> Flat(i.namespace, i.name), number |-> Canonical(i.number)]
      BY <2>2, <2>7 DEF Parsed, OutputTypes
    <3>2. projected[k].name = Flat(i.namespace, i.name) /\ projected[k].number = Canonical(i.number)
      BY <2>1, <3>1 DEF GrokValue
    <3>3. i.made.name = Flat(i.namespace, i.name)
      BY <2>4, <2>7 DEF Genuine
    <3>4. QED
      BY <2>3, <2>6, <3>2, <3>3 DEF i
  <2>8. CASE i.type = "tool_search_call"
    <3>1. parsed[j] = [kind |-> i.type, call |-> i.call, at |-> at,
                       number |-> Canonical(i.number)]
      BY <2>2, <2>8 DEF Parsed, OutputTypes
    <3>2. projected[k].name = SearchName /\ projected[k].number = Canonical(i.number)
      BY <2>1, <2>8, <3>1 DEF GrokValue
    <3>3. i.made.name = SearchName
      BY <2>4, <2>8 DEF Genuine
    <3>4. QED
      BY <2>3, <2>6, <3>2, <3>3 DEF i
  <2>9. QED
    BY <2>5, <2>7, <2>8 DEF CallTypes
<1>2. QED
  BY <1>1, HonestInvariant, PTL

-------------------------------------------------------------------------------
(* Tools that are compatible can always be merged.                           *)

\* Tools that were made of declared and of found ones: nothing was refused, all
\* that was declared (`least`) is there, and all that is there is one of `all`.
Merged(least, all, t) ==
  ToolsMade(t) /\ t.ok /\ least \subseteq Meanings(t) /\ Meanings(t) \subseteq all

\* A tool that is added has the meaning it was found with, and changes no other.
LEMMA MeaningsAdded ==
  ASSUME NEW t, ToolsMade(t), NEW found, NEW tool, IsTool(tool),
         \A k \in DOMAIN t.list : ~Alike(t.list[k], tool),
         NEW u, u.list = Append(t.list, tool),
         u.map = t.map \cup (IF tool.kind = "function"
                             THEN {e \in found.map : e.provider = tool.name} ELSE {}),
         u.search = (t.search \/ (tool.kind = "function" /\ found.search /\ tool.name = SearchName))
  PROVE  Meanings(u) = Meanings(t) \cup {Meaning(found, tool)}
<1> DEFINE n == Len(t.list)
<1>1. /\ n \in Nat /\ DOMAIN t.list = 1 .. n /\ DOMAIN u.list = 1 .. n + 1
      /\ \A k \in 1 .. n : u.list[k] = t.list[k]
      /\ u.list[n + 1] = tool
  BY Appended DEF ToolsMade
<1> HIDE DEF n
<1>2. Meaning(u, tool) = Meaning(found, tool)
  <2>1. CASE tool.kind = "function"
    <3>1. tool.name \notin FunctionNames(t.list)
      BY <2>1 DEF FunctionNames, Alike
    <3>2. \A e \in t.map : e.provider # tool.name
      BY <3>1 DEF ToolsMade
    <3>3. {e \in u.map : e.provider = tool.name} = {e \in found.map : e.provider = tool.name}
      BY <2>1, <3>2
    <3>4. t.search => tool.name # SearchName
      BY <3>1 DEF ToolsMade
    <3>5. (u.search /\ tool.name = SearchName) = (found.search /\ tool.name = SearchName)
      BY <2>1, <3>4
    <3>6. QED
      BY <3>3, <3>5 DEF Meaning
  <2>2. CASE tool.kind # "function"
    BY <2>2 DEF Meaning
  <2>3. QED
    BY <2>1, <2>2
<1>3. ASSUME NEW k \in DOMAIN t.list PROVE Meaning(u, t.list[k]) = Meaning(t, t.list[k])
  <2> DEFINE x == t.list[k]
  <2>1. CASE x.kind = "function"
    <3>1. tool.kind = "function" => x.name # tool.name
      BY <2>1 DEF Alike
    <3> HIDE DEF x
    <3>2. {e \in u.map : e.provider = x.name} = {e \in t.map : e.provider = x.name}
      BY <3>1
    <3>3. (u.search /\ x.name = SearchName) = (t.search /\ x.name = SearchName)
      BY <3>1
    <3>4. Meaning(u, x) = Meaning(t, x)
      BY <3>2, <3>3 DEF Meaning
    <3>5. QED
      BY <3>4 DEF x
  <2>2. CASE x.kind # "function"
    BY <2>2 DEF Meaning
  <2>3. QED
    BY <2>1, <2>2
<1>4. ASSUME NEW m PROVE m \in Meanings(u) <=> m \in Meanings(t) \cup {Meaning(found, tool)}
  <2>1. \A k : k \in 1 .. n + 1 <=> k \in 1 .. n \/ k = n + 1
    BY <1>1
  <2>2. m \in Meanings(u) <=> \E k \in 1 .. n + 1 : m = Meaning(u, u.list[k])
    BY <1>1 DEF Meanings
  <2>3. m \in Meanings(t) <=> \E k \in 1 .. n : m = Meaning(t, t.list[k])
    BY <1>1 DEF Meanings
  <2>4. QED
    BY <1>1, <1>2, <1>3, <2>1, <2>2, <2>3
<1>5. QED
  BY <1>4

\* As long as one of the tools is missing there is room for it.
LEMMA RoomLeft ==
  ASSUME NEW all, MeaningsAgree(all), NEW t, ToolsMade(t), Meanings(t) \subseteq all,
         NEW m \in all, m \notin Meanings(t)
  PROVE  Len(t.list) \in Nat /\ Len(t.list) < MaxTools
<1> DEFINE n == Len(t.list)
           f == [k \in 1 .. n |-> Meaning(t, t.list[k])]
<1>1. n \in Nat /\ DOMAIN t.list = 1 .. n
  BY Sequences DEF ToolsMade
<1>2. f \in [1 .. n -> all]
  BY <1>1 DEF Meanings
<1>3. ASSUME NEW j \in 1 .. n, NEW k \in 1 .. n, f[j] = f[k] PROVE j = k
  <2>1. Meaning(t, t.list[j]).tool = t.list[j] /\ Meaning(t, t.list[k]).tool = t.list[k]
    BY DEF Meaning
  <2>2. t.list[j] = t.list[k]
    BY <1>3, <2>1
  <2>3. Alike(t.list[j], t.list[k])
    BY <2>2 DEF Alike
  <2>4. QED
    BY <1>1, <2>3 DEF ToolsMade
<1>4. f \in Injection(1 .. n, all)
  BY <1>2, <1>3 DEF Injection, IsInjective
<1>5. f \notin Surjection(1 .. n, all)
  <2>1. \A k \in 1 .. n : f[k] # m
    BY <1>1 DEF Meanings
  <2>2. QED
    BY <2>1 DEF Surjection
<1>6. Cardinality(1 .. n) = n
  <2>1. 1 \in Int /\ n \in Int
    BY <1>1
  <2>2. Cardinality(1 .. n) = IF 1 > n THEN 0 ELSE n - 1 + 1
    BY <2>1, FS_Interval
  <2>3. QED
    BY <1>1, <2>2
<1>7. Cardinality(all) \in Nat /\ Cardinality(all) <= MaxTools
  BY FS_CardinalityType DEF MeaningsAgree
<1> HIDE DEF f
<1>8. n <= Cardinality(all) /\ n # Cardinality(all)
  BY <1>4, <1>5, <1>6, FS_Injection DEF MeaningsAgree
<1>9. QED
  BY <1>1, <1>7, <1>8, MaxToolsAssumption

\* A found tool is known, and means the same, or can be added.
LEMMA DiscoveredMerges ==
  ASSUME NEW all, MeaningsAgree(all), NEW least, NEW t, Merged(least, all, t),
         NEW found, ToolsMade(found), Meanings(found) \subseteq all,
         NEW tool, IsTool(tool), Meaning(found, tool) \in all
  PROVE  Merged(least, all, WithDiscovered(t, tool, found))
<1> DEFINE there == {e \in found.map : e.provider = tool.name}
           searchThere == found.search /\ tool.name = SearchName
           u == [t EXCEPT !.list = Append(@, tool), !.map = @ \cup there,
                          !.search = @ \/ searchThere]
           w == [t EXCEPT !.list = Append(@, tool)]
           meaning == Meaning(found, tool)
<1>1. ToolsMade(t) /\ t.ok /\ ToolsMade(WithDiscovered(t, tool, found))
  BY WithDiscoveredMade DEF Merged
<1>2. meaning.tool = tool
  BY DEF Meaning
<1>3. ASSUME \A k \in DOMAIN t.list : ~Alike(t.list[k], tool)
      PROVE  Len(t.list) \in Nat /\ Len(t.list) < MaxTools /\ ~(Len(t.list) >= MaxTools)
  <2>1. meaning \notin Meanings(t)
    <3>1. \A k \in DOMAIN t.list : Meaning(t, t.list[k]).tool = t.list[k]
      BY DEF Meaning
    <3>2. Alike(tool, tool)
      BY DEF Alike
    <3> HIDE DEF meaning
    <3>3. QED
      BY <1>2, <1>3, <3>1, <3>2 DEF Meanings
  <2>2. Len(t.list) \in Nat /\ Len(t.list) < MaxTools
    <3> HIDE DEF meaning
    <3>1. meaning \in all
      BY DEF meaning
    <3>2. QED
      BY <2>1, <3>1, RoomLeft DEF Merged
  <2>3. QED
    BY <2>2, MaxToolsAssumption
<1>4. CASE tool.kind = "function" /\ tool.name \in FunctionNames(t.list)
  <2>1. PICK k \in DOMAIN t.list : t.list[k].kind = "function" /\ t.list[k].name = tool.name
    BY <1>4 DEF FunctionNames
  <2>2. Meaning(t, t.list[k]) = Meaning(found, tool)
    <3>1. Meaning(t, t.list[k]) \in all /\ Meaning(found, tool) \in all
      BY DEF Merged, Meanings
    <3>2. Meaning(t, t.list[k]).tool = t.list[k] /\ Meaning(found, tool).tool = tool
      BY DEF Meaning
    <3>3. QED
      BY <1>4, <2>1, <3>1, <3>2 DEF MeaningsAgree
  <2>3. /\ t.list[k] = tool
        /\ {e \in t.map : e.provider = tool.name} = there
        /\ (t.search /\ tool.name = SearchName) = searchThere
    <3>1. Meaning(t, t.list[k]) =
            [tool |-> t.list[k], entries |-> {e \in t.map : e.provider = tool.name},
             search |-> (t.search /\ tool.name = SearchName)]
      BY <2>1 DEF Meaning
    <3>2. Meaning(found, tool) = [tool |-> tool, entries |-> there, search |-> searchThere]
      BY <1>4 DEF Meaning
    <3> HIDE DEF there, searchThere
    <3>3. [tool |-> t.list[k], entries |-> {e \in t.map : e.provider = tool.name},
           search |-> (t.search /\ tool.name = SearchName)] =
          [tool |-> tool, entries |-> there, search |-> searchThere]
      BY <2>2, <3>1, <3>2
    <3>4. t.list[k] = tool
      BY <3>3
    <3>5. {e \in t.map : e.provider = tool.name} = there
      BY <3>3
    <3>6. (t.search /\ tool.name = SearchName) = searchThere
      BY <3>3, Zenon
    <3>7. QED
      BY <3>4, <3>5, <3>6
  <2>4. WithDiscovered(t, tool, found) = t
    BY <1>1, <1>4, <2>1, <2>3 DEF WithDiscovered, WithDiscoveredFunction
  <2>5. QED
    BY <2>4
<1>5. CASE tool.kind = "function" /\ tool.name \notin FunctionNames(t.list)
  <2>1. \A k \in DOMAIN t.list : ~Alike(t.list[k], tool)
    BY <1>5, NewName
  <2>2. {e \in t.map : e.provider = tool.name} = {}
    BY <1>5 DEF Merged, ToolsMade
  <2>3. ~(t.search /\ tool.name = SearchName)
    BY <1>5 DEF Merged, ToolsMade
  <2>4. ~(searchThere /\ t.search)
    BY <2>3
  <2>5. ASSUME NEW e \in there PROVE Insertable(t.map, e.namespace, e.name)
    <3>1. e.provider = tool.name /\ e = Entry(e.namespace, e.name)
      BY DEF ToolsMade, EntriesMade
    <3>2. Flat(e.namespace, e.name) = tool.name
      BY <3>1 DEF Entry
    <3>3. \A x \in t.map : x.provider # tool.name /\ x = Entry(x.namespace, x.name)
      BY <2>2 DEF Merged, ToolsMade, EntriesMade
    <3>4. \A x \in t.map : ~(x.namespace = e.namespace /\ x.name = e.name)
      BY <3>1, <3>3
    <3>5. QED
      BY <3>2, <3>3, <3>4 DEF Insertable, Known, Taken
  <2>6. WithDiscovered(t, tool, found) = u
    BY <1>1, <1>3, <1>5, <2>1, <2>2, <2>3, <2>4, <2>5 DEF WithDiscovered, WithDiscoveredFunction
  <2>7. /\ u.list = Append(t.list, tool) /\ u.map = t.map \cup there
        /\ u.search = (t.search \/ searchThere) /\ u.ok = t.ok
    BY <1>1 DEF ToolsMade
  <2> HIDE DEF u
  <2>8. Meanings(u) = Meanings(t) \cup {Meaning(found, tool)}
    BY <1>1, <1>5, <2>1, <2>7, MeaningsAdded
  <2>9. QED
    BY <1>1, <2>6, <2>7, <2>8 DEF Merged
<1>6. CASE tool.kind # "function" /\ HasWebSearch(t.list)
  BY <1>1, <1>6 DEF WithDiscovered
<1>7. CASE tool.kind # "function" /\ ~HasWebSearch(t.list)
  <2>1. \A k \in DOMAIN t.list : ~Alike(t.list[k], tool)
    BY <1>7 DEF HasWebSearch, Alike, IsTool
  <2>2. WithDiscovered(t, tool, found) = w
    BY <1>1, <1>3, <1>7, <2>1 DEF WithDiscovered
  <2>3. /\ w.list = Append(t.list, tool) /\ w.map = t.map /\ w.search = t.search /\ w.ok = t.ok
    BY <1>1 DEF ToolsMade
  <2> HIDE DEF w
  <2>4. Meanings(w) = Meanings(t) \cup {Meaning(found, tool)}
    <3>1. t.search \in BOOLEAN /\ w.search = (t.search \/ FALSE) /\ w.map = t.map \cup {}
      BY <1>1, <2>3 DEF ToolsMade
    <3>2. QED
      BY <1>1, <1>7, <2>1, <2>3, <3>1, MeaningsAdded
  <2>5. QED
    BY <1>1, <2>2, <2>3, <2>4 DEF Merged
<1>8. QED
  BY <1>4, <1>5, <1>6, <1>7

\* The folds that merge tools, for what each may depend on.
FoundTools == INSTANCE Folding WITH
  Op <- LAMBDA c, t, tool : WithDiscovered(t, tool, c.found),
  Holds <- LAMBDA c, s, t : Merged(c.least, c.all, t)
FoundSpecs == INSTANCE Folding WITH
  Op <- LAMBDA c, t, spec : WithFound(t, spec, c.field),
  Holds <- LAMBDA c, s, t : Merged(c.least, c.all, t)
FoundItems == INSTANCE Folding WITH
  Op <- LAMBDA c, t, item : WithOutput(t, item, c.field),
  Holds <- LAMBDA c, s, t : Merged(c.least, c.all, t)

\* All tools of a found specification are merged.
LEMMA FoundMerges ==
  ASSUME NEW all, MeaningsAgree(all), NEW least, NEW t, Merged(least, all, t),
         NEW spec, spec.type = "namespace" => IsSequence(spec.members),
         ParsedTools(<<spec>>).ok, Meanings(ParsedTools(<<spec>>)) \subseteq all
  PROVE  Merged(least, all, WithFound(t, spec, "list"))
<1> DEFINE found == ParsedTools(<<spec>>)
           S == {found.list[k] : k \in DOMAIN found.list}
           c == [found |-> found, least |-> least, all |-> all]
<1>1. ToolsMade(found)
  BY SingleMade
<1>2. found.ok /\ Meanings(found) \subseteq all
  OBVIOUS
<1> HIDE DEF found
<1>3. found.list \in Seq(S) /\ \A x \in S : IsTool(x) /\ Meaning(found, x) \in all
  BY <1>1, <1>2 DEF ToolsMade, IsSequence, Meanings
<1>4. \A x \in S : \A s : Merged(least, all, s) => Merged(least, all, WithDiscovered(s, x, found))
  BY <1>1, <1>2, <1>3, DiscoveredMerges
<1>5. Merged(least, all, FoundTools!Fold(c, t, found.list))
  <2>1. c.found = found /\ c.least = least /\ c.all = all
    OBVIOUS
  <2> HIDE DEF S, c
  <2>2. Merged(c.least, c.all, FoundTools!Fold(c, t, found.list))
    BY <1>3, <1>4, <2>1, FoundTools!FoldKeeps
  <2>3. QED
    BY <2>1, <2>2
<1>6. FoldLeft(LAMBDA s, tool : WithDiscovered(s, tool, found), t, found.list) =
        FoundTools!Fold(c, t, found.list)
  <2>1. c.found = found
    OBVIOUS
  <2> HIDE DEF c
  <2>2. FoldLeft(LAMBDA s, tool : WithDiscovered(s, tool, found), t, found.list) =
          FoundTools!Iter(c, t, found.list)[DOMAIN found.list]
    BY <2>1 DEF FoldLeft, MapThenFoldSet, FoundTools!Iter, FoundTools!Folded, FoundTools!Max, Max
  <2>3. QED
    BY <2>2, FoundTools!FoldIs
<1>7. WithFound(t, spec, "list") =
        FoldLeft(LAMBDA s, tool : WithDiscovered(s, tool, found), t, found.list)
  BY <1>2 DEF WithFound, found, Merged
<1>8. QED
  BY <1>5, <1>6, <1>7

\* What a search may find: each specification is in order, and agrees with the
\* others.
Findable(all, specs) ==
  \A spec \in specs :
    /\ spec.type = "namespace" => IsSequence(spec.members)
    /\ ParsedTools(<<spec>>).ok /\ Meanings(ParsedTools(<<spec>>)) \subseteq all

\* An item of the history that found nothing else.
Finds(specs, item) ==
  item.type = "tool_search_output" =>
    item.valid /\ IsSequence(item.tools) /\ {item.tools[k] : k \in DOMAIN item.tools} \subseteq specs

\* All specifications of an item are merged.
LEMMA OutputMerges ==
  ASSUME NEW all, MeaningsAgree(all), NEW least, NEW t, Merged(least, all, t),
         NEW specs, Findable(all, specs), NEW field, specs # {} => field = "list",
         NEW item, Finds(specs, item)
  PROVE  Merged(least, all, WithOutput(t, item, field))
<1>1. CASE item.type # "tool_search_output"
  BY <1>1 DEF WithOutput
<1>2. CASE item.type = "tool_search_output"
  <2> DEFINE S == {item.tools[k] : k \in DOMAIN item.tools}
             c == [field |-> field, least |-> least, all |-> all]
  <2>1. item.valid /\ item.tools \in Seq(S) /\ S \subseteq specs
    BY <1>2 DEF Finds, IsSequence
  <2>2. \A x \in S : \A s : Merged(least, all, s) => Merged(least, all, WithFound(s, x, field))
    <3> HIDE DEF S
    <3>1. \A x \in S : field = "list"
      BY <2>1
    <3>2. QED
      BY <2>1, <3>1, FoundMerges DEF Findable
  <2>3. Merged(least, all, FoundSpecs!Fold(c, t, item.tools))
    <3>1. c.field = field /\ c.least = least /\ c.all = all
      OBVIOUS
    <3> HIDE DEF S, c
    <3>2. Merged(c.least, c.all, FoundSpecs!Fold(c, t, item.tools))
      BY <2>1, <2>2, <3>1, FoundSpecs!FoldKeeps
    <3>3. QED
      BY <3>1, <3>2
  <2>4. FoldLeft(LAMBDA s, spec : WithFound(s, spec, field), t, item.tools) =
          FoundSpecs!Fold(c, t, item.tools)
    <3>1. c.field = field
      OBVIOUS
    <3> HIDE DEF c
    <3>2. FoldLeft(LAMBDA s, spec : WithFound(s, spec, field), t, item.tools) =
            FoundSpecs!Iter(c, t, item.tools)[DOMAIN item.tools]
      BY <3>1 DEF FoldLeft, MapThenFoldSet, FoundSpecs!Iter, FoundSpecs!Folded, FoundSpecs!Max, Max
    <3>3. QED
      BY <3>2, FoundSpecs!FoldIs
  <2>5. WithOutput(t, item, field) =
          FoldLeft(LAMBDA s, spec : WithFound(s, spec, field), t, item.tools)
    BY <1>2, <2>1 DEF WithOutput
  <2>6. QED
    BY <2>3, <2>4, <2>5
<1>3. QED
  BY <1>1, <1>2

\* What the items of a history make of the tools there are.
AddedTo(start, items, field) ==
  FoldLeft(LAMBDA t, item : WithOutput(t, item, field), start, items)

\* A history that found nothing else adds to what was declared.
LEMMA HistoryMerges ==
  ASSUME NEW all, MeaningsAgree(all), NEW start, ToolsMade(start), start.ok, Meanings(start) \subseteq all,
         NEW specs, Findable(all, specs), NEW field, specs # {} => field = "list",
         NEW items, IsSequence(items), \A k \in DOMAIN items : Finds(specs, items[k])
  PROVE  Merged(Meanings(start), all, AddedTo(start, items, field))
<1> DEFINE S == {items[k] : k \in DOMAIN items}
           least == Meanings(start)
           c == [field |-> field, least |-> least, all |-> all]
<1>1. items \in Seq(S) /\ \A x \in S : Finds(specs, x)
  BY DEF IsSequence
<1>2. Merged(least, all, start)
  BY DEF Merged
<1> HIDE DEF S, least
<1>3. \A x \in S : \A s : Merged(least, all, s) => Merged(least, all, WithOutput(s, x, field))
  BY <1>1, OutputMerges
<1>4. Merged(least, all, FoundItems!Fold(c, start, items))
  <2>1. c.field = field /\ c.least = least /\ c.all = all
    OBVIOUS
  <2> HIDE DEF c
  <2>2. Merged(c.least, c.all, FoundItems!Fold(c, start, items))
    BY <1>1, <1>2, <1>3, <2>1, FoundItems!FoldKeeps
  <2>3. QED
    BY <2>1, <2>2
<1>5. FoldLeft(LAMBDA t, item : WithOutput(t, item, field), start, items) =
        FoundItems!Fold(c, start, items)
  <2>1. c.field = field
    OBVIOUS
  <2> HIDE DEF c
  <2>2. FoldLeft(LAMBDA t, item : WithOutput(t, item, field), start, items) =
          FoundItems!Iter(c, start, items)[DOMAIN items]
    BY <2>1 DEF FoldLeft, MapThenFoldSet, FoundItems!Iter, FoundItems!Folded, FoundItems!Max, Max
  <2>3. QED
    BY <2>2, FoundItems!FoldIs
<1>6. QED
  BY <1>4, <1>5 DEF least, AddedTo

-------------------------------------------------------------------------------
(* Legal conversations.                                                      *)

All(c, d) == UNION {Meanings(t) : t \in Parses(c, d)}

\* What searches find in a conversation is made of lists of tools.
LEMMA FoundTyped ==
  ASSUME NEW s \in DOMAIN Scenarios, NEW spec \in Found(Scenarios[s])
  PROVE  spec.type = "namespace" => IsSequence(spec.members)
<1> DEFINE c == Scenarios[s]
<1>1. /\ \A h \in c.seeds : \A k \in DOMAIN h : Genuine(h[k])
      /\ \A i \in c.odd : Genuine(i)
      /\ \A found \in c.finds : IsToolList(found)
  BY ScenariosAssumption
<1> HIDE DEF c
<1>2. \A i \in Outside(c) : Genuine(i)
  BY <1>1 DEF Outside
<1>3. \A found \in FoundLists(c) : IsToolList(found)
  BY <1>1, <1>2 DEF FoundLists, Genuine
<1>4. PICK found \in FoundLists(c) : spec \in {found[k] : k \in DOMAIN found}
  BY DEF Found, c
<1>5. QED
  BY <1>3, <1>4 DEF IsToolList

\* The tools of a legal conversation can be admitted whatever its searches found,
\* its choices are met, and the map has only pairs of the conversation.
LEMMA LegalAdmitted ==
  ASSUME NEW s \in LegalScenarios, NEW d \in Scenarios[s].catalogs,
         NEW items, IsSequence(items),
         \A k \in DOMAIN items : Finds(Found(Scenarios[s]), items[k])
  PROVE  LET t == AdmittedTools(d.field, d.list, items) IN
         /\ t.ok /\ ChoiceAdmitted(d.choice, t.list)
         /\ \A e \in t.map : [namespace |-> e.namespace, name |-> e.name] \in NamesUsed(Scenarios[s])
<1> DEFINE c == Scenarios[s]
           all == All(c, d)
           start == ParsedTools(DeclaredList(d))
           t == AdmittedTools(d.field, d.list, items)
           specs == Found(c)
<1>1. s \in DOMAIN Scenarios /\ Legal(c)
  BY DEF LegalScenarios
<1>2. /\ \A u \in Parses(c, d) : u.ok /\ Meanings(u) \subseteq all
      /\ MeaningsAgree(all)
      /\ ChoiceAdmitted(d.choice, start.list)
      /\ specs # {} => d.field = "list"
  BY <1>1 DEF Legal, Compatible, All
<1>3. ToolsMade(start)
  <2>1. IsToolList(d.list)
    BY <1>1, ScenariosAssumption
  <2>2. IsToolList(<<>>)
    BY NoItems DEF IsToolList
  <2>3. IsToolList(DeclaredList(d))
    BY <2>1, <2>2 DEF DeclaredList
  <2>4. QED
    BY <2>3, ParsedToolsMade
<1>4. start \in Parses(c, d)
  BY DEF Parses
<1>5. Findable(all, specs)
  <2>1. \A spec \in specs : ParsedTools(<<spec>>) \in Parses(c, d)
    BY DEF Parses
  <2> HIDE DEF all
  <2>2. QED
    BY <1>1, <1>2, <2>1, FoundTyped DEF Findable
<1>6. t = AddedTo(start, items, d.field)
  <2>1. CASE d.field = "list"
    BY <2>1 DEF AdmittedTools, DeclaredList, AddedTo
  <2>2. CASE d.field # "list"
    <3>1. start = NoTools
      <4>1. FoldLeft(WithTool, NoTools, <<>>) = NoTools
        BY ToolsFold, Tools!FoldNone
      <4>2. NoTools.list = <<>> /\ Len(<<>>) = 0 /\ ~(0 > MaxTools)
        BY NoItems, MaxToolsAssumption DEF NoTools
      <4>3. QED
        BY <2>2, <4>1, <4>2 DEF ParsedTools, DeclaredList
    <3>2. QED
      BY <2>2, <3>1 DEF AdmittedTools, AddedTo
  <2>3. QED
    BY <2>1, <2>2
<1>7. Merged(Meanings(start), all, t)
  <2> HIDE DEF all, start, specs, t
  <2>1. \A k \in DOMAIN items : Finds(specs, items[k])
    BY DEF specs
  <2>2. start.ok /\ Meanings(start) \subseteq all
    BY <1>2, <1>4
  <2>3. Merged(Meanings(start), all, AddedTo(start, items, d.field))
    BY <1>2, <1>3, <1>5, <2>1, <2>2, HistoryMerges
  <2>4. QED
    BY <1>6, <2>3
<1> HIDE DEF start, t
<1>8. \A k \in DOMAIN start.list : \E j \in DOMAIN t.list : t.list[j] = start.list[k]
  <2>1. ASSUME NEW k \in DOMAIN start.list PROVE \E j \in DOMAIN t.list : t.list[j] = start.list[k]
    <3>1. Meaning(start, start.list[k]) \in Meanings(t)
      BY <1>7 DEF Merged, Meanings
    <3>2. PICK j \in DOMAIN t.list : Meaning(start, start.list[k]) = Meaning(t, t.list[j])
      BY <3>1 DEF Meanings
    <3>3. Meaning(start, start.list[k]).tool = start.list[k] /\ Meaning(t, t.list[j]).tool = t.list[j]
      BY DEF Meaning
    <3>4. QED
      BY <3>2, <3>3
  <2>2. QED
    BY <2>1
<1>9. ChoiceAdmitted(d.choice, t.list)
  <2>1. start.list # <<>> => t.list # <<>>
    <3>1. IsSequence(start.list)
      BY <1>3 DEF ToolsMade
    <3>2. start.list # <<>> => DOMAIN start.list # {}
      <4>1. start.list # <<>> => Len(start.list) # 0
        BY <3>1, EmptySeq DEF IsSequence
      <4>2. Len(start.list) \in Nat /\ DOMAIN start.list = 1 .. Len(start.list)
        BY <3>1, Sequences
      <4>3. Len(start.list) # 0 => 1 \in 1 .. Len(start.list)
        BY <4>2
      <4>4. QED
        BY <4>1, <4>2, <4>3
    <3>3. QED
      BY <1>8, <3>2, NoItems
  <2>2. FunctionNames(start.list) \subseteq FunctionNames(t.list)
    BY <1>8 DEF FunctionNames
  <2>3. QED
    BY <1>2, <2>1, <2>2 DEF ChoiceAdmitted, start
<1>10. ASSUME NEW e \in t.map
       PROVE  [namespace |-> e.namespace, name |-> e.name] \in NamesUsed(c)
  <2>1. PICK k \in DOMAIN t.list : t.list[k].kind = "function" /\ t.list[k].name = e.provider
    BY <1>7 DEF Merged, ToolsMade, FunctionNames
  <2>2. Meaning(t, t.list[k]) \in all
    BY <1>7 DEF Merged, Meanings
  <2>3. PICK u \in Parses(c, d) : Meaning(t, t.list[k]) \in Meanings(u)
    BY <2>2 DEF All
  <2>4. PICK j \in DOMAIN u.list : Meaning(t, t.list[k]) = Meaning(u, u.list[j])
    BY <2>3 DEF Meanings
  <2>5. e \in u.map
    <3>1. t.list[k] = u.list[j]
      <4>1. Meaning(t, t.list[k]).tool = t.list[k] /\ Meaning(u, u.list[j]).tool = u.list[j]
        BY DEF Meaning
      <4>2. QED
        BY <2>4, <4>1
    <3>2. /\ Meaning(t, t.list[k]).entries = {x \in t.map : x.provider = t.list[k].name}
          /\ Meaning(u, u.list[j]).entries = {x \in u.map : x.provider = u.list[j].name}
      BY <2>1, <3>1 DEF Meaning
    <3>3. QED
      BY <2>1, <2>4, <3>2
  <2>6. u \in UNION {Parses(c, x) : x \in c.catalogs}
    BY <2>3
  <2> DEFINE Used == {[namespace |-> x.namespace, name |-> x.name] : x \in u.map}
  <2>7. [namespace |-> e.namespace, name |-> e.name] \in Used
    BY <2>5
  <2>8. Used \in {{[namespace |-> x.namespace, name |-> x.name] : x \in v.map} :
                     v \in UNION {Parses(c, x) : x \in c.catalogs}}
    BY <2>6
  <2> HIDE DEF Used
  <2>9. QED
    BY <2>7, <2>8 DEF NamesUsed
<1>11. QED
  BY <1>7, <1>9, <1>10 DEF Merged, t

Pair(x) == [namespace |-> x.namespace, name |-> x.name]

\* An item nothing is wrong with: it is well formed, what it found belongs to the
\* conversation, and so does the pair it calls.
LegalItem(c, i) ==
  /\ i.type \in KnownTypes => WellFormed(i)
  /\ Finds(Found(c), i)
  /\ i.type = "function_call" /\ i.namespace # NoNamespace => Pair(i) \in NamesUsed(c)

\* Every call that was read is remembered.
CallsRead ==
  \A k \in DOMAIN input : k < pos /\ input[k].type \in CallTypes => input[k].call \in calls

\* In a legal conversation nothing is refused: what was recorded is legal, results
\* follow their calls, and the map has only pairs the conversation names.
LegalInv ==
  scenario \in LegalScenarios =>
    /\ ~refused /\ phase # "rejected"
    /\ \A k \in DOMAIN history : LegalItem(Case, history[k])
    /\ Answered(history)
    /\ \A e \in map : Pair(e) \in NamesUsed(Case)
    /\ phase = "parse" => CallsRead

\* The pairs that are called from outside, or by a Native model, are counted.
LEMMA PairUsed ==
  ASSUME NEW c, NEW i \in c.names \cup {o \in Outside(c) : o.type = "function_call"},
         i.namespace # NoNamespace
  PROVE  Pair(i) \in NamesUsed(c)
<1> DEFINE callers == {n \in c.names \cup {o \in Outside(c) : o.type = "function_call"} :
                         n.namespace # NoNamespace}
           used == {[namespace |-> x.namespace, name |-> x.name] : x \in callers}
<1>1. i \in callers
  OBVIOUS
<1>2. used \subseteq NamesUsed(c)
  BY DEF NamesUsed
<1> HIDE DEF callers
<1>3. Pair(i) \in used
  BY <1>1 DEF Pair
<1> HIDE DEF used
<1>4. QED
  BY <1>2, <1>3

\* What comes from outside of a legal conversation is legal.
LEMMA OutsideLegal ==
  ASSUME scenario \in LegalScenarios, NEW i \in Outside(Case), Genuine(i)
  PROVE  LegalItem(Case, i)
<1> DEFINE c == Case
<1>1. Legal(c)
  BY DEF LegalScenarios, Case
<1> HIDE DEF c
<1>2. i.type \in KnownTypes => WellFormed(i)
  BY <1>1 DEF Legal, c
<1>3. Finds(Found(c), i)
  <2> SUFFICES ASSUME i.type = "tool_search_output" PROVE Finds(Found(c), i)
    BY DEF Finds
  <2>1. i.valid
    BY <1>2 DEF WellFormed, KnownTypes, OutputTypes
  <2>2. IsSequence(i.tools)
    BY DEF Genuine, IsToolList
  <2>3. i.tools \in FoundLists(c)
    BY DEF FoundLists, c
  <2>4. {i.tools[k] : k \in DOMAIN i.tools} \subseteq Found(c)
    BY <2>3 DEF Found
  <2>5. QED
    BY <2>1, <2>2, <2>4 DEF Finds
<1>4. ASSUME i.type = "function_call", i.namespace # NoNamespace PROVE Pair(i) \in NamesUsed(c)
  <2>1. i \in c.names \cup {o \in Outside(c) : o.type = "function_call"}
    BY <1>4 DEF c
  <2>2. QED
    BY <1>4, <2>1, PairUsed
<1>5. QED
  BY <1>2, <1>3, <1>4 DEF LegalItem, c

\* What Codex records by itself is legal.
LEMMA CodexLegal ==
  ASSUME scenario \in LegalScenarios
  PROVE  /\ LegalItem(Case, UserMessage)
         /\ \A call : LegalItem(Case, Output(call)) /\ LegalItem(Case, CustomOutput(call))
         /\ \A call, found : found \in Case.finds => LegalItem(Case, SearchOutput(call, found))
         /\ \A i \in Case.odd : LegalItem(Case, i) /\ i.type \notin OutputTypes
<1>1. LegalItem(Case, UserMessage)
  BY DEF LegalItem, UserMessage, WellFormed, MessageValid, Finds
<1>2. ASSUME NEW call PROVE LegalItem(Case, Output(call)) /\ LegalItem(Case, CustomOutput(call))
  BY DEF LegalItem, Output, CustomOutput, WellFormed, Finds
<1>3. ASSUME NEW call, NEW found, found \in Case.finds PROVE LegalItem(Case, SearchOutput(call, found))
  <2>1. IsSequence(found)
    BY <1>3, ScenariosAssumption DEF LegalScenarios, Case, IsToolList
  <2>2. {found[k] : k \in DOMAIN found} \subseteq Found(Case)
    BY <1>3 DEF Found, FoundLists
  <2>3. QED
    BY <2>1, <2>2 DEF LegalItem, SearchOutput, WellFormed, Finds
<1>4. ASSUME NEW i \in Case.odd PROVE LegalItem(Case, i) /\ i.type \notin OutputTypes
  <2>1. Genuine(i)
    BY <1>4, ScenariosAssumption DEF LegalScenarios, Case
  <2>2. i \in Outside(Case)
    BY <1>4 DEF Outside
  <2>3. i.type \notin OutputTypes
    BY <1>4 DEF LegalScenarios, Legal, Case
  <2>4. QED
    BY <2>1, <2>2, <2>3, OutsideLegal
<1>5. QED
  BY <1>1, <1>2, <1>3, <1>4

\* A call names a pair of the conversation, or none.
LEMMA CallLegal ==
  ASSUME NEW c, NEW by, NEW named, NEW made, NEW call,
         named.namespace # NoNamespace => Pair(named) \in NamesUsed(c)
  PROVE  LegalItem(c, Call(by, named, made, call)) /\ LegalItem(c, NativeCall(Call(by, named, made, call)))
<1>1. LegalItem(c, Call(by, named, made, call))
  BY DEF LegalItem, Call, WellFormed, Finds, Pair
<1>2. LegalItem(c, NativeCall(Call(by, named, made, call)))
  BY DEF LegalItem, NativeCall, Call, WellFormed, Finds, Pair
<1>3. QED
  BY <1>1, <1>2

\* What either model answers is legal, and no result.
LEMMA AnswersLegal ==
  ASSUME scenario \in LegalScenarios, \A e \in map : Pair(e) \in NamesUsed(Case),
         NEW i,
         \/ \E by : i \in {AssistantMessage(by), WebSearchCall(by)}
         \/ \E call : i = CustomCall(call)
         \/ \E cipher \in Case.ciphers : i = Reasoning("grok", Marked(cipher))
         \/ i = Reasoning("native", "foreign")
         \/ \E made : i = RestoredCall(made)
         \/ \E made : i = NativeCall(SearchCall("native", made, Fresh))
         \/ \E n \in Case.names : \E made : i = NativeCall(Call("native", n, made, Fresh))
  PROVE  LegalItem(Case, i) /\ i.type \notin OutputTypes
<1>1. CASE \E by : i \in {AssistantMessage(by), WebSearchCall(by)}
  BY <1>1 DEF LegalItem, AssistantMessage, WebSearchCall, WellFormed, MessageValid, Finds,
     KnownTypes, CallTypes, OutputTypes, ForeignTypes
<1>2. CASE \E call : i = CustomCall(call)
  BY <1>2 DEF LegalItem, CustomCall, WellFormed, Finds, OutputTypes
<1>3. CASE \E cipher \in Case.ciphers : i = Reasoning("grok", Marked(cipher))
  <2>1. PICK cipher \in Case.ciphers : i = Reasoning("grok", Marked(cipher))
    BY <1>3
  <2>2. cipher \in {"raw", "null"}
    BY ScenariosAssumption DEF LegalScenarios, Case
  <2>3. Marked(cipher) \in {"grok", "null"}
    BY <2>2 DEF Marked
  <2>4. QED
    BY <2>1, <2>3 DEF LegalItem, Reasoning, WellFormed, ReasoningValid, Finds, OutputTypes
<1>4. CASE i = Reasoning("native", "foreign")
  BY <1>4 DEF LegalItem, Reasoning, WellFormed, ReasoningValid, Finds, OutputTypes
<1>5. ASSUME NEW by, NEW made
      PROVE  /\ LegalItem(Case, SearchCall(by, made, Fresh))
             /\ LegalItem(Case, NativeCall(SearchCall(by, made, Fresh)))
             /\ SearchCall(by, made, Fresh).type \notin OutputTypes
             /\ NativeCall(SearchCall(by, made, Fresh)).type \notin OutputTypes
  BY DEF LegalItem, SearchCall, NativeCall, WellFormed, Finds, OutputTypes
<1>6. ASSUME NEW by, NEW named, NEW made
      PROVE  /\ Call(by, named, made, Fresh).type \notin OutputTypes
             /\ NativeCall(Call(by, named, made, Fresh)).type \notin OutputTypes
  BY DEF Call, NativeCall, OutputTypes
<1>7. CASE \E made : i = RestoredCall(made)
  <2>1. PICK made : i = RestoredCall(made)
    BY <1>7
  <2>2. CASE i = SearchCall("none", made, Fresh)
    BY <1>5, <2>2
  <2>3. CASE i = Call("grok", Restored(map, made.name), made, Fresh)
    <3> DEFINE named == Restored(map, made.name)
    <3>1. named.namespace # NoNamespace => Pair(named) \in NamesUsed(Case)
      <4>1. CASE Taken(map, made.name)
        <5> DEFINE e == CHOOSE x \in map : x.provider = made.name
        <5>1. e \in map
          BY <4>1 DEF Taken
        <5>2. named = Pair(e)
          BY <4>1 DEF Restored, Pair
        <5> HIDE DEF e, named
        <5>3. Pair(e) \in NamesUsed(Case) /\ Pair(Pair(e)) = Pair(e)
          BY <5>1 DEF Pair
        <5>4. QED
          BY <5>2, <5>3
      <4>2. CASE ~Taken(map, made.name)
        BY <4>2 DEF Restored
      <4>3. QED
        BY <4>1, <4>2
    <3> HIDE DEF named
    <3>2. LegalItem(Case, Call("grok", named, made, Fresh))
      BY <3>1, CallLegal
    <3>3. QED
      BY <1>6, <2>3, <3>2 DEF named
  <2>4. QED
    BY <2>1, <2>2, <2>3 DEF RestoredCall
<1>8. CASE \E made : i = NativeCall(SearchCall("native", made, Fresh))
  BY <1>5, <1>8
<1>9. CASE \E n \in Case.names : \E made : i = NativeCall(Call("native", n, made, Fresh))
  <2>1. PICK n \in Case.names : \E made : i = NativeCall(Call("native", n, made, Fresh))
    BY <1>9
  <2>2. ASSUME n.namespace # NoNamespace PROVE Pair(n) \in NamesUsed(Case)
    <3>1. n \in Case.names \cup {o \in Outside(Case) : o.type = "function_call"}
      OBVIOUS
    <3>2. QED
      BY <2>2, <3>1, PairUsed
  <2>3. \A made : LegalItem(Case, NativeCall(Call("native", n, made, Fresh)))
    BY <2>2, CallLegal
  <2>4. QED
    BY <1>6, <2>1, <2>3
<1>10. QED
  BY <1>1, <1>2, <1>3, <1>4, <1>7, <1>8, <1>9

\* Whoever appends to a legal history, appends what is legal, and results behind
\* their calls.
LEMMA AppendedLegal ==
  ASSUME scenario \in LegalScenarios, \A e \in map : Pair(e) \in NamesUsed(Case),
         CodexRecords \/ GrokAnswers \/ NativeAnswers
  PROVE  \E i : /\ LegalItem(Case, i) /\ history' = Append(history, i)
                /\ i.type \in OutputTypes =>
                     \E k \in DOMAIN history : history[k].type \in CallTypes /\ history[k].call = i.call
<1>1. CASE CodexRecords
  <2>1. CASE UserSays
    <3>1. UserMessage.type \notin OutputTypes
      BY DEF UserMessage, OutputTypes
    <3>2. QED
      BY <2>1, <3>1, CodexLegal DEF UserSays
  <2>2. CASE ToolReturns
    <3>1. PICK k \in DOMAIN history :
            LET c == history[k] IN
            \/ c.type = "function_call" /\ history' = Append(history, Output(c.call))
            \/ /\ c.type = "tool_search_call"
               /\ \E found \in Case.finds : history' = Append(history, SearchOutput(c.call, found))
            \/ c.type = "custom_tool_call" /\ history' = Append(history, CustomOutput(c.call))
      BY <2>2 DEF ToolReturns
    <3> DEFINE call == history[k].call
    <3>2. CASE history[k].type = "function_call" /\ history' = Append(history, Output(call))
      <4>1. history[k].type \in CallTypes /\ Output(call).call = call
        BY <3>2 DEF CallTypes, Output
      <4>2. LegalItem(Case, Output(call))
        BY CodexLegal
      <4>3. QED
        BY <3>2, <4>1, <4>2
    <3>3. ASSUME history[k].type = "tool_search_call", NEW found \in Case.finds,
                 history' = Append(history, SearchOutput(call, found))
          PROVE  \E i : /\ LegalItem(Case, i) /\ history' = Append(history, i)
                        /\ i.type \in OutputTypes =>
                             \E j \in DOMAIN history :
                               history[j].type \in CallTypes /\ history[j].call = i.call
      <4>1. history[k].type \in CallTypes /\ SearchOutput(call, found).call = call
        BY <3>3 DEF CallTypes, SearchOutput
      <4>2. LegalItem(Case, SearchOutput(call, found))
        BY CodexLegal
      <4>3. QED
        BY <3>3, <4>1, <4>2
    <3>4. CASE history' = Append(history, CustomOutput(call))
      <4>1. CustomOutput(call).type \notin OutputTypes
        BY DEF CustomOutput, OutputTypes
      <4>2. LegalItem(Case, CustomOutput(call))
        BY CodexLegal
      <4>3. QED
        BY <3>4, <4>1, <4>2
    <3> HIDE DEF call
    <3>5. QED
      BY <3>1, <3>2, <3>3, <3>4 DEF call
  <2>3. CASE OddItem
    BY <2>3, CodexLegal DEF OddItem
  <2>4. QED
    BY <1>1, <2>1, <2>2, <2>3 DEF CodexRecords
<1>2. CASE GrokAnswers
  <2>1. CASE history' = Append(history, AssistantMessage("grok"))
    BY <2>1, AnswersLegal
  <2>2. ASSUME NEW cipher \in Case.ciphers,
               history' = Append(history, Reasoning("grok", Marked(cipher)))
        PROVE  \E i : LegalItem(Case, i) /\ i.type \notin OutputTypes /\ history' = Append(history, i)
    <3> DEFINE i == Reasoning("grok", Marked(cipher))
    <3>1. \E x \in Case.ciphers : i = Reasoning("grok", Marked(x))
      BY <2>2
    <3> HIDE DEF i
    <3>2. LegalItem(Case, i) /\ i.type \notin OutputTypes
      BY <3>1, AnswersLegal
    <3>3. QED
      BY <2>2, <3>2 DEF i
  <2>3. ASSUME NEW tool, NEW n,
               history' = Append(history, IF tool.kind = "function"
                                          THEN RestoredCall([name |-> tool.name, number |-> n])
                                          ELSE WebSearchCall("grok"))
        PROVE  \E i : LegalItem(Case, i) /\ i.type \notin OutputTypes /\ history' = Append(history, i)
    <3> DEFINE i == RestoredCall([name |-> tool.name, number |-> n])
    <3>1. \E made : i = RestoredCall(made)
      OBVIOUS
    <3> HIDE DEF i
    <3>2. LegalItem(Case, i) /\ i.type \notin OutputTypes
      BY <3>1, AnswersLegal
    <3>3. LegalItem(Case, WebSearchCall("grok")) /\ WebSearchCall("grok").type \notin OutputTypes
      BY AnswersLegal
    <3>4. QED
      BY <2>3, <3>2, <3>3 DEF i
  <2>4. QED
    BY <1>2, <2>1, <2>2, <2>3 DEF GrokAnswers
<1>3. CASE NativeAnswers
  <2>1. PICK i \in {AssistantMessage("native"), Reasoning("native", "foreign"),
                    WebSearchCall("native"), CustomCall(Fresh),
                    NativeCall(SearchCall("native", Made(SearchName), Fresh))} \cup
                   {NativeCall(Call("native", n, Made(Flat(n.namespace, n.name)), Fresh)) :
                      n \in Case.names} : history' = Append(history, i)
    BY <1>3 DEF NativeAnswers
  <2>2. \/ \E by : i \in {AssistantMessage(by), WebSearchCall(by)}
        \/ \E call : i = CustomCall(call)
        \/ i = Reasoning("native", "foreign")
        \/ \E made : i = NativeCall(SearchCall("native", made, Fresh))
        \/ \E n \in Case.names : \E made : i = NativeCall(Call("native", n, made, Fresh))
    OBVIOUS
  <2>3. LegalItem(Case, i) /\ i.type \notin OutputTypes
    BY <2>2, AnswersLegal
  <2>4. QED
    BY <2>1, <2>3
<1>4. QED
  BY <1>1, <1>2, <1>3

\* Of a legal history, no item is refused.
LEMMA NothingRefused ==
  ASSUME scenario \in LegalScenarios, EntriesMade(map),
         \A e \in map : Pair(e) \in NamesUsed(Case),
         pos \in Nat \ {0}, IsSequence(input), Answered(input), CallsRead,
         \A k \in DOMAIN input : LegalItem(Case, input[k])
  PROVE  ~RejectMalformed /\ ~RejectUnmatched
<1> SUFFICES ASSUME Parsing PROVE ~RejectMalformed /\ ~RejectUnmatched
  BY DEF RejectMalformed, RejectUnmatched
<1>1. pos \in DOMAIN input /\ DOMAIN input = 1 .. Len(input)
  BY Sequences DEF Parsing
<1>2. LegalItem(Case, Item)
  BY <1>1 DEF Item
<1>3. Item.type \in KnownTypes => ItemValid(Item)
  <2> SUFFICES ASSUME Item.type = "function_call", Item.namespace # NoNamespace,
                      ~Ensurable(map, Item.namespace, Item.name)
               PROVE  FALSE
    BY <1>2 DEF LegalItem, ItemValid
  <2>1. PICK e \in map : e.provider = Flat(Item.namespace, Item.name)
    BY DEF Ensurable, Taken
  <2>2. e.provider = Flat(e.namespace, e.name)
    <3>1. e = Entry(e.namespace, e.name)
      BY DEF EntriesMade
    <3>2. Entry(e.namespace, e.name).provider = Flat(e.namespace, e.name)
      BY DEF Entry
    <3>3. QED
      BY <3>1, <3>2
  <2>3. Pair(e) \in NamesUsed(Case) /\ Pair(Item) \in NamesUsed(Case)
    BY <1>2 DEF LegalItem
  <2>4. \A m, n \in NamesUsed(Case) :
          Flat(m.namespace, m.name) = Flat(n.namespace, n.name) => m = n
    BY DEF LegalScenarios, Legal, Case
  <2>5. /\ Pair(e).namespace = e.namespace /\ Pair(e).name = e.name
        /\ Pair(Item).namespace = Item.namespace /\ Pair(Item).name = Item.name
    BY DEF Pair
  <2>6. e.namespace = Item.namespace /\ e.name = Item.name
    BY <2>1, <2>2, <2>3, <2>4, <2>5
  <2>7. QED
    BY <2>6 DEF Ensurable, Known
<1>4. Item.type \in OutputTypes => Item.call \in calls
  <2> SUFFICES ASSUME Item.type \in OutputTypes PROVE Item.call \in calls
    OBVIOUS
  <2>1. PICK j \in 1 .. pos - 1 : input[j].type \in CallTypes /\ input[j].call = Item.call
    BY <1>1 DEF Answered, Item
  <2>2. j \in DOMAIN input /\ j < pos
    BY <1>1
  <2>3. QED
    BY <2>1, <2>2 DEF CallsRead
<1>5. QED
  BY <1>3, <1>4 DEF RejectMalformed, RejectUnmatched

\* Reading goes on as long as the history is legal.
LEMMA StepLegal ==
  ASSUME scenario \in LegalScenarios, EntriesMade(map),
         \A e \in map : Pair(e) \in NamesUsed(Case),
         pos \in Nat \ {0}, IsSequence(input), Answered(input),
         \A k \in DOMAIN input : LegalItem(Case, input[k]),
         phase # "rejected", phase = "parse" => CallsRead, HistoryStep
  PROVE  /\ phase' # "rejected"
         /\ \A e \in map' : Pair(e) \in NamesUsed(Case)
         /\ phase' = "parse" => CallsRead'
<1>1. CASE Project
  <2>1. map' = map /\ phase' \in {"project", "ready"}
    BY <1>1 DEF Project, DeferComment, ProjectItem, ProjectedAll, Projecting, parseVars
  <2>2. QED
    BY <2>1
<1>2. CASE Parse
  <2>1. phase = "parse" /\ CallsRead
    BY <1>2 DEF Parse, SkipUnknown, RejectMalformed, RejectUnmatched, DropDuplicate,
       AcceptOutput, AcceptCall, AcceptOther, ParsedAll, Parsing
  <2>2. ~RejectMalformed /\ ~RejectUnmatched
    BY <2>1, NothingRefused
  <2>3. CASE SkipUnknown \/ DropDuplicate \/ AcceptOutput \/ AcceptOther
    <3>1. /\ map' = map /\ phase' = phase /\ input' = input /\ calls' = calls /\ pos' = pos + 1
          /\ Item.type \notin CallTypes
      BY <2>3 DEF SkipUnknown, DropDuplicate, AcceptOutput, AcceptOther, KnownTypes, CallTypes,
         OutputTypes
    <3>2. \A k \in DOMAIN input : k < pos + 1 => k < pos \/ k = pos
      BY Sequences
    <3>3. CallsRead'
      BY <2>1, <3>1, <3>2 DEF CallsRead, Item
    <3>4. QED
      BY <2>1, <3>1, <3>3
  <2>4. CASE AcceptCall
    <3>1. /\ map' = MapAfter(Item) /\ phase' = phase /\ input' = input
          /\ calls' = calls \cup {Item.call} /\ pos' = pos + 1 /\ pos <= Len(input)
      BY <2>4 DEF AcceptCall, Parsing
    <3>2. \A k \in DOMAIN input : k < pos + 1 => k < pos \/ k = pos
      BY Sequences
    <3>3. CallsRead'
      BY <2>1, <3>1, <3>2 DEF CallsRead, Item
    <3>4. LegalItem(Case, Item)
      <4>1. pos \in DOMAIN input
        BY <3>1, Sequences
      <4>2. QED
        BY <4>1 DEF Item
    <3>5. ASSUME NEW e \in map' PROVE Pair(e) \in NamesUsed(Case)
      <4>1. CASE e \in map
        BY <4>1
      <4>2. CASE e \notin map
        <5>1. /\ Item.type = "function_call" /\ Item.namespace # NoNamespace
              /\ e = Entry(Item.namespace, Item.name)
          BY <3>1, <3>5, <4>2 DEF MapAfter, Ensured
        <5>2. Pair(e) = Pair(Item)
          BY <5>1 DEF Pair, Entry
        <5>3. QED
          BY <3>4, <5>1, <5>2 DEF LegalItem
      <4>3. QED
        BY <4>1, <4>2
    <3>6. QED
      BY <2>1, <3>1, <3>3, <3>5
  <2>5. CASE ParsedAll
    BY <2>5 DEF ParsedAll
  <2>6. QED
    BY <1>2, <2>2, <2>3, <2>4, <2>5 DEF Parse
<1>3. QED
  BY <1>1, <1>2 DEF HistoryStep

\* A legal conversation begins with legal items.
LEMMA LegalInitHolds == ConversationInit => LegalInv
<1> SUFFICES ASSUME ConversationInit, scenario \in LegalScenarios PROVE LegalInv
  BY DEF LegalInv
<1>1. /\ map = {} /\ phase = "idle" /\ refused = FALSE /\ scenario \in DOMAIN Scenarios
      /\ history \in Case.seeds
  BY DEF ConversationInit, HistoryInit
<1>2. \A k \in DOMAIN history : Genuine(history[k])
  BY <1>1, ScenariosAssumption DEF Case
<1>3. \A k \in DOMAIN history : history[k] \in Outside(Case)
  BY <1>1 DEF Outside
<1>4. \A k \in DOMAIN history : LegalItem(Case, history[k])
  BY <1>2, <1>3, OutsideLegal
<1>5. Answered(history)
  BY <1>1 DEF LegalScenarios, Legal, Case
<1>6. QED
  BY <1>1, <1>4, <1>5 DEF LegalInv

\* Every step of a legal conversation keeps it legal, and refuses nothing.
LEMMA LegalKeeps ==
  ConversationInv /\ HonestInv /\ LegalInv /\ [ConversationNext]_conversationVars => LegalInv'
<1> SUFFICES ASSUME ConversationInv, HonestInv, LegalInv, [ConversationNext]_conversationVars,
                    scenario' \in LegalScenarios
             PROVE  LegalInv'
  BY DEF LegalInv
<1>1. scenario' = scenario
  BY DEF ConversationNext, CodexRecords, StartGrok, Prepare, RefuseHistory, SendToGrok,
     GrokAnswers, StartNative, NativeAnswers, EndTurn, codexVars, conversationVars
<1>2. /\ Case' = Case /\ scenario \in LegalScenarios
      /\ NamesUsed(Case)' = NamesUsed(Case) /\ \A i : LegalItem(Case, i)' = LegalItem(Case, i)
  BY <1>1 DEF Case
<1>3. /\ ~refused /\ phase # "rejected"
      /\ \A k \in DOMAIN history : LegalItem(Case, history[k])
      /\ Answered(history)
      /\ \A e \in map : Pair(e) \in NamesUsed(Case)
      /\ phase = "parse" => CallsRead
  BY <1>2 DEF LegalInv
<1>4. /\ IsSequence(history) /\ IsSequence(input) /\ pos \in Nat \ {0} /\ Requested
      /\ EntriesMade(map) /\ HonestItems(history)
  BY DEF ConversationInv, HistoryInv, Sourced, HonestInv

<1>5. CASE CodexRecords \/ GrokAnswers \/ NativeAnswers
  <2>1. UNCHANGED historyVars /\ refused' = refused
    BY <1>5 DEF CodexRecords, GrokAnswers, NativeAnswers
  <2>2. /\ map' = map /\ phase' = phase /\ input' = input /\ pos' = pos /\ calls' = calls
    BY <2>1 DEF historyVars
  <2>3. PICK i : /\ LegalItem(Case, i) /\ history' = Append(history, i)
                 /\ i.type \in OutputTypes =>
                      \E k \in DOMAIN history : history[k].type \in CallTypes /\ history[k].call = i.call
    BY <1>2, <1>3, <1>5, AppendedLegal
  <2> DEFINE n == Len(history)
  <2>4. /\ n \in Nat /\ DOMAIN history = 1 .. n /\ DOMAIN history' = 1 .. n + 1
        /\ \A k \in 1 .. n : history'[k] = history[k]
        /\ history'[n + 1] = i
    BY <1>4, <2>3, Appended
  <2> HIDE DEF n
  <2>5. \A k \in 1 .. n + 1 : k \in 1 .. n \/ k = n + 1
    BY <2>4
  <2>6. \A k \in DOMAIN history' : LegalItem(Case, history'[k])
    BY <1>3, <2>3, <2>4, <2>5
  <2>7. Answered(history)'
    <3> SUFFICES ASSUME NEW k \in DOMAIN history', history'[k].type \in OutputTypes
                 PROVE  \E j \in 1 .. k - 1 :
                          history'[j].type \in CallTypes /\ history'[j].call = history'[k].call
      BY DEF Answered
    <3>1. CASE k \in 1 .. n
      <4>1. PICK j \in 1 .. k - 1 :
              history[j].type \in CallTypes /\ history[j].call = history[k].call
        BY <1>3, <2>4, <3>1 DEF Answered
      <4>2. j \in 1 .. n
        BY <2>4, <3>1
      <4>3. QED
        BY <2>4, <3>1, <4>1, <4>2
    <3>2. CASE k = n + 1
      <4>1. PICK j \in 1 .. n : history[j].type \in CallTypes /\ history[j].call = i.call
        BY <2>3, <2>4, <3>2
      <4>2. j \in 1 .. k - 1
        BY <2>4, <3>2
      <4>3. QED
        BY <2>4, <3>2, <4>1, <4>2
    <3>3. QED
      BY <2>4, <2>5, <3>1, <3>2
  <2>8. QED
    BY <1>2, <1>3, <2>1, <2>2, <2>6, <2>7 DEF LegalInv, CallsRead
<1>6. ASSUME history' = history, refused' = refused, map' = map, phase' = phase, input' = input,
             pos' = pos, calls' = calls
      PROVE  LegalInv'
  BY <1>2, <1>3, <1>6 DEF LegalInv, Answered, CallsRead
<1>7. CASE StartGrok
  <2>1. PICK c \in Case.catalogs :
          LET t == AdmittedTools(c.field, c.list, history)
          IN  IF t.ok /\ ChoiceAdmitted(c.choice, t.list)
              THEN Begin(history, t.map) /\ refused' = refused
              ELSE refused' = TRUE
    BY <1>7 DEF StartGrok
  <2> DEFINE t == AdmittedTools(c.field, c.list, history)
  <2>2. t.ok /\ ChoiceAdmitted(c.choice, t.list) /\ \A e \in t.map : Pair(e) \in NamesUsed(Case)
    <3>1. \A k \in DOMAIN history : Finds(Found(Case), history[k])
      BY <1>3 DEF LegalItem
    <3>2. QED
      BY <1>2, <1>4, <3>1, LegalAdmitted DEF Case, Pair
  <2> HIDE DEF t
  <2>3. Begin(history, t.map) /\ refused' = refused /\ history' = history
    BY <1>7, <2>1, <2>2 DEF t, StartGrok
  <2>4. map' = t.map /\ phase' = "parse" /\ pos' = 1 /\ input' = history
    BY <2>3 DEF Begin, Blank
  <2>5. CallsRead'
    <3>1. \A k \in DOMAIN input' : ~(k < pos')
      BY <1>4, <2>4, Sequences
    <3>2. QED
      BY <3>1 DEF CallsRead
  <2>6. QED
    BY <1>2, <1>3, <2>2, <2>3, <2>4, <2>5 DEF LegalInv, Answered
<1>8. CASE Prepare
  <2>1. HistoryStep /\ input = history /\ history' = history /\ refused' = refused
    BY <1>4, <1>8 DEF Prepare, codexVars, Requested
  <2>2. /\ phase' # "rejected" /\ \A e \in map' : Pair(e) \in NamesUsed(Case)
        /\ phase' = "parse" => CallsRead'
    BY <1>2, <1>3, <1>4, <2>1, StepLegal
  <2>3. QED
    BY <1>2, <1>3, <2>1, <2>2 DEF LegalInv, Answered
<1>9. CASE RefuseHistory
  BY <1>3, <1>9 DEF RefuseHistory
<1>10. CASE EndTurn
  <2>1. map' = {} /\ phase' = "idle" /\ history' = history /\ refused' = refused
    BY <1>10 DEF EndTurn, Drop, Blank
  <2>2. QED
    BY <1>2, <1>3, <2>1 DEF LegalInv, Answered
<1>11. CASE SendToGrok \/ StartNative \/ UNCHANGED conversationVars
  <2>1. UNCHANGED historyVars /\ history' = history /\ refused' = refused
    BY <1>11 DEF SendToGrok, StartNative, codexVars, conversationVars
  <2>2. QED
    BY <1>6, <2>1 DEF historyVars
<1>12. QED
  BY <1>5, <1>7, <1>8, <1>9, <1>10, <1>11 DEF ConversationNext

\* LegalInv is an invariant, beside the two it needs.
LEMMA LegalInvariant == ConversationSpec => [](ConversationInv /\ HonestInv /\ LegalInv)
<1>1. ConversationInit => ConversationInv /\ HonestInv /\ LegalInv
  BY ConversationInitHolds, HonestInitHolds, LegalInitHolds
<1>2. ConversationInv /\ HonestInv /\ LegalInv /\ [ConversationNext]_conversationVars =>
        ConversationInv' /\ HonestInv' /\ LegalInv'
  BY ConversationNextKeeps, HonestKeeps, LegalKeeps
<1>3. QED
  BY <1>1, <1>2, PTL DEF ConversationSpec

\* A conversation nothing is wrong with by itself is never refused, whatever is
\* recorded, found and declared in whatever turn.
THEOREM LegalAcceptedHolds == ConversationSpec => []LegalAccepted
<1>1. LegalInv => LegalAccepted
  BY DEF LegalInv, LegalAccepted
<1>2. QED
  BY <1>1, LegalInvariant, PTL

-------------------------------------------------------------------------------
(* What a Native model is sent.                                              *)

\* Without its id an item has the type and the call it had.
LEMMA GenuineFields ==
  ASSUME NEW i, Genuine(i)
  PROVE  /\ [i EXCEPT !.id = "none"].type = i.type
         /\ i.type \in CallTypes \cup OutputTypes => [i EXCEPT !.id = "none"].call = i.call
BY DEF Genuine

PairsOf == INSTANCE Folding WITH
  Op <- LAMBDA c, pairs, i : IF i.type \in CallTypes \cup OutputTypes
                             THEN Append(pairs, [type |-> i.type, call |-> i.call])
                             ELSE pairs,
  Holds <- LAMBDA c, s, pairs : TRUE

\* Pairs goes through the items one by one.
LEMMA PairsFold ==
  ASSUME NEW items
  PROVE  Pairs(items) = PairsOf!Fold(0, <<>>, items)
<1>1. Pairs(items) = PairsOf!Iter(0, <<>>, items)[DOMAIN items]
  BY DEF Pairs, FoldLeft, MapThenFoldSet, PairsOf!Iter, PairsOf!Folded, PairsOf!Max, Max
<1>2. QED
  BY <1>1, PairsOf!FoldIs

\* Histories with the same calls and results, in the same places.
LEMMA PairsAlike ==
  ASSUME NEW s, NEW t, IsSequence(s), IsSequence(t), Len(s) = Len(t),
         \A k \in 1 .. Len(s) :
           /\ s[k].type = t[k].type
           /\ s[k].type \in CallTypes \cup OutputTypes => s[k].call = t[k].call
  PROVE  Pairs(s) = Pairs(t)
<1> DEFINE S == {s[k] : k \in DOMAIN s}
           T == {t[k] : k \in DOMAIN t}
<1>1. s \in Seq(S) /\ t \in Seq(T)
  BY DEF IsSequence
<1> HIDE DEF S, T
<1>2. PairsOf!Fold(0, <<>>, s) = PairsOf!Fold(0, <<>>, t)
  BY <1>1, PairsOf!FoldAlike
<1>3. QED
  BY <1>2, PairsFold

\* One more item is one more pair, or none.
LEMMA PairsAppend ==
  ASSUME NEW S, NEW s \in Seq(S), NEW i \in S
  PROVE  Pairs(Append(s, i)) = IF i.type \in CallTypes \cup OutputTypes
                               THEN Append(Pairs(s), [type |-> i.type, call |-> i.call])
                               ELSE Pairs(s)
BY PairsFold, PairsOf!FoldAppend

\* What is left of a history without reasoning.
Bare(s, kept) ==
  /\ IsSequence(kept)
  /\ \A k \in DOMAIN kept : Genuine(kept[k]) /\ kept[k].type \notin {"reasoning", "web_search_call"}
  /\ Pairs(kept) = Pairs(s)

Cleaned == INSTANCE Folding WITH
  Op <- LAMBDA c, kept, i : IF i.type \in {"reasoning", "web_search_call"} THEN kept
                            ELSE Append(kept, i),
  Holds <- LAMBDA c, s, kept : Bare(s, kept)

\* The sanitizer's retain goes through the items one by one.
LEMMA CleanedFold ==
  ASSUME NEW items
  PROVE  WithoutReasoning(items) = Cleaned!Fold(0, <<>>, items)
<1>1. WithoutReasoning(items) = Cleaned!Iter(0, <<>>, items)[DOMAIN items]
  BY DEF WithoutReasoning, FoldLeft, MapThenFoldSet, Cleaned!Iter, Cleaned!Folded, Cleaned!Max, Max
<1>2. QED
  BY <1>1, Cleaned!FoldIs

\* One more item is kept, or is no call and no result.
LEMMA BareAppend ==
  ASSUME NEW S, \A i \in S : Genuine(i), NEW s \in Seq(S), NEW x \in S, NEW kept, Bare(s, kept)
  PROVE  Bare(Append(s, x), IF x.type \in {"reasoning", "web_search_call"} THEN kept
                            ELSE Append(kept, x))
<1>1. CASE x.type \in {"reasoning", "web_search_call"}
  <2>1. x.type \notin CallTypes \cup OutputTypes
    BY <1>1 DEF CallTypes, OutputTypes
  <2>2. Pairs(Append(s, x)) = Pairs(s)
    BY <2>1, PairsAppend
  <2>3. QED
    BY <1>1, <2>2 DEF Bare
<1>2. CASE x.type \notin {"reasoning", "web_search_call"}
  <2>1. /\ IsSequence(Append(kept, x)) /\ DOMAIN kept = 1 .. Len(kept) /\ Len(kept) \in Nat
        /\ DOMAIN Append(kept, x) = 1 .. Len(kept) + 1
        /\ \A k \in 1 .. Len(kept) : Append(kept, x)[k] = kept[k]
        /\ Append(kept, x)[Len(kept) + 1] = x
    BY Appended DEF Bare
  <2>2. \A k \in DOMAIN Append(kept, x) : k \in DOMAIN kept \/ k = Len(kept) + 1
    BY <2>1
  <2>3. ASSUME NEW k \in DOMAIN Append(kept, x)
        PROVE  /\ Genuine(Append(kept, x)[k])
               /\ Append(kept, x)[k].type \notin {"reasoning", "web_search_call"}
    BY <1>2, <2>1, <2>2 DEF Bare
  <2>4. Pairs(Append(kept, x)) = Pairs(Append(s, x))
    <3> DEFINE T == {kept[k] : k \in DOMAIN kept} \cup {x}
    <3>1. kept \in Seq(T) /\ x \in T
      BY SeqMonotonic DEF Bare, IsSequence
    <3> HIDE DEF T
    <3>2. QED
      BY <3>1, PairsAppend DEF Bare
  <2>5. QED
    BY <1>2, <2>1, <2>3, <2>4 DEF Bare
<1>3. QED
  BY <1>1, <1>2

\* What the sanitizer retains has no reasoning and all pairs.
LEMMA WithoutReasoningBare ==
  ASSUME NEW items, IsSequence(items), \A k \in DOMAIN items : Genuine(items[k])
  PROVE  Bare(items, WithoutReasoning(items))
<1> DEFINE S == {items[k] : k \in DOMAIN items}
<1>1. items \in Seq(S) /\ \A i \in S : Genuine(i)
  BY DEF IsSequence
<1> HIDE DEF S
<1>2. Bare(<<>>, <<>>)
  BY NoItems DEF Bare
<1>3. \A s \in Seq(S), x \in S : \A kept :
        Bare(s, kept) => Bare(Append(s, x), IF x.type \in {"reasoning", "web_search_call"} THEN kept
                                            ELSE Append(kept, x))
  BY <1>1, BareAppend
<1>4. Bare(items, Cleaned!Fold(0, <<>>, items))
  BY <1>1, <1>2, <1>3, Cleaned!FoldKeeps
<1>5. QED
  BY <1>4, CleanedFold

\* What the sanitizer makes of a history.
LEMMA SanitizedKeeps ==
  ASSUME NEW items, IsSequence(items), \A k \in DOMAIN items : Genuine(items[k])
  PROVE  /\ \A k \in DOMAIN Sanitized(items) :
              Sanitized(items)[k].type = "reasoning" => Sanitized(items)[k].id = "native"
         /\ Pairs(Sanitized(items)) = Pairs(items)
         /\ Sanitized(items) = items \/ \E k \in DOMAIN items : ByGrok(items[k])
<1> DEFINE mixed == ContainsGrokReasoning(items)
           kept == IF mixed THEN WithoutReasoning(items) ELSE items
           sent == [k \in DOMAIN kept |->
                      IF LosesId(kept[k], mixed) THEN [kept[k] EXCEPT !.id = "none"] ELSE kept[k]]
<1>1. Sanitized(items) = sent
  BY DEF Sanitized
<1>2. /\ IsSequence(kept) /\ \A k \in DOMAIN kept : Genuine(kept[k])
      /\ Pairs(kept) = Pairs(items)
  BY WithoutReasoningBare DEF Bare
<1>3. mixed => \A k \in DOMAIN kept : kept[k].type # "reasoning"
  BY WithoutReasoningBare DEF Bare
<1>4. ~mixed => kept = items
  OBVIOUS
<1>5. mixed => \E k \in DOMAIN items : ByGrok(items[k])
  BY DEF ContainsGrokReasoning, Genuine, ByGrok
<1>6. ASSUME ~mixed, NEW k \in DOMAIN items, items[k].type = "reasoning"
      PROVE  items[k].id = "native"
  BY <1>6 DEF ContainsGrokReasoning, Genuine
<1>7. mixed \in BOOLEAN
  BY DEF ContainsGrokReasoning
<1> HIDE DEF mixed, kept
<1>8. /\ DOMAIN sent = DOMAIN kept /\ DOMAIN kept = 1 .. Len(kept) /\ Len(kept) \in Nat
      /\ \A k \in DOMAIN kept :
           sent[k] = IF LosesId(kept[k], mixed) THEN [kept[k] EXCEPT !.id = "none"] ELSE kept[k]
  BY <1>2, Sequences
<1>9. \A k \in DOMAIN kept :
        /\ sent[k].type = kept[k].type
        /\ kept[k].type \in CallTypes \cup OutputTypes => sent[k].call = kept[k].call
  BY <1>2, <1>8, GenuineFields
<1>10. IsSequence(sent) /\ Len(sent) = Len(kept)
  <2> DEFINE S == {sent[k] : k \in DOMAIN kept}
  <2>1. sent \in [1 .. Len(kept) -> S]
    BY <1>8
  <2>2. sent \in Seq(S)
    BY <1>8, <2>1, SeqDef
  <2> HIDE DEF S
  <2>3. IsSequence(sent)
    BY <2>2, Sequential
  <2>4. QED
    BY <1>8, <2>3, Sequences
<1> HIDE DEF sent
<1>11. Pairs(sent) = Pairs(items)
  <2>1. \A k \in 1 .. Len(sent) :
          /\ sent[k].type = kept[k].type
          /\ sent[k].type \in CallTypes \cup OutputTypes => sent[k].call = kept[k].call
    BY <1>8, <1>9, <1>10
  <2>2. Pairs(sent) = Pairs(kept)
    BY <1>2, <1>10, <2>1, PairsAlike
  <2>3. QED
    BY <1>2, <2>2
<1>12. ASSUME NEW k \in DOMAIN sent, sent[k].type = "reasoning" PROVE sent[k].id = "native"
  <2>1. k \in DOMAIN kept /\ kept[k].type = "reasoning" /\ ~mixed
    BY <1>3, <1>8, <1>9, <1>12
  <2>2. ~LosesId(kept[k], mixed)
    BY <2>1 DEF LosesId
  <2>3. QED
    BY <1>4, <1>6, <1>8, <2>1, <2>2
<1>13. sent = items \/ \E k \in DOMAIN items : ByGrok(items[k])
  <2>1. CASE mixed
    BY <1>5, <2>1
  <2>2. CASE ~mixed /\ \E k \in DOMAIN items : LosesId(items[k], mixed)
    <3>1. PICK k \in DOMAIN items : items[k].type = "tool_search_call" /\ items[k].id # "native"
      BY <2>2 DEF LosesId
    <3>2. items[k].id \in {"none", "grok", "native"}
      BY <3>1 DEF Genuine
    <3>3. QED
      BY <3>1, <3>2 DEF ByGrok
  <2>3. CASE ~mixed /\ ~\E k \in DOMAIN items : LosesId(items[k], mixed)
    <3>1. kept = items /\ \A k \in 1 .. Len(sent) : sent[k] = items[k]
      BY <1>4, <1>8, <1>10, <2>3
    <3> DEFINE S == {sent[k] : k \in DOMAIN sent} \cup {items[k] : k \in DOMAIN items}
    <3>2. sent \in Seq(S) /\ items \in Seq(S)
      BY <1>10, SeqMonotonic DEF IsSequence
    <3> HIDE DEF S
    <3>3. sent = items
      BY <1>10, <3>1, <3>2, SeqEqual
    <3>4. QED
      BY <3>3
  <2>4. QED
    BY <2>1, <2>2, <2>3
<1>14. QED
  BY <1>1, <1>11, <1>12, <1>13

\* A Native request carries what it saw of the history.
NativeInv ==
  IF turn = "native"
  THEN asked \in 0 .. Len(history) /\ native = Sanitized(SubSeq(history, 1, asked))
  ELSE native = <<>>

\* The positions of the front of a sequence.
LEMMA FrontElements ==
  ASSUME NEW s, IsSequence(s), NEW n \in 0 .. Len(s)
  PROVE  /\ IsSequence(SubSeq(s, 1, n)) /\ DOMAIN SubSeq(s, 1, n) = 1 .. n
         /\ \A k \in 1 .. n : SubSeq(s, 1, n)[k] = s[k] /\ k \in DOMAIN s
<1> DEFINE S == {s[k] : k \in DOMAIN s}
<1>1. Len(s) \in Nat /\ DOMAIN s = 1 .. Len(s) /\ n \in Int
  BY Sequences
<1>2. \A k \in 1 .. n : k \in DOMAIN s /\ s[k] \in S
  BY <1>1
<1> HIDE DEF S
<1>3. /\ SubSeq(s, 1, n) \in Seq(S)
      /\ Len(SubSeq(s, 1, n)) = IF 1 <= n THEN n - 1 + 1 ELSE 0
      /\ \A k \in 1 .. n - 1 + 1 : SubSeq(s, 1, n)[k] = s[1 + k - 1]
  BY <1>1, <1>2, SubSeqProperties
<1>4. n - 1 + 1 = n /\ (~(1 <= n) => n = 0) /\ \A k \in 1 .. n : 1 + k - 1 = k
  BY <1>1
<1>5. Len(SubSeq(s, 1, n)) = n
  BY <1>3, <1>4
<1>6. IsSequence(SubSeq(s, 1, n))
  BY <1>3, Sequential
<1>7. DOMAIN SubSeq(s, 1, n) = 1 .. n
  BY <1>5, <1>6, Sequences
<1>8. ASSUME NEW k \in 1 .. n PROVE SubSeq(s, 1, n)[k] = s[k]
  <2>1. k \in 1 .. n - 1 + 1 /\ 1 + k - 1 = k
    BY <1>4
  <2>2. SubSeq(s, 1, n)[k] = s[1 + k - 1]
    BY <1>3, <2>1
  <2>3. QED
    BY <2>1, <2>2
<1>9. QED
  BY <1>2, <1>6, <1>7, <1>8

\* What is appended leaves the front of a sequence.
LEMMA FrontStays ==
  ASSUME NEW s, IsSequence(s), NEW i, NEW n \in 0 .. Len(s)
  PROVE  SubSeq(Append(s, i), 1, n) = SubSeq(s, 1, n) /\ n \in 0 .. Len(Append(s, i))
<1> DEFINE a == SubSeq(Append(s, i), 1, n)
           b == SubSeq(s, 1, n)
<1>1. /\ IsSequence(Append(s, i)) /\ Len(Append(s, i)) = Len(s) + 1 /\ Len(s) \in Nat
      /\ \A k \in 1 .. Len(s) : Append(s, i)[k] = s[k]
  BY Appended
<1>2. n \in 0 .. Len(Append(s, i)) /\ \A k \in 1 .. n : k \in 1 .. Len(s)
  BY <1>1
<1>3. /\ IsSequence(a) /\ DOMAIN a = 1 .. n /\ IsSequence(b) /\ DOMAIN b = 1 .. n
      /\ \A k \in 1 .. n : a[k] = Append(s, i)[k] /\ b[k] = s[k]
  <2>1. IsSequence(b) /\ DOMAIN b = 1 .. n /\ \A k \in 1 .. n : b[k] = s[k]
    BY FrontElements
  <2> DEFINE t == Append(s, i)
  <2>2. IsSequence(t) /\ n \in 0 .. Len(t)
    BY <1>1, <1>2
  <2> HIDE DEF t
  <2>3. /\ IsSequence(SubSeq(t, 1, n)) /\ DOMAIN SubSeq(t, 1, n) = 1 .. n
        /\ \A k \in 1 .. n : SubSeq(t, 1, n)[k] = t[k]
    BY <2>2, FrontElements
  <2>4. QED
    BY <2>1, <2>3 DEF t
<1> HIDE DEF a, b
<1>4. Len(a) = Len(b)
  <2>1. /\ Len(a) \in Nat /\ DOMAIN a = 1 .. Len(a) /\ Len(b) \in Nat /\ DOMAIN b = 1 .. Len(b)
    BY <1>3, Sequences
  <2>2. QED
    BY <1>3, <2>1
<1>5. \A k \in 1 .. Len(a) : a[k] = b[k]
  <2>1. DOMAIN a = 1 .. Len(a)
    BY <1>3, Sequences
  <2>2. QED
    BY <1>1, <1>2, <1>3, <2>1
<1> DEFINE S == {a[k] : k \in DOMAIN a} \cup {b[k] : k \in DOMAIN b}
<1>6. a \in Seq(S) /\ b \in Seq(S)
  BY <1>3, SeqMonotonic DEF IsSequence
<1> HIDE DEF S
<1>7. a = b
  BY <1>4, <1>5, <1>6, SeqEqual
<1>8. QED
  BY <1>2, <1>7 DEF a, b

\* StartNative sanitizes the history; nothing else touches what Native gets.
LEMMA NativeKeeps ==
  ConversationInv /\ NativeInv /\ [ConversationNext]_conversationVars => NativeInv'
<1> SUFFICES ASSUME ConversationInv, NativeInv, [ConversationNext]_conversationVars
             PROVE  NativeInv'
  OBVIOUS
<1>1. IsSequence(history)
  BY DEF ConversationInv, HistoryInv, Sourced
<1>2. CASE CodexRecords \/ GrokAnswers \/ NativeAnswers
  <2>1. /\ UNCHANGED <<turn, asked, native>>
        /\ \E i : history' = Append(history, i)
    <3>1. CASE CodexRecords
      BY <3>1 DEF CodexRecords, UserSays, ToolReturns, OddItem
    <3>2. CASE GrokAnswers
      BY <3>2 DEF GrokAnswers
    <3>3. CASE NativeAnswers
      BY <3>3 DEF NativeAnswers
    <3>4. QED
      BY <1>2, <3>1, <3>2, <3>3
  <2>2. QED
    BY <1>1, <2>1, FrontStays DEF NativeInv
<1>3. CASE StartGrok \/ RefuseHistory \/ SendToGrok
  <2>1. turn # "native" /\ turn' # "native" /\ native' = native
    BY <1>3 DEF StartGrok, RefuseHistory, SendToGrok
  <2>2. QED
    BY <2>1 DEF NativeInv
<1>4. CASE Prepare \/ UNCHANGED conversationVars
  <2>1. UNCHANGED <<turn, asked, native, history>>
    BY <1>4 DEF Prepare, codexVars, conversationVars
  <2>2. QED
    BY <2>1 DEF NativeInv
<1>5. CASE StartNative
  <2>1. /\ native' = Sanitized(history) /\ asked' = Len(history) /\ turn' = "native"
        /\ history' = history
    BY <1>5 DEF StartNative, codexVars
  <2>2. Len(history) \in 0 .. Len(history)
    BY <1>1, Sequences
  <2>3. SubSeq(history, 1, Len(history)) = history
    BY <1>1, SubSeqFull DEF IsSequence
  <2>4. QED
    BY <2>1, <2>2, <2>3 DEF NativeInv
<1>6. CASE EndTurn
  BY <1>6 DEF EndTurn, NativeInv
<1>7. QED
  BY <1>2, <1>3, <1>4, <1>5, <1>6 DEF ConversationNext

\* NativeInv is an invariant, beside the others.
LEMMA NativeInvariant == ConversationSpec => [](ConversationInv /\ HonestInv /\ NativeInv)
<1>1. ConversationInit => NativeInv
  BY DEF ConversationInit, NativeInv
<1>2. QED
  BY <1>1, NativeKeeps, HonestInvariant, PTL DEF ConversationSpec

\* What a Native request carries of the history it saw.
LEMMA NativeCarries ==
  ASSUME ConversationInv, HonestInv, NativeInv, turn = "native"
  PROVE  LET recorded == SubSeq(history, 1, asked) IN
         /\ \A k \in DOMAIN native : native[k].type = "reasoning" => native[k].id = "native"
         /\ Pairs(native) = Pairs(recorded)
         /\ native = recorded \/ \E k \in DOMAIN recorded : ByGrok(recorded[k])
<1> DEFINE recorded == SubSeq(history, 1, asked)
<1>1. IsSequence(history) /\ asked \in 0 .. Len(history) /\ native = Sanitized(recorded)
  BY DEF ConversationInv, HistoryInv, Sourced, NativeInv
<1>2. IsSequence(recorded) /\ \A k \in DOMAIN recorded : Genuine(recorded[k])
  <2>1. /\ IsSequence(recorded) /\ DOMAIN recorded = 1 .. asked
        /\ \A k \in 1 .. asked : recorded[k] = history[k] /\ k \in DOMAIN history
    BY <1>1, FrontElements
  <2> HIDE DEF recorded
  <2>2. \A k \in DOMAIN history : Genuine(history[k])
    BY DEF HonestInv, HonestItems, Honest
  <2>3. QED
    BY <2>1, <2>2
<1> HIDE DEF recorded
<1>3. /\ \A k \in DOMAIN native : native[k].type = "reasoning" => native[k].id = "native"
      /\ Pairs(native) = Pairs(recorded)
      /\ native = recorded \/ \E k \in DOMAIN recorded : ByGrok(recorded[k])
  BY <1>1, <1>2, SanitizedKeeps
<1>4. QED
  BY <1>3 DEF recorded

\* Reasoning that one provider encrypted never goes to the other, whichever turns
\* the two take.
THEOREM StateStaysHomeHolds == ConversationSpec => []StateStaysHome
<1>1. ConversationInv /\ HonestInv /\ NativeInv => StateStaysHome
  <2> SUFFICES ASSUME ConversationInv, HonestInv, NativeInv PROVE StateStaysHome
    OBVIOUS
  <2>1. ASSUME NEW k \in DOMAIN projected, projected[k].kind = "reasoning"
        PROVE  input[projected[k].at].id = "grok"
    <3>1. PICK j \in DOMAIN parsed : Projectable(parsed[j]) /\ projected[k] = GrokValue(parsed[j])
      BY DEF HonestInv, ValuesSent, FromParsed
    <3> DEFINE at == parsed[j].at
               i == input[at]
    <3>2. Sourced /\ at \in DOMAIN input /\ parsed[j] = Parsed(i, at)
      BY DEF ConversationInv, HistoryInv, Sourced
    <3>3. projected[k].at = at
      BY <3>1, <3>2, ParsedKeeps
    <3>4. Genuine(i)
      BY <3>2 DEF HonestInv, HonestItems, Honest
    <3> HIDE DEF at, i
    <3>5. parsed[j].kind = "reasoning" /\ parsed[j].cipher = "grok"
      BY <2>1, <3>1 DEF GrokValue, Projectable, CallTypes, OutputTypes
    <3>6. i.type = "reasoning" /\ i.cipher = "grok"
      BY <3>2, <3>5 DEF Parsed, OutputTypes
    <3>7. QED
      BY <3>3, <3>4, <3>6 DEF Genuine, i
  <2>2. \A k \in DOMAIN native : native[k].type = "reasoning" => native[k].id = "native"
    <3>1. CASE turn = "native"
      BY <3>1, NativeCarries
    <3>2. CASE turn # "native"
      BY <3>2, NoItems DEF NativeInv
    <3>3. QED
      BY <3>1, <3>2
  <2>3. QED
    BY <2>1, <2>2 DEF StateStaysHome
<1>2. QED
  BY <1>1, NativeInvariant, PTL

\* A Native model sees every call and result of the history, paired as they were,
\* and a history that no Grok model wrote in, as it is.
THEOREM NativeKeptHolds == ConversationSpec => []NativeKept
<1>1. ConversationInv /\ HonestInv /\ NativeInv => NativeKept
  BY NativeCarries DEF NativeKept
<1>2. QED
  BY <1>1, NativeInvariant, PTL

===============================================================================
