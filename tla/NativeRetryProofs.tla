--------------------------- MODULE NativeRetryProofs ---------------------------
(***************************************************************************)
(* Proofs about NativeRetry for every table of back-offs, every deadline    *)
(* and every Retry-After: the types, the bound on the sends, the time of    *)
(* the last one and the time of the answer.                                 *)
(***************************************************************************)
EXTENDS NativeRetry, TLAPS

\* What makes the bounds inductive: a retry that is slept for or starts has
\* attempts left, a back-off ends by the deadline, and a send is an attempt.
Budget ==
  /\ pc \in {"start", "sleep"} => attempts <= Limit
  /\ pc \in {"send", "body"} => attempts \in 1 .. Limit + 1
  /\ pc = "sleep" => wake <= Deadline
  /\ sends <= attempts

IInv == TypeOK /\ Budget /\ AnswerInTime

\* The number of retries is a natural number and their back-offs are.
LEMMA BackoffTable ==
  /\ Limit \in Nat
  /\ \A i \in 1 .. Limit : Backoff[i] \in Nat
BY NativeRetryAssumption DEF Limit

\* The bounds are natural numbers.
LEMMA BoundTypes == Limit \in Nat /\ Deadline \in Nat /\ Lag \in Nat
BY NativeRetryAssumption, BackoffTable

\* The request starts with its whole budget and at time 0.
LEMMA InitBudget == Init => IInv
BY BoundTypes
DEF Init, IInv, TypeOK, Budget, AnswerInTime, Waiting

\* A wait that fits before the deadline, with a retry left, keeps the budget.
LEMMA SleepKeeps ==
  ASSUME IInv, NEW delay \in Nat, pc \in {"send", "body"},
         Retries, BacksOff(delay), Sleep(delay)
  PROVE  IInv'
BY BoundTypes
DEF IInv, TypeOK, Budget, AnswerInTime, Waiting, Retries, BacksOff, Sleep

\* An answer ends the budget.
LEMMA FinishKeeps ==
  ASSUME IInv, NEW result \in {"unavailable", "status", "bad_gateway", "timeout", "streaming"},
         Finish(result)
  PROVE  IInv'
BY BoundTypes
DEF IInv, TypeOK, Budget, AnswerInTime, Waiting, Finish

\* The request's own steps: one more attempt, the end of a back-off, a timeout.
LEMMA ServiceKeeps == IInv /\ Service => IInv'
<1> SUFFICES ASSUME IInv, Service PROVE IInv'
  OBVIOUS
<1>1. CASE Start
  BY <1>1, BoundTypes
  DEF Start, IInv, TypeOK, Budget, AnswerInTime, Waiting
<1>2. CASE Wake
  BY <1>2, BoundTypes
  DEF Wake, IInv, TypeOK, Budget, AnswerInTime, Waiting
<1>3. CASE SendTimesOut
  BY <1>3, FinishKeeps DEF SendTimesOut
<1>4. CASE BodyTimesOut
  BY <1>4, FinishKeeps DEF BodyTimesOut
<1>5. QED
  BY <1>1, <1>2, <1>3, <1>4 DEF Service

\* Whatever the upstream does, the budget and the deadline hold.
LEMMA UpstreamKeeps == IInv /\ Upstream => IInv'
<1> SUFFICES ASSUME IInv, Upstream PROVE IInv'
  OBVIOUS
<1> USE DEF IInv
<1>1. ASSUME pc \in {"send", "body"}, Retries
      PROVE  attempts \in 1 .. Limit /\ Backoff[attempts] \in Nat
  BY <1>1, BackoffTable DEF Retries, Budget, TypeOK
<1>2. CASE TransientStatus
  <2>1. PICK delay \in RetryAfters \cup {IF Retries THEN Backoff[attempts] ELSE 0} :
          IF Retries /\ BacksOff(delay) THEN Sleep(delay) ELSE Finish("status")
    BY <1>2 DEF TransientStatus
  <2>2. pc = "send"
    BY <1>2 DEF TransientStatus
  <2>3. delay \in Nat
    BY <2>1, <2>2, <1>1, NativeRetryAssumption
  <2>4. QED
    BY <2>1, <2>2, <2>3, SleepKeeps, FinishKeeps
<1>3. CASE SendFails
  BY <1>1, <1>3, SleepKeeps, FinishKeeps DEF SendFails
<1>4. CASE BodyFails
  BY <1>1, <1>4, SleepKeeps, FinishKeeps DEF BodyFails
<1>5. CASE HeadersArrive
  <2>1. CASE now <= Deadline
    BY <1>5, <2>1, BoundTypes
    DEF HeadersArrive, TypeOK, Budget, AnswerInTime, Waiting
  <2>2. CASE ~(now <= Deadline)
    BY <1>5, <2>2, FinishKeeps DEF HeadersArrive
  <2>3. QED
    BY <2>1, <2>2
<1>6. CASE BodyStarts
  BY <1>6, BoundTypes
  DEF BodyStarts, TypeOK, Budget, AnswerInTime, Waiting
<1>7. CASE OtherStatus \/ SendFailsForGood \/ StreamEnds
  BY <1>7, FinishKeeps DEF OtherStatus, SendFailsForGood, StreamEnds
<1>8. QED
  BY <1>2, <1>3, <1>4, <1>5, <1>6, <1>7 DEF Upstream

\* A second passes only while no timer is overdue.
LEMMA TickKeeps == IInv /\ Tick => IInv'
BY BoundTypes
DEF IInv, Tick, TypeOK, Budget, AnswerInTime, Waiting

\* IInv is an invariant.
LEMMA InvariantHolds == Spec => []IInv
<1>1. IInv /\ UNCHANGED vars => IInv'
  BY DEF IInv, vars, TypeOK, Budget, AnswerInTime, Waiting
<1>2. IInv /\ [Next]_vars => IInv'
  BY <1>1, ServiceKeeps, UpstreamKeeps, TickKeeps DEF Next
<1>3. QED
  BY <1>2, InitBudget, PTL DEF Spec

\* Type correctness: for any back-offs, in particular, the count of attempts
\* never leaves the table by more than one.
THEOREM TypeCorrect == Spec => []TypeOK
<1>1. IInv => TypeOK
  BY DEF IInv
<1>2. QED
  BY <1>1, InvariantHolds, PTL

\* The upstream sees a request at most once more than there are back-offs,
\* however send failures, statuses and broken bodies alternate.
THEOREM SendsBoundedHolds == Spec => []SendsBounded
<1>1. IInv => SendsBounded
  BY BackoffTable DEF IInv, TypeOK, Budget, SendsBounded
<1>2. QED
  BY <1>1, InvariantHolds, PTL

\* The client of the request never waits past the deadline and a late timer.
THEOREM AnswerInTimeHolds == Spec => []AnswerInTime
<1>1. IInv => AnswerInTime
  BY DEF IInv
<1>2. QED
  BY <1>1, InvariantHolds, PTL

\* Only the head of the loop sends, and it looks at the time first.
THEOREM NoSendAfterDeadlineHolds == Spec => NoSendAfterDeadline
<1>1. [Next]_vars => [sends' # sends => now <= Deadline]_vars
  BY DEF vars, Next, Service, Upstream, Tick, Start, Wake, SendTimesOut, BodyTimesOut,
         TransientStatus, OtherStatus, SendFails, SendFailsForGood, HeadersArrive,
         BodyFails, BodyStarts, StreamEnds, Sleep, Finish
<1>2. QED
  BY <1>1, PTL DEF Spec, NoSendAfterDeadline

================================================================================
