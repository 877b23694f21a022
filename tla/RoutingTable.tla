----------------------------- MODULE RoutingTable -----------------------------
(***************************************************************************)
(* What the running service promises about routing: one table of admitted   *)
(* models, replaced in one step, and every answer read from one table.      *)
(***************************************************************************)
CONSTANTS
  None,           \* nothing is asked, nothing is answered
  Requests,       \* concurrent requests
  Asks,           \* what a request may ask
  Tables,         \* the tables that can be in force
  Outcome(_, _)   \* Outcome(ask, table): the answer to a request

VARIABLES
  table,   \* the table in force
  asked,   \* asked[r]: what r asks
  answer   \* answer[r]: what r was answered

vars == <<table, asked, answer>>

Init ==
  /\ table \in Tables
  /\ asked = [r \in Requests |-> None]
  /\ answer = [r \in Requests |-> None]

Replace ==
  /\ table' \in Tables
  /\ UNCHANGED <<asked, answer>>

Ask(r) ==
  /\ asked[r] = None
  /\ \E ask \in Asks : asked' = [asked EXCEPT ![r] = ask]
  /\ UNCHANGED <<table, answer>>

Answer(r) ==
  /\ asked[r] # None /\ answer[r] = None
  /\ answer' = [answer EXCEPT ![r] = Outcome(asked[r], table)]
  /\ UNCHANGED <<table, asked>>

\* The answer is used, or the client did not wait for it.
Forget(r) ==
  /\ asked' = [asked EXCEPT ![r] = None]
  /\ answer' = [answer EXCEPT ![r] = None]
  /\ UNCHANGED table

Next == Replace \/ \E r \in Requests : Ask(r) \/ Answer(r) \/ Forget(r)

Spec == Init /\ [][Next]_vars

=============================================================================
