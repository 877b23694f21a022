------------------------- MODULE HistoryProjection -------------------------
(* The history of one request on its way to Grok (protocol.rs): parse_input *)
(* reads the items one by one, project_input_for_xai writes them one by one *)
(* and moves the assistant's comments out of the batches of calls.          *)
(*                                                                          *)
(* An item is a record with its type and the fields that decide what is     *)
(* done with it; `valid` says that its remaining fields are as the parser   *)
(* wants them.  A text is where its item stands in the history (`at`).      *)
EXTENDS NamespaceProjection, ArgumentNumbers

VARIABLES
  input,       \* the items as Codex sent them
  phase,       \* "idle", "parse", "project", "ready" or "rejected"
  pos,         \* the next item of the running loop
  map,         \* the NamespaceToolProjection
  calls,       \* parse_input: the ids of calls, and of outputs, so far
  outputs,
  parsed,      \* NormalizedResponsesRequest.input
  open,        \* open_call_ids
  batchStart,  \* open_batch_start: how much stands before the batch, or NoBatch
  deferred,    \* deferred_assistant_messages
  projected    \* what is sent so far

historyVars == <<input, phase, pos, map, calls, outputs, parsed, open,
                 batchStart, deferred, projected>>

NoBatch == -1

CallTypes == {"function_call", "tool_search_call"}
OutputTypes == {"function_call_output", "tool_search_output"}
ForeignTypes == {"custom_tool_call", "custom_tool_call_output"}
KnownTypes == CallTypes \cup OutputTypes \cup ForeignTypes \cup
              {"message", "reasoning", "agent_message"}

-----------------------------------------------------------------------------
(* One item: InputItem::parse.                                              *)

\* TextMessage::parse: a phase only for the assistant, and the parts its role
\* may have.
MessageValid(i) ==
  /\ i.role \in {"user", "developer", "assistant"}
  /\ \/ i.phase = "absent"
     \/ i.role = "assistant" /\ i.phase \in {"commentary", "final_answer"}
  /\ i.parts \subseteq (IF i.role = "assistant" THEN {"output_text"}
                        ELSE {"input_text", "input_image"})

\* PriorReasoning::parse: a bare envelope prefix carries nothing to replay.
ReasoningValid(i) == i.cipher \in {"null", "grok", "foreign"}

AgentMessageValid(i) == i.parts \subseteq {"input_text", "encrypted_content"}

WellFormed(i) ==
  /\ i.valid
  /\ i.type = "message" => MessageValid(i)
  /\ i.type = "reasoning" => ReasoningValid(i)
  /\ i.type = "agent_message" => AgentMessageValid(i)

\* A well-formed item may still be a call whose flat name is taken.
ItemValid(i) ==
  /\ WellFormed(i)
  /\ i.type = "function_call" =>
       \/ i.namespace = NoNamespace
       \/ Ensurable(map, i.namespace, i.name)

\* FunctionCall::parse adds the pair of the call to the projection.
MapAfter(i) ==
  IF i.type = "function_call" /\ i.namespace # NoNamespace
  THEN Ensured(map, i.namespace, i.name)
  ELSE map

\* parse_agent_message: encrypted or blank messages of agents are foreign.
AgentReadable(i) == i.parts = {"input_text"}

Parsed(i, at) ==
  CASE i.type = "message" -> [kind |-> "message", role |-> i.role, at |-> at]
    [] i.type = "agent_message" /\ AgentReadable(i) ->
         [kind |-> "message", role |-> "assistant", at |-> at]
    [] i.type = "reasoning" ->
         [kind |-> "reasoning", cipher |-> i.cipher, at |-> at]
    [] i.type = "function_call" ->
         [kind |-> "function_call", call |-> i.call, at |-> at,
          name |-> Flat(i.namespace, i.name), number |-> Canonical(i.number)]
    [] i.type = "tool_search_call" ->
         [kind |-> i.type, call |-> i.call, at |-> at, number |-> Canonical(i.number)]
    [] i.type \in OutputTypes ->
         [kind |-> i.type, call |-> i.call, at |-> at]
    [] OTHER -> [kind |-> "foreign", at |-> at]

\* to_grok_value: only Grok's own reasoning is replayed to Grok.
Projectable(p) ==
  \/ p.kind = "message"
  \/ p.kind = "reasoning" /\ p.cipher = "grok"
  \/ p.kind \in CallTypes \cup OutputTypes

GrokValue(p) ==
  CASE p.kind = "tool_search_call" ->
         [kind |-> "function_call", call |-> p.call, at |-> p.at,
          name |-> SearchName, number |-> p.number]
    [] p.kind = "tool_search_output" ->
         [kind |-> "function_call_output", call |-> p.call, at |-> p.at]
    [] OTHER -> p

-----------------------------------------------------------------------------
(* parse_input.                                                             *)

projectVars == <<open, batchStart, deferred, projected>>

Parsing == phase = "parse" /\ pos <= Len(input)
Item == input[pos]

\* Items of a type this bridge does not know have no projection.
SkipUnknown ==
  /\ Parsing /\ Item.type \notin KnownTypes
  /\ pos' = pos + 1
  /\ UNCHANGED <<input, phase, map, calls, outputs, parsed, projectVars>>

RejectMalformed ==
  /\ Parsing /\ Item.type \in KnownTypes /\ ~ItemValid(Item)
  /\ phase' = "rejected"
  /\ UNCHANGED <<input, pos, map, calls, outputs, parsed, projectVars>>

RejectUnmatched ==
  /\ Parsing /\ Item.type \in OutputTypes /\ ItemValid(Item)
  /\ Item.call \notin calls
  /\ phase' = "rejected"
  /\ UNCHANGED <<input, pos, map, calls, outputs, parsed, projectVars>>

\* A second result of a call is dropped.
DropDuplicate ==
  /\ Parsing /\ Item.type \in OutputTypes /\ ItemValid(Item)
  /\ Item.call \in calls \cap outputs
  /\ pos' = pos + 1
  /\ UNCHANGED <<input, phase, map, calls, outputs, parsed, projectVars>>

AcceptOutput ==
  /\ Parsing /\ Item.type \in OutputTypes /\ ItemValid(Item)
  /\ Item.call \in calls \ outputs
  /\ outputs' = outputs \cup {Item.call}
  /\ parsed' = Append(parsed, Parsed(Item, pos))
  /\ pos' = pos + 1
  /\ UNCHANGED <<input, phase, map, calls, projectVars>>

AcceptCall ==
  /\ Parsing /\ Item.type \in CallTypes /\ ItemValid(Item)
  /\ calls' = calls \cup {Item.call}
  /\ map' = MapAfter(Item)
  /\ parsed' = Append(parsed, Parsed(Item, pos))
  /\ pos' = pos + 1
  /\ UNCHANGED <<input, phase, outputs, projectVars>>

AcceptOther ==
  /\ Parsing /\ Item.type \in KnownTypes \ (CallTypes \cup OutputTypes)
  /\ ItemValid(Item)
  /\ parsed' = Append(parsed, Parsed(Item, pos))
  /\ pos' = pos + 1
  /\ UNCHANGED <<input, phase, map, calls, outputs, projectVars>>

ParsedAll ==
  /\ phase = "parse" /\ pos > Len(input)
  /\ phase' = "project"
  /\ pos' = 1
  /\ UNCHANGED <<input, map, calls, outputs, parsed, projectVars>>

Parse ==
  \/ SkipUnknown \/ RejectMalformed \/ RejectUnmatched \/ DropDuplicate
  \/ AcceptOutput \/ AcceptCall \/ AcceptOther \/ ParsedAll

-----------------------------------------------------------------------------
(* project_input_for_xai.                                                   *)

parseVars == <<input, map, calls, outputs, parsed>>

Completed == {parsed[k].call : k \in {j \in DOMAIN parsed : parsed[j].kind \in OutputTypes}}

\* Faulty variant: a call inside a batch is taken for part of it.
OpensBatchOnce(p) == p.kind \in CallTypes /\ p.call \in Completed /\ open = {}

OpensBatch(p) == p.kind \in CallTypes /\ p.call \in Completed
Comment(p) == p.kind = "message" /\ p.role = "assistant"

\* Faulty variant: the comments go after the batch.
CommentsMovedAfter(sent, start) == sent \o deferred

\* The deferred comments go before the batch.
CommentsMoved(sent, start) ==
  SubSeq(sent, 1, start) \o deferred \o SubSeq(sent, start + 1, Len(sent))

Projecting == phase = "project" /\ pos <= Len(parsed)

DeferComment ==
  /\ Projecting /\ Comment(parsed[pos]) /\ open # {}
  /\ deferred' = Append(deferred, GrokValue(parsed[pos]))
  /\ pos' = pos + 1
  /\ UNCHANGED <<parseVars, phase, open, batchStart, projected>>

OpenAfter(p) ==
  CASE OpensBatch(p) -> open \cup {p.call}
    [] p.kind \in OutputTypes -> open \ {p.call}
    [] OTHER -> open
StartAfter(p) ==
  IF OpensBatch(p) /\ batchStart = NoBatch THEN Len(projected) ELSE batchStart
SentAfter(p) ==
  IF Projectable(p) THEN Append(projected, GrokValue(p)) ELSE projected

ProjectItem ==
  /\ Projecting /\ ~(Comment(parsed[pos]) /\ open # {})
  /\ LET p == parsed[pos] IN
     /\ open' = OpenAfter(p)
     /\ IF OpenAfter(p) = {} /\ StartAfter(p) # NoBatch
        THEN /\ projected' = CommentsMoved(SentAfter(p), StartAfter(p))
             /\ deferred' = <<>>
             /\ batchStart' = NoBatch
        ELSE /\ projected' = SentAfter(p)
             /\ batchStart' = StartAfter(p)
             /\ UNCHANGED deferred
  /\ pos' = pos + 1
  /\ UNCHANGED <<parseVars, phase>>

ProjectedAll ==
  /\ phase = "project" /\ pos > Len(parsed)
  /\ projected' = IF batchStart = NoBatch THEN projected
                  ELSE CommentsMoved(projected, batchStart)
  /\ deferred' = IF batchStart = NoBatch THEN deferred ELSE <<>>
  /\ phase' = "ready"
  /\ UNCHANGED <<parseVars, pos, open, batchStart>>

Project == DeferComment \/ ProjectItem \/ ProjectedAll

-----------------------------------------------------------------------------
(* A request begins with the tools' part of the namespace projection, and   *)
(* nothing of it is left when it is over.                                   *)

Blank(items, next, declared) ==
  /\ input' = items /\ phase' = next /\ pos' = 1 /\ map' = declared
  /\ calls' = {} /\ outputs' = {} /\ parsed' = <<>>
  /\ open' = {} /\ batchStart' = NoBatch /\ deferred' = <<>> /\ projected' = <<>>

Begin(items, declared) == Blank(items, "parse", declared)
Drop == Blank(<<>>, "idle", {})

HistoryInit ==
  /\ input = <<>> /\ phase = "idle" /\ pos = 1 /\ map = {}
  /\ calls = {} /\ outputs = {} /\ parsed = <<>>
  /\ open = {} /\ batchStart = NoBatch /\ deferred = <<>> /\ projected = <<>>

HistoryStep == Parse \/ Project

-----------------------------------------------------------------------------
(* What a request keeps of its history.                                     *)

IsOutput(p) == p.kind \in OutputTypes

\* After item `at` of the history some call is waiting for a result it got.
CallRunning(at) ==
  \E c, r \in DOMAIN parsed :
    /\ parsed[c].kind \in CallTypes /\ IsOutput(parsed[r])
    /\ parsed[c].call = parsed[r].call
    /\ parsed[c].at <= at /\ at < parsed[r].at

\* Every result that is sent follows its call, is the only one of its call,
\* and no comment of the assistant stands between the two (README.md:125, the
\* order project_input_for_xai makes).
ResultsPaired ==
  phase = "ready" =>
    \A r \in DOMAIN projected : projected[r].kind = "function_call_output" =>
      /\ \A o \in DOMAIN projected \ {r} :
           projected[o].kind = "function_call_output" => projected[o].call # projected[r].call
      /\ \E c \in 1 .. r : /\ projected[c].kind = "function_call"
                           /\ projected[c].call = projected[r].call
                           /\ \A k \in c .. r : ~Comment(projected[k])

\* What can be sent is sent once, and in the order it was recorded; only the
\* assistant's comments go before others, and only before what was recorded in
\* the same batch: since then a call was running all the time (README.md:125).
RecordKept ==
  phase = "ready" =>
    /\ {projected[k].at : k \in DOMAIN projected} =
         {parsed[k].at : k \in {j \in DOMAIN parsed : Projectable(parsed[j])}}
    /\ \A i, j \in DOMAIN projected : i < j =>
         \/ projected[i].at < projected[j].at
         \/ /\ Comment(projected[i]) /\ ~Comment(projected[j])
            /\ projected[j].at < projected[i].at
            /\ \A at \in projected[j].at .. projected[i].at - 1 : CallRunning(at)

=============================================================================
